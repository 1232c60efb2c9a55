----------------------------- MODULE BitcoinSend -----------------------------
(***************************************************************************)
(* The send form of the Bitcoin snap (SendFlowUseCases): a dialog whose    *)
(* whole state is one context. Every handler of a click, and the refresh   *)
(* of the rates that comes back every few seconds, starts from a copy of   *)
(* it, waits for the store and the network, and writes all of it. When the *)
(* form is continued the transaction is built and reviewed; what is        *)
(* reviewed is then signed and sent by the account that opened the form.   *)
(***************************************************************************)
EXTENDS Integers, FiniteSets

CONSTANTS Accounts, Recipients, Amounts,
          Rates,      \* fee rates, each the fee of a transaction
          Fallback,   \* the rate used before one is known
          Wallets,    \* what each account may have at first: [free, frozen]
          Editors,    \* clicks that may be handled at once (bound)
          MaxClicks, MaxRounds, MaxChanges,   \* clicks, refreshes, changes of the wallets (bounds)
          Nothing

BitcoinSendAssumption ==
    /\ Rates \subseteq Nat \ {0} /\ Fallback \in Rates /\ Amounts \subseteq Nat \ {0}
    /\ Wallets \subseteq [Accounts -> [free : Nat, frozen : Nat]]
    /\ {MaxClicks, MaxRounds, MaxChanges} \subseteq Nat /\ Nothing \notin Accounts \cup Recipients \cup Int

VARIABLES wallet,   \* what each account has: free, and frozen because something is inscribed on it
          opener,   \* the account the form was opened for
          ui,       \* the screen, the context of the form, the review
          jobs,     \* refreshes scheduled
          refresh,  \* the refresh on its way
          edits,    \* clicks on their way
          sent,     \* what was broadcast, and the review it comes from
          clicks, rounds, changes

sendVars == <<wallet, opener, ui, jobs, refresh, edits, sent, clicks, rounds, changes>>

NoEvent == 0

balance(w) == w.free + w.frozen

\* The builder (external): it takes coins of one account, a drain all it may take.
Build(a, coins, rate, drain, amount, recipient) ==
    LET paid == IF drain THEN coins - rate ELSE amount
    IN  IF paid > 0 /\ paid + rate <= coins
        THEN [account |-> a, recipient |-> recipient, paid |-> paid, fee |-> rate, coins |-> coins,
              frozen |-> coins > wallet[a].free]
        ELSE Nothing

------------------------------------------------------------------------------
\* The form.
Form(a, rate) ==
    [account |-> a, balance |-> balance(wallet[a]), rate |-> rate, recipient |-> Nothing, amount |-> Nothing,
     drain |-> FALSE, fee |-> 0, errors |-> {}, event |-> NoEvent]

\* #computeFee: what drains shows the balance less the fee; a failure leaves the fee there was.
computeFee(c) ==
    IF Nothing \in {c.amount, c.recipient} THEN c
    ELSE LET psbt == Build(c.account, wallet[c.account].free, c.rate, c.drain, c.amount, c.recipient)
         IN  IF psbt = Nothing THEN [c EXCEPT !.errors = @ \cup {"tx"}]
             ELSE [c EXCEPT !.fee = psbt.fee, !.amount = IF c.drain THEN c.balance - psbt.fee ELSE @]

NoClick == [kind |-> "none", c |-> Nothing, value |-> Nothing]
NoRefresh == [pc |-> "idle", c |-> Nothing, event |-> NoEvent]

Remembered ==
    jobs \cup {ui.form.event, refresh.event} \cup (IF refresh.c = Nothing THEN {} ELSE {refresh.c.event})
    \cup {edits[e].c.event : e \in {f \in Editors : edits[f].c # Nothing}}
Fresh == CHOOSE id \in 1..(Cardinality(Remembered) + 1) : id \notin Remembered

\* display: the rates are refreshed at once.
Opened ==
    /\ ui = [screen |-> "form", form |-> Form(opener, Fallback), review |-> Nothing]
    /\ refresh = [pc |-> "rates", c |-> ui.form, event |-> NoEvent]

Review(c, psbt) ==
    [account |-> c.account, recipient |-> c.recipient, amount |-> c.amount, drain |-> c.drain,
     balance |-> c.balance, errors |-> c.errors, psbt |-> psbt, event |-> NoEvent]

\* confirmSend and confirmSendFlow: an amount that is typed elsewhere is sent after
\* one dialog. No coin is named unspendable here; the amount that is shown is the one typed.
Requested ==
    \E recipient \in Recipients, rate \in Rates, amount \in Amounts \cup {balance(wallet[opener])} :
       LET all   == balance(wallet[opener])
           drain == amount = all
           psbt  == Build(opener, all, rate, drain, amount, recipient)
           c     == [Form(opener, rate) EXCEPT !.recipient = recipient, !.amount = amount, !.drain = drain]
       IN  /\ amount <= all /\ psbt # Nothing
           /\ ui = [screen |-> "unified", form |-> c, review |-> Review(c, psbt)]
           /\ refresh = NoRefresh

Init ==
    /\ wallet \in Wallets /\ opener \in Accounts
    /\ Opened \/ Requested
    /\ jobs = {} /\ edits = [e \in Editors |-> NoClick] /\ sent = Nothing
    /\ clicks = 0 /\ rounds = 0 /\ changes = 0

\* updateForm and updateReview: nothing is shown in a dialog that is gone.
ShowForm(c)      == ui' = IF ui.screen = "closed" THEN ui ELSE [screen |-> "form", form |-> c, review |-> Nothing]
ShowReview(c, r) == ui' = IF ui.screen = "closed" THEN ui ELSE [screen |-> "review", form |-> c, review |-> r]
Close            == ui' = [ui EXCEPT !.screen = "closed"]

------------------------------------------------------------------------------
\* Refreshing the rates (#refreshRates). A review has no form context: a refresh
\* that finds one schedules the next and fails to show anything.
Fire ==
    /\ refresh.pc = "idle" /\ jobs # {} /\ rounds < MaxRounds /\ rounds' = rounds + 1
    /\ \E id \in jobs : jobs' = jobs \ {id}
    /\ refresh' = CASE ui.screen = "closed" -> NoRefresh
                    [] ui.screen = "review" -> [pc |-> "schedule", c |-> Nothing, event |-> NoEvent]
                    [] OTHER                -> [pc |-> "rates", c |-> ui.form, event |-> NoEvent]
    /\ UNCHANGED <<wallet, opener, ui, edits, sent, clicks, changes>>

\* The rate may not be had: what there was remains. The fee is computed with what the account has now.
FetchRates ==
    /\ refresh.pc = "rates"
    /\ \/ \E rate \in Rates : refresh' = [refresh EXCEPT !.pc = "schedule", !.c = computeFee([@ EXCEPT !.rate = rate])]
       \/ refresh' = [refresh EXCEPT !.pc = "schedule"]
    /\ UNCHANGED <<wallet, opener, ui, jobs, edits, sent, clicks, rounds, changes>>

ScheduleRefresh ==
    /\ refresh.pc = "schedule" /\ jobs' = jobs \cup {Fresh}
    /\ refresh' = IF refresh.c = Nothing THEN NoRefresh ELSE [refresh EXCEPT !.pc = "write", !.event = Fresh]
    /\ UNCHANGED <<wallet, opener, ui, edits, sent, clicks, rounds, changes>>

WriteRates ==
    /\ refresh.pc = "write" /\ ShowForm([refresh.c EXCEPT !.event = refresh.event]) /\ refresh' = NoRefresh
    /\ UNCHANGED <<wallet, opener, jobs, edits, sent, clicks, rounds, changes>>

------------------------------------------------------------------------------
\* Clicks, each with the context it was made on. It is only possible to continue with a fee.
Values(kind) ==
    CASE kind = "recipient" -> Recipients
      [] kind = "amount"    -> Amounts
      [] kind = "account"   -> Accounts \ {ui.form.account}
      [] OTHER              -> {Nothing}

Kinds ==
    LET c == ui.form
        valid == c.recipient # Nothing /\ "recipient" \notin c.errors
    IN  IF ui.screen = "review" THEN {"back", "send"}
        ELSE IF ui.screen = "unified" THEN {"cancel", "send"}
        ELSE {"cancel", "recipient", "account"}
             \cup (IF c.recipient # Nothing THEN {"clear recipient"} ELSE {})
             \cup (IF valid THEN {"amount", "switch currency", IF c.drain THEN "clear amount" ELSE "max"} ELSE {})
             \cup (IF c.fee # 0 THEN {"confirm"} ELSE {})

Click(e) ==
    /\ edits[e] = NoClick /\ ui.screen # "closed" /\ clicks < MaxClicks /\ clicks' = clicks + 1
    /\ \E kind \in Kinds : \E value \in Values(kind) :
          edits' = [edits EXCEPT ![e] = [kind |-> kind, value |-> value,
                                         c |-> IF kind = "send" THEN ui.review ELSE ui.form]]
    /\ UNCHANGED <<wallet, opener, ui, jobs, refresh, sent, rounds, changes>>

Done(e, kinds) == edits[e].kind \in kinds /\ edits' = [edits EXCEPT ![e] = NoClick]
Rest           == UNCHANGED <<wallet, opener, clicks, rounds, changes>>
Cancelled(c)   == jobs' = jobs \ {c.event}

Cancel(e) ==
    /\ Done(e, {"cancel"}) /\ Cancelled(edits[e].c) /\ Close
    /\ UNCHANGED <<refresh, sent>> /\ Rest

Cleared(c, field)  == [c EXCEPT !.errors = @ \ {field, "tx"}]
Unpriced(c, field) == [Cleared(c, field) EXCEPT !.fee = 0]
Wrong(c, field)    == [c EXCEPT !.errors = @ \cup {field}]

SetMax(c)          == computeFee([Unpriced(c, "amount") EXCEPT !.amount = c.balance, !.drain = TRUE])
SetRecipient(c, r) == computeFee([Cleared(c, "recipient") EXCEPT !.recipient = r])
SetAmount(c, n)    == computeFee([Unpriced(c, "amount") EXCEPT !.amount = n, !.drain = FALSE])

\* A recipient or an amount that is not one changes nothing but what is said of it.
Edited(e) ==
    LET c == edits[e].c
        value == edits[e].value
    IN  CASE edits[e].kind = "recipient"       -> {SetRecipient(c, value), Wrong(Cleared(c, "recipient"), "recipient")}
          [] edits[e].kind = "amount"          -> {SetAmount(c, value), Wrong([Unpriced(c, "amount") EXCEPT !.drain = FALSE], "amount")}
          [] edits[e].kind = "max"             -> {SetMax(c)}
          [] edits[e].kind = "clear recipient" -> {[Unpriced(c, "recipient") EXCEPT !.recipient = Nothing]}
          [] edits[e].kind = "clear amount"    -> {[Unpriced(c, "amount") EXCEPT !.amount = Nothing, !.drain = FALSE]}
          [] edits[e].kind = "switch currency" -> {c}
          [] edits[e].kind = "account"         -> {Form(value, c.rate)}

Edit(e) ==
    /\ Done(e, {"recipient", "amount", "max", "clear recipient", "clear amount", "switch currency", "account"})
    /\ \E c \in Edited(e) : ShowForm(c)
    /\ UNCHANGED <<jobs, refresh, sent>> /\ Rest

\* The refresh that is named is cancelled; the transaction is built again, now.
Confirm(e) ==
    /\ Done(e, {"confirm"}) /\ Cancelled(edits[e].c)
    /\ LET c == edits[e].c
           psbt == Build(c.account, wallet[c.account].free, c.rate, c.drain, c.amount, c.recipient)
       IN  IF psbt = Nothing
           THEN ShowForm([c EXCEPT !.errors = @ \cup {"tx"}])
           ELSE ShowReview(c, Review(c, psbt))
    /\ UNCHANGED <<refresh, sent>> /\ Rest

\* The form comes back as it was, and its rates are refreshed.
Back(e) ==
    /\ Done(e, {"back"}) /\ refresh.pc = "idle" /\ ShowForm(edits[e].c)
    /\ refresh' = [pc |-> "rates", c |-> edits[e].c, event |-> NoEvent]
    /\ UNCHANGED <<jobs, sent>> /\ Rest

\* The opener signs: coins that are not its own cannot be (external); ones that are spent are refused.
Send(e) ==
    /\ Done(e, {"send"}) /\ Close
    /\ LET review == edits[e].c
           psbt == review.psbt
           signed == psbt.account = opener
           taken == psbt.paid + psbt.fee <= wallet[opener].free
       IN  IF signed /\ taken /\ ui.screen # "closed"
           THEN /\ sent' = [psbt |-> psbt, review |-> review, screen |-> ui.screen]
                /\ wallet' = [wallet EXCEPT ![opener].free = @ - psbt.paid - psbt.fee]
           ELSE UNCHANGED <<sent, wallet>>
    /\ UNCHANGED <<opener, jobs, refresh, clicks, rounds, changes>>

------------------------------------------------------------------------------
\* Meanwhile an account is synchronised: coins come, go, or are found to be inscribed.
Change ==
    /\ changes < MaxChanges /\ changes' = changes + 1
    /\ \E a \in Accounts :
          \/ wallet' = [wallet EXCEPT ![a].free = @ + 1]
          \/ wallet[a].free > 0 /\ wallet' = [wallet EXCEPT ![a].free = @ - 1]
          \/ wallet[a].free > 0 /\ wallet' = [wallet EXCEPT ![a].free = @ - 1, ![a].frozen = @ + 1]
    /\ UNCHANGED <<opener, ui, jobs, refresh, edits, sent, clicks, rounds>>

Handle(e) == Click(e) \/ Cancel(e) \/ Edit(e) \/ Confirm(e) \/ Back(e) \/ Send(e)

Next == Fire \/ FetchRates \/ ScheduleRefresh \/ WriteRates \/ Change \/ \E e \in Editors : Handle(e)

Spec == Init /\ [][Next]_sendVars

------------------------------------------------------------------------------
\* The fee the form shows without an error is the one of all that it shows beside:
\* whole contexts are written, never one field of one and one of another.
ShownTogether ==
    LET c == ui.form
    IN  ui.screen = "form" /\ c.fee # 0 /\ c.errors = {} =>
            /\ Nothing \notin {c.recipient, c.amount} /\ c.fee = c.rate
            /\ c.drain => c.amount = c.balance - c.fee

\* What is sent pays whom and what the screen said. Only a drain may pay another amount:
\* the one of a request pays its fee out of it, and the one of the form was shown with
\* the balance the form was filled with, which may not be what the account could spend,
\* or with the last fee there was, and an error that says it could not be computed.
SentAsReviewed ==
    sent # Nothing =>
        LET psbt == sent.psbt
            review == sent.review
        IN  /\ psbt.account = review.account /\ psbt.recipient = review.recipient /\ review.account = opener
            /\ psbt.paid # review.amount =>
                  review.drain /\ (sent.screen = "unified" \/ review.balance # psbt.coins \/ review.errors # {})

\* What was known to be inscribed when a transaction was built is not spent by it,
\* but for a request, which does not ask.
FrozenKept == sent # Nothing /\ sent.psbt.frozen => sent.screen = "unified"
=============================================================================
