---------------------------- MODULE OrderTicket -----------------------------
(***************************************************************************)
(* The order window and the Cash page: what an order or a transfer is sent *)
(* as, and the idempotency key it is sent under when the answer to an      *)
(* earlier attempt never came.                                             *)
(*                                                                         *)
(* Quotes are in hundredths of a paisa, what is typed and sent in paise.   *)
(* A request may be lost, or handled long after the page has stopped       *)
(* waiting for it, also behind a later attempt.                            *)
(***************************************************************************)
EXTENDS Integers, FiniteSets

CONSTANTS
    Null,
    Quotes,      \* the quotes the instruments may have: [price, bid, ask]
    Forms,       \* what the customer may fill in on either page
    Cash,        \* the available cash the pages know of, or Null
    Holding,     \* what the ticket knows to be held of the instrument, or Null
    MaxIntents,  \* bound: things the customer sets out to do
    MaxAttempts  \* bound: times the customer presses the button

OrderForms ==
    [page : {"ticket"}, fund : BOOLEAN, side : {"BUY", "SELL"}, type : {"LIMIT", "MARKET"},
     units : Nat \cup {Null}, amount : Nat \cup {Null}, price : Nat \cup {Null}]
TransferForms == [page : {"cash"}, side : {"DEPOSIT", "WITHDRAWAL"}, amount : Nat \cup {Null}]
Unpriced == [price |-> Null, bid |-> Null, ask |-> Null]

\* What is sent, and, a market order without its price, what it is told apart by.
Orders ==
    [side : {"BUY", "SELL"}, fund : BOOLEAN, units : Nat \ {0}, price : Nat \cup {Null}]
Transfers == [side : {"DEPOSIT", "WITHDRAWAL"}, amount : Nat]

ASSUME OrderTicketAssumption ==
    /\ Forms \subseteq OrderForms \cup TransferForms /\ Forms # {}
    /\ Unpriced \in Quotes
    /\ Quotes \subseteq [price : (Nat \ {0}) \cup {Null}, bid : (Nat \ {0}) \cup {Null}, ask : (Nat \ {0}) \cup {Null}]
    /\ Null \notin Nat \cup Orders \cup Transfers
    /\ Cash \in Nat \cup {Null} /\ Holding \in Nat \cup {Null}
    /\ MaxIntents \in Nat \ {0} /\ MaxAttempts \in Nat

VARIABLES
    quote,       \* the latest quote of the instrument chosen
    form,        \* what is filled in
    pristine,    \* the instrument's first price has not come since it was chosen
    intent,      \* how many things the customer has set out to do
    unconfirmed, \* the key and the fingerprint of what was sent and not answered
    keys,        \* keys drawn so far
    attempts,    \* requests sent so far
    waiting,     \* the attempt whose answer is awaited, 0 for none
    wire,        \* requests not handled yet
    answers,     \* answers on their way back
    placed,      \* what the servers have accepted
    drifting     \* history: intents sent as what does not stay the same order

page == <<quote, form, pristine, intent, unconfirmed, keys, attempts, waiting, drifting>>
vars == <<page, wire, answers, placed>>

NoKey == [key |-> 0, order |-> Null]

-----------------------------------------------------------------------------
(* What is sent                                                            *)

\* To the paisa, from hundredths of one.
Up(value) == (value + 99) \div 100
Down(value) == value \div 100

\* What the order should fill at now: a buy at the ask, a sell at the bid, a fund at its NAV.
ExpectedFillPrice(side, fund) ==
    LET touch == IF fund THEN Null ELSE IF side = "BUY" THEN quote.ask ELSE quote.bid
    IN  IF touch # Null THEN touch ELSE quote.price

\* A stock's market order leaves half a per cent of room; a fund's meets its NAV.
MarketLimit(side, fund) ==
    LET reference == ExpectedFillPrice(side, fund) IN
    IF reference = Null THEN Null
    ELSE IF fund THEN IF side = "BUY" THEN Up(reference) ELSE Down(reference)
    ELSE IF side = "BUY" THEN (reference * 1005 + 99999) \div 100000
         ELSE (reference * 995) \div 100000

AtMarket == form.type = "MARKET" /\ MarketLimit(form.side, form.fund) # Null
SentPrice == IF AtMarket THEN MarketLimit(form.side, form.fund) ELSE form.price

\* A fund is bought by amount, in the whole units the amount buys at the NAV.
ByAmount == form.fund /\ form.side = "BUY"
Units ==
    IF ~ByAmount THEN form.units
    ELSE IF form.amount = Null \/ quote.price = Null THEN Null
    ELSE (form.amount * 100) \div quote.price

\* A buy the cash cannot cover at the limit sent, or a sale of more than is held.
Shortfall ==
    IF form.side = "SELL" THEN Holding # Null /\ Units # Null /\ Units > Holding
    ELSE Cash # Null /\ Units # Null /\ SentPrice # Null /\ Units * SentPrice > Cash

\* Broken variant: an amount that buys no unit is sent.
AnyUnits == Units # Null /\ SentPrice # Null /\ ~Shortfall

\* Nothing is sent unless this holds; the button is off while an answer is awaited.
OrderReady == Units # Null /\ Units >= 1 /\ SentPrice # Null /\ ~Shortfall
TransferReady ==
    /\ form.amount # Null
    /\ ~(form.side = "WITHDRAWAL" /\ Cash # Null /\ form.amount > Cash)

Order == [side |-> form.side, fund |-> form.fund, units |-> Units, price |-> SentPrice]
Transfer == [side |-> form.side, amount |-> form.amount]

\* Broken variants: the limit of a market order as sent, and an order without its units.
LimitAsSent == Order
SideAndPrice == [side |-> form.side, fund |-> form.fund, price |-> IF AtMarket THEN Null ELSE SentPrice]

\* What makes two attempts the same order: a market order's limit follows the live
\* price, and does not count (Null, which no order at a limit has).
OrderFingerprint == IF AtMarket THEN [Order EXCEPT !.price = Null] ELSE Order

\* Whether what is sent stays the same order while the price comes, moves and goes: not a
\* fund bought by amount, a market order sent at the limit typed because its live price is
\* gone, nor a limit order sent before the instrument's first price.
Steady ==
    form.page = "cash" \/ (~ByAmount /\ IF form.type = "MARKET" THEN AtMarket ELSE ~pristine)

Sent == IF form.page = "ticket" THEN Order ELSE Transfer
Fingerprint == IF form.page = "ticket" THEN OrderFingerprint ELSE Transfer

-----------------------------------------------------------------------------
(* The pages                                                               *)

\* The price as the limit box shows it, to the paisa; 0.00 is not a limit.
Shown(price) == LET paise == (price + 50) \div 100 IN IF paise = 0 THEN Null ELSE paise

\* The instrument's first price: at market, and the limit box filled in with it.
Priced(f, price) == [f EXCEPT !.type = "MARKET", !.price = Shown(price)]

\* The form of an instrument just chosen, which may have a price already.
Chosen(fund, side, q) ==
    LET blank == [page |-> "ticket", fund |-> fund, side |-> side, type |-> "LIMIT",
                  units |-> Null, amount |-> Null, price |-> Null]
    IN  IF q.price = Null THEN blank ELSE Priced(blank, q.price)

\* A page as it is opened: the ticket with an instrument, or the Cash page.
Openings ==
    {[quote |-> q, form |-> Chosen(fund, side, q), pristine |-> q.price = Null] :
        fund \in BOOLEAN, side \in {"BUY", "SELL"}, q \in Quotes} \cup
    {[quote |-> Unpriced, form |-> [page |-> "cash", side |-> "DEPOSIT", amount |-> Null], pristine |-> FALSE]}

\* The button At market is off without a live price.
Fillable(f) == f.page = "ticket" /\ f.type = "MARKET" => form.type = "MARKET" \/ MarketLimit(f.side, f.fund) # Null

Init ==
    /\ \E o \in Openings : quote = o.quote /\ form = o.form /\ pristine = o.pristine
    /\ intent = 1
    /\ unconfirmed = NoKey
    /\ keys = 0 /\ attempts = 0 /\ waiting = 0
    /\ wire = {} /\ answers = {} /\ placed = {} /\ drifting = {}

\* Broken variant: every press draws a key.
FreshKey == keys + 1

\* The key of what is sent again unanswered, or a new one.
KeyFor == IF unconfirmed.order = Fingerprint THEN unconfirmed.key ELSE keys + 1

Submit ==
    /\ waiting = 0 /\ attempts < MaxAttempts
    /\ IF form.page = "ticket" THEN OrderReady ELSE TransferReady
    /\ attempts' = attempts + 1 /\ waiting' = attempts'
    /\ keys' = IF KeyFor > keys THEN KeyFor ELSE keys
    /\ unconfirmed' = [key |-> KeyFor, order |-> Fingerprint]
    /\ wire' = wire \cup
         {[attempt |-> attempts', key |-> KeyFor, page |-> form.page, order |-> Sent, intent |-> intent,
           market |-> form.page = "ticket" /\ AtMarket]}
    /\ drifting' = IF Steady THEN drifting ELSE drifting \cup {intent}
    /\ UNCHANGED <<quote, form, pristine, intent, answers, placed>>

\* The customer sets out to do something else.
Intends == intent < MaxIntents /\ intent' = intent + 1

\* Something else is filled in on this page, also while an answer is awaited.
Fill(f) ==
    /\ f # form /\ f.page = form.page /\ (f.page = "ticket" => f.fund = form.fund) /\ Fillable(f)
    /\ Intends /\ form' = f
    /\ UNCHANGED <<quote, pristine, unconfirmed, keys, attempts, waiting, wire, answers, placed, drifting>>

\* Another instrument is chosen on the ticket, or the same again: the boxes are emptied,
\* what was sent and not answered is not forgotten.
Choose(fund, q) ==
    /\ form.page = "ticket"
    /\ Intends /\ quote' = q /\ form' = Chosen(fund, form.side, q) /\ pristine' = (q.price = Null)
    /\ UNCHANGED <<unconfirmed, keys, attempts, waiting, wire, answers, placed, drifting>>

\* The page is left for the other, or opened again: it is made anew, without the key and
\* what was waited for.
Open(o) ==
    /\ Intends /\ quote' = o.quote /\ form' = o.form /\ pristine' = o.pristine
    /\ unconfirmed' = NoKey /\ waiting' = 0 /\ answers' = {}
    /\ UNCHANGED <<keys, attempts, wire, placed, drifting>>

\* An answer came: whatever is sent next is new.
Answered(a) ==
    /\ a.attempt = waiting /\ Intends
    /\ unconfirmed' = NoKey /\ waiting' = 0 /\ answers' = answers \ {a}
    /\ UNCHANGED <<quote, pristine, keys, attempts, wire, placed, drifting>>

\* Accepted: what was filled in is emptied, also what was filled in meanwhile.
OrderAccepted(a) ==
    /\ Answered(a) /\ a.accepted /\ form.page = "ticket"
    /\ form' = [form EXCEPT !.units = Null, !.amount = Null]
TransferAccepted(a) ==
    /\ Answered(a) /\ a.accepted /\ form.page = "cash"
    /\ form' = [form EXCEPT !.amount = Null]

Refused(a) == Answered(a) /\ ~a.accepted /\ UNCHANGED form

\* Status 0: the answer is given up, and the key is kept for another attempt.
GiveUp ==
    /\ waiting # 0 /\ waiting' = 0
    /\ answers' = {a \in answers : a.attempt # waiting}
    /\ UNCHANGED <<quote, form, pristine, intent, unconfirmed, keys, attempts, wire, placed, drifting>>

\* The price comes, moves or goes.  The first one turns the ticket to a market order,
\* whatever was filled in, or sent, before it.
QuoteArrives(q) ==
    /\ form.page = "ticket" /\ q # quote
    /\ quote' = q
    /\ IF pristine /\ q.price # Null
       THEN form' = Priced(form, q.price) /\ pristine' = FALSE
       ELSE UNCHANGED <<form, pristine>>
    /\ UNCHANGED <<intent, unconfirmed, keys, attempts, waiting, wire, answers, placed, drifting>>

-----------------------------------------------------------------------------
(* The servers and the way to them                                         *)

Earlier(r) == {p \in placed : p.key = r.key}

\* The order route refuses a key it has accepted an order under; the payment routes
\* answer the same transfer with the first one.  Anything may be refused.
Accepts(r, accepted) ==
    IF Earlier(r) = {} THEN accepted \in BOOLEAN
    ELSE accepted = (r.page = "cash" /\ \E p \in Earlier(r) : p.order = r.order)

Handle(r) ==
    /\ \E accepted \in BOOLEAN :
          /\ Accepts(r, accepted)
          /\ placed' = IF accepted /\ Earlier(r) = {} THEN placed \cup {r} ELSE placed
          /\ answers' = IF r.attempt = waiting
                        THEN answers \cup {[attempt |-> r.attempt, accepted |-> accepted]} ELSE answers
    /\ wire' = wire \ {r}
    /\ UNCHANGED page

Lose(r) == wire' = wire \ {r} /\ UNCHANGED <<page, answers, placed>>

Next ==
    \/ Submit \/ GiveUp
    \/ \E f \in Forms : Fill(f)
    \/ \E fund \in BOOLEAN, q \in Quotes : Choose(fund, q)
    \/ \E o \in Openings : Open(o)
    \/ \E a \in answers : OrderAccepted(a) \/ TransferAccepted(a) \/ Refused(a)
    \/ \E q \in Quotes : QuoteArrives(q)
    \/ \E r \in wire : Handle(r) \/ Lose(r)

Spec == Init /\ [][Next]_vars

-----------------------------------------------------------------------------
Attempt(r) ==
    /\ r.attempt \in 1..attempts /\ r.key \in 1..keys /\ r.intent \in 1..intent
    /\ r.market \in BOOLEAN

\* Types; the key of what is unanswered has been drawn; an order sent is for a whole unit.
TypeOK ==
    /\ quote \in Quotes
    /\ form \in OrderForms \cup TransferForms
    /\ pristine \in BOOLEAN /\ (pristine => form.page = "ticket" /\ quote.price = Null)
    /\ intent \in 1..MaxIntents /\ attempts \in 0..MaxAttempts /\ keys \in 0..attempts
    /\ unconfirmed.key \in 0..keys /\ waiting \in 0..attempts
    /\ \A r \in wire \cup placed : Attempt(r) /\ (r.page = "ticket" => r.order.units >= 1)
    /\ \A a \in answers : a.attempt = waiting /\ a.accepted \in BOOLEAN
    /\ drifting \subseteq 1..intent

\* However often a thing is sent again because no answer came, and however late the
\* earlier attempts land, it is placed once.  Three exceptions, which the code has, are
\* another order, under another key, though the customer touched nothing: a fund bought
\* by amount when a new NAV buys other units; a market order when its live price has gone
\* and the limit in the box is sent instead; and a limit order sent before the first
\* price of the instrument, which that price turns to market (order-ticket.ts:218-230).
OncePerIntent ==
    \A p, r \in placed :
        p.intent = r.intent /\ p.intent \notin drifting => p.key = r.key

\* An attempt that will be answered as a repeat is one: what was placed under its key is
\* the same instrument, side and number of units, or the same transfer, at the same price
\* unless it follows the market.  Nothing the customer asked for is taken for another.
KeyMeansOrder ==
    \A r \in wire, p \in placed :
        r.key = p.key =>
            /\ r.page = p.page /\ r.market = p.market
            /\ IF r.market THEN [r.order EXCEPT !.price = 0] = [p.order EXCEPT !.price = 0]
               ELSE r.order = p.order
=============================================================================
