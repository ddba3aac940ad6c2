-------------------------- MODULE OrderTicket_proofs --------------------------
(***************************************************************************)
(* A key stands for one order, and a thing the customer set out to do for  *)
(* one key, whatever the forms, the quotes and the ways requests are lost  *)
(* or overtake each other.                                                 *)
(*                                                                         *)
(* A key is drawn above all others, so a request shares it only if it was  *)
(* sent while the key was still unanswered, with the same fingerprint.     *)
(* Within one intent the form stays, and a fingerprint that does not drift *)
(* is a function of the form alone: it meets the one kept with the key.    *)
(* The first price of an instrument changes the form within an intent, but *)
(* one of which a limit order was sent by then drifts.                     *)
(***************************************************************************)
EXTENDS OrderTicket, TLAPS

\* Every request that a server has handled or may handle.
Known == wire \cup placed

\* What a request is told apart by.
ToldBy(r) == IF r.market THEN [r.order EXCEPT !.price = Null] ELSE r.order

Requests ==
    [attempt : 1..attempts, key : 1..keys, page : {"ticket", "cash"}, order : Orders \cup Transfers,
     intent : 1..intent, market : BOOLEAN]

Placeable(r) ==
    IF r.page = "ticket" THEN r.order \in Orders /\ r.order.price # Null
    ELSE r.order \in Transfers /\ ~r.market

RequestsOK == Known \subseteq Requests /\ \A r \in Known : Placeable(r)

UnconfirmedOK ==
    unconfirmed = NoKey \/ unconfirmed \in [key : 1..keys, order : Orders \cup Transfers]

CountsOK ==
    /\ quote \in Quotes
    /\ form \in OrderForms \cup TransferForms
    /\ pristine \in BOOLEAN /\ (pristine => form.page = "ticket" /\ quote.price = Null)
    /\ intent \in 1..MaxIntents /\ attempts \in 0..MaxAttempts /\ keys \in 0..attempts
    /\ waiting \in 0..attempts
    /\ drifting \subseteq 1..intent

\* One answer at most to the attempt awaited, and none to come once it is here.
AnswersOK ==
    /\ answers \subseteq [attempt : {waiting}, accepted : BOOLEAN]
    /\ waiting = 0 => answers = {}
    /\ \A a, b \in answers : a = b
    /\ answers # {} => \A r \in wire : r.attempt # waiting
    /\ \A r, p \in wire : r.attempt = p.attempt => r = p

OneKeyOneOrder ==
    \A r, p \in Known : r.key = p.key => r.page = p.page /\ ToldBy(r) = ToldBy(p)

\* What was sent under the key that is kept has the fingerprint kept with it.
KeptFor ==
    \A r \in Known : r.key = unconfirmed.key => r.page = form.page /\ ToldBy(r) = unconfirmed.order

OneIntentOneKey ==
    \A r, p \in Known : r.intent = p.intent /\ r.intent \notin drifting => r.key = p.key

\* The fingerprint that does not follow the price.
SteadyFingerprint ==
    IF form.page = "cash" THEN Transfer
    ELSE [side |-> form.side, fund |-> form.fund, units |-> form.units,
          price |-> IF form.type = "MARKET" THEN Null ELSE form.price]

\* What was sent of the thing in hand is kept, and is what would be sent again, also
\* when the first price comes.
StillKept ==
    intent \notin drifting =>
        \A r \in Known : r.intent = intent =>
            /\ r.key = unconfirmed.key /\ ToldBy(r) = SteadyFingerprint
            /\ pristine => form.type = "MARKET"

Types == CountsOK /\ RequestsOK /\ UnconfirmedOK /\ AnswersOK
Keys == OneKeyOneOrder /\ KeptFor /\ OneIntentOneKey /\ StillKept
Inv == Types /\ Keys

-----------------------------------------------------------------------------
(* What is sent. *)

LEMMA FormKinds ==
    ASSUME form \in OrderForms \cup TransferForms
    PROVE  /\ form.page \in {"ticket", "cash"}
           /\ form.page = "ticket" => form \in OrderForms
           /\ form.page = "cash" => form \in TransferForms
BY DEF OrderForms, TransferForms

Quoted == [price : (Nat \ {0}) \cup {Null}, bid : (Nat \ {0}) \cup {Null}, ask : (Nat \ {0}) \cup {Null}]

LEMMA Rounding ==
    ASSUME NEW v \in Nat
    PROVE  /\ Up(v) \in Nat /\ Down(v) \in Nat
           /\ (v * 1005 + 99999) \div 100000 \in Nat /\ (v * 995) \div 100000 \in Nat
BY DEF Up, Down

LEMMA WholeUnits ==
    ASSUME NEW amount \in Nat, NEW price \in Nat \ {0}
    PROVE  (amount * 100) \div price \in Nat
<1>1. amount * 100 \in Nat
    OBVIOUS
<1>2. \A m \in Nat, n \in Nat \ {0} : m \div n \in Nat
    OBVIOUS
<1> QED BY <1>1, <1>2

LEMMA LimitNat ==
    ASSUME quote \in Quotes, NEW side, NEW fund
    PROVE  MarketLimit(side, fund) \in Nat \cup {Null}
<1>1. quote \in Quoted
    BY OrderTicketAssumption DEF Quoted
<1>2. ExpectedFillPrice(side, fund) \in Nat \cup {Null}
    BY <1>1 DEF ExpectedFillPrice, Quoted
<1>3. CASE ExpectedFillPrice(side, fund) = Null
    BY <1>3 DEF MarketLimit
<1>4. CASE ExpectedFillPrice(side, fund) # Null
    <2> DEFINE reference == ExpectedFillPrice(side, fund)
    <2>1. reference \in Nat
        BY <1>2, <1>4
    <2>2. MarketLimit(side, fund) \in
            {Up(reference), Down(reference), (reference * 1005 + 99999) \div 100000, (reference * 995) \div 100000}
        BY <1>4 DEF MarketLimit
    <2> HIDE DEF reference
    <2> QED BY <2>1, <2>2, Rounding
<1> QED BY <1>3, <1>4

\* An order that may be sent is for a whole unit, at a price.
LEMMA OrderSound ==
    ASSUME CountsOK, form.page = "ticket", OrderReady
    PROVE  /\ Order \in Orders /\ Order.price # Null
           /\ OrderFingerprint \in Orders
           /\ OrderFingerprint = IF AtMarket THEN [Order EXCEPT !.price = Null] ELSE Order
<1>1. form \in OrderForms
    BY FormKinds DEF CountsOK
<1>2. SentPrice \in Nat
    <2>1. MarketLimit(form.side, form.fund) \in Nat \cup {Null}
        BY LimitNat DEF CountsOK
    <2> QED BY <1>1, <2>1 DEF SentPrice, AtMarket, OrderReady, OrderForms
<1>3. Units \in Nat
    <2>1. CASE ~ByAmount
        BY <2>1, <1>1 DEF Units, OrderReady, OrderForms
    <2>2. CASE ByAmount
        <3>1. form.amount # Null /\ quote.price # Null /\ Units = (form.amount * 100) \div quote.price
            BY <2>2 DEF Units, OrderReady
        <3>2. form.amount \in Nat /\ quote.price \in Nat \ {0}
            BY <1>1, <3>1, OrderTicketAssumption DEF CountsOK, OrderForms
        <3> QED BY <3>1, <3>2, WholeUnits
    <2> QED BY <2>1, <2>2
<1>4. Units \in Nat \ {0}
    BY <1>3 DEF OrderReady
<1>5. form.side \in {"BUY", "SELL"} /\ form.fund \in BOOLEAN
    BY <1>1 DEF OrderForms
<1>6. Order \in Orders /\ Order.price # Null
    BY <1>2, <1>4, <1>5, OrderTicketAssumption DEF Order, Orders
<1>7. [Order EXCEPT !.price = Null] \in Orders
    BY <1>6 DEF Orders
<1> QED BY <1>6, <1>7 DEF OrderFingerprint

LEMMA TransferSound ==
    ASSUME CountsOK, form.page = "cash", TransferReady
    PROVE  Transfer \in Transfers
BY FormKinds DEF CountsOK, TransferReady, Transfer, Transfers, TransferForms

\* A fingerprint that does not drift depends on the form alone.
LEMMA SteadySound ==
    ASSUME CountsOK, Steady
    PROVE  Fingerprint = SteadyFingerprint
<1>1. CASE form.page = "cash"
    BY <1>1 DEF Fingerprint, SteadyFingerprint
<1>2. CASE form.page = "ticket"
    <2>1. ~ByAmount /\ Units = form.units /\ form \in OrderForms
        BY <1>2, FormKinds DEF CountsOK, Steady, Units
    <2>2. CASE form.type = "MARKET"
        <3>1. AtMarket
            BY <1>2, <2>2 DEF Steady
        <3> QED BY <1>2, <2>1, <2>2, <3>1 DEF Fingerprint, OrderFingerprint, Order, SteadyFingerprint
    <2>3. CASE form.type # "MARKET"
        BY <1>2, <2>1, <2>3 DEF Fingerprint, OrderFingerprint, Order, SteadyFingerprint, AtMarket, SentPrice
    <2> QED BY <2>2, <2>3
<1> QED BY <1>1, <1>2, FormKinds DEF CountsOK

\* What an instrument's price is shown as, and the form it makes.
LEMMA PricedSound ==
    ASSUME NEW price \in Nat
    PROVE  /\ Shown(price) \in Nat \cup {Null}
           /\ \A f \in OrderForms :
                /\ Priced(f, price) \in OrderForms
                /\ Priced(f, price).page = f.page /\ Priced(f, price).side = f.side
                /\ Priced(f, price).fund = f.fund /\ Priced(f, price).units = f.units
                /\ Priced(f, price).type = "MARKET"
<1>1. (price + 50) \div 100 \in Nat
    OBVIOUS
<1>2. Shown(price) \in Nat \cup {Null}
    BY <1>1 DEF Shown
<1> QED BY <1>2 DEF Priced, OrderForms

LEMMA ChosenSound ==
    ASSUME NEW fund \in BOOLEAN, NEW side \in {"BUY", "SELL"}, NEW q \in Quotes
    PROVE  Chosen(fund, side, q) \in OrderForms /\ Chosen(fund, side, q).page = "ticket"
<1> DEFINE blank == [page |-> "ticket", fund |-> fund, side |-> side, type |-> "LIMIT",
                     units |-> Null, amount |-> Null, price |-> Null]
<1>1. blank \in OrderForms /\ blank.page = "ticket"
    BY DEF OrderForms
<1>2. q.price = Null \/ q.price \in Nat
    BY OrderTicketAssumption
<1>3. Chosen(fund, side, q) = IF q.price = Null THEN blank ELSE Priced(blank, q.price)
    BY DEF Chosen
<1> HIDE DEF blank
<1> QED BY <1>1, <1>2, <1>3, PricedSound

LEMMA OpeningSound ==
    ASSUME NEW o \in Openings
    PROVE  /\ o.quote \in Quotes /\ o.form \in OrderForms \cup TransferForms
           /\ o.pristine \in BOOLEAN /\ (o.pristine => o.form.page = "ticket" /\ o.quote.price = Null)
<1>1. CASE \E fund \in BOOLEAN, side \in {"BUY", "SELL"}, q \in Quotes :
              o = [quote |-> q, form |-> Chosen(fund, side, q), pristine |-> q.price = Null]
    <2>1. PICK fund \in BOOLEAN, side \in {"BUY", "SELL"}, q \in Quotes :
              o = [quote |-> q, form |-> Chosen(fund, side, q), pristine |-> q.price = Null]
        BY <1>1
    <2>2. o.quote = q /\ o.form = Chosen(fund, side, q)
        BY <2>1
    <2>3. o.pristine \in BOOLEAN /\ (o.pristine <=> q.price = Null)
        BY <2>1, Zenon
    <2> QED BY <2>2, <2>3, ChosenSound
<1>2. CASE o = [quote |-> Unpriced, form |-> [page |-> "cash", side |-> "DEPOSIT", amount |-> Null], pristine |-> FALSE]
    BY <1>2, OrderTicketAssumption DEF TransferForms
<1> QED BY <1>1, <1>2 DEF Openings

-----------------------------------------------------------------------------
(* The steps. *)

\* The request that pressing the button sends.
Fresh == [attempt |-> attempts + 1, key |-> KeyFor, page |-> form.page, order |-> Sent,
          intent |-> intent, market |-> form.page = "ticket" /\ AtMarket]

\* It is sound, and told apart by the fingerprint.
LEMMA RequestSound ==
    ASSUME CountsOK, IF form.page = "ticket" THEN OrderReady ELSE TransferReady
    PROVE  /\ Placeable(Fresh) /\ Fresh.order \in Orders \cup Transfers
           /\ Fresh.page \in {"ticket", "cash"} /\ Fresh.market \in BOOLEAN
           /\ ToldBy(Fresh) = Fingerprint /\ Fingerprint \in Orders \cup Transfers
<1>1. CASE form.page = "ticket"
    <2>1. /\ Order \in Orders /\ Order.price # Null /\ OrderFingerprint \in Orders
          /\ OrderFingerprint = IF AtMarket THEN [Order EXCEPT !.price = Null] ELSE Order
        BY <1>1, OrderSound
    <2>2. AtMarket \in BOOLEAN
        BY DEF AtMarket
    <2> QED BY <1>1, <2>1, <2>2 DEF Fresh, Placeable, ToldBy, Sent, Fingerprint
<1>2. CASE form.page = "cash"
    BY <1>2, TransferSound DEF Fresh, Placeable, ToldBy, Sent, Fingerprint
<1> QED BY <1>1, <1>2, FormKinds DEF CountsOK

\* Its key is the one kept, when that was for the same, or one that nobody has.
LEMMA KeySound ==
    ASSUME Types, Fingerprint \in Orders \cup Transfers
    PROVE  /\ KeyFor \in 1..(keys + 1) /\ keys \in Nat
           /\ \/ KeyFor = unconfirmed.key /\ unconfirmed.order = Fingerprint /\ KeyFor \in 1..keys
              \/ KeyFor = keys + 1 /\ unconfirmed.order # Fingerprint
<1>1. keys \in Nat
    BY OrderTicketAssumption DEF Types, CountsOK
<1>2. unconfirmed.order = Fingerprint => unconfirmed.key \in 1..keys
    BY OrderTicketAssumption DEF Types, UnconfirmedOK, NoKey
<1> QED BY <1>1, <1>2 DEF KeyFor

LEMMA SubmitTypes ==
    ASSUME Types, Submit
    PROVE  Types'
<1>1. /\ waiting = 0 /\ attempts < MaxAttempts
      /\ attempts' = attempts + 1 /\ waiting' = attempts + 1
      /\ keys' = IF KeyFor > keys THEN KeyFor ELSE keys
      /\ unconfirmed' = [key |-> KeyFor, order |-> Fingerprint]
      /\ wire' = wire \cup {Fresh}
      /\ drifting' = IF Steady THEN drifting ELSE drifting \cup {intent}
      /\ UNCHANGED <<quote, form, pristine, intent, answers, placed>>
      /\ IF form.page = "ticket" THEN OrderReady ELSE TransferReady
    BY DEF Submit, Fresh
<1>2. /\ Placeable(Fresh) /\ Fresh.order \in Orders \cup Transfers
      /\ Fresh.page \in {"ticket", "cash"} /\ Fresh.market \in BOOLEAN
      /\ Fingerprint \in Orders \cup Transfers
    BY <1>1, RequestSound DEF Types
<1>3. /\ KeyFor \in 1..(keys + 1) /\ keys \in Nat
      /\ KeyFor \in 1..keys \/ KeyFor = keys + 1
    BY <1>2, KeySound
<1>4. attempts \in Nat /\ keys <= attempts /\ intent \in Nat \ {0} /\ MaxAttempts \in Nat
    BY OrderTicketAssumption DEF Types, CountsOK
<1>5. keys' \in 0..attempts' /\ keys \in 0..keys' /\ KeyFor \in 1..keys' /\ keys' \in Nat
    BY <1>1, <1>3, <1>4
<1>6. CountsOK'
    BY <1>1, <1>4, <1>5 DEF Types, CountsOK
<1>7. UnconfirmedOK'
    BY <1>1, <1>2, <1>5 DEF UnconfirmedOK
<1>8. RequestsOK'
    <2>1. Fresh \in Requests'
        BY <1>1, <1>2, <1>4, <1>5 DEF Fresh, Requests
    <2>2. Requests \subseteq Requests'
        BY <1>1, <1>3, <1>4, <1>5 DEF Requests
    <2>3. Known' = Known \cup {Fresh}
        BY <1>1 DEF Known
    <2>4. \A r : Placeable(r)' <=> Placeable(r)
        BY DEF Placeable
    <2> QED BY <1>2, <2>1, <2>2, <2>3, <2>4 DEF Types, RequestsOK
<1>9. AnswersOK'
    <2>1. answers = {} /\ answers' = {}
        BY <1>1 DEF Types, AnswersOK
    <2>2. \A r \in wire : r.attempt # attempts + 1
        BY <1>4 DEF Types, RequestsOK, Known, Requests
    <2>3. Fresh.attempt = attempts + 1
        BY DEF Fresh
    <2> QED BY <1>1, <2>1, <2>2, <2>3 DEF Types, AnswersOK
<1> QED BY <1>6, <1>7, <1>8, <1>9 DEF Types

LEMMA SubmitKeys ==
    ASSUME Inv, Submit
    PROVE  Keys'
<1>1. /\ unconfirmed' = [key |-> KeyFor, order |-> Fingerprint]
      /\ Known' = Known \cup {Fresh}
      /\ drifting' = IF Steady THEN drifting ELSE drifting \cup {intent}
      /\ form' = form /\ pristine' = pristine /\ intent' = intent
      /\ IF form.page = "ticket" THEN OrderReady ELSE TransferReady
    BY DEF Submit, Fresh, Known
<1>2. Types /\ CountsOK /\ RequestsOK
    BY DEF Inv, Types
<1>3. ToldBy(Fresh) = Fingerprint /\ Fingerprint \in Orders \cup Transfers
    BY <1>1, <1>2, RequestSound
<1>4. Fresh.key = KeyFor /\ Fresh.page = form.page /\ Fresh.intent = intent
    BY DEF Fresh
<1>5. \A r : ToldBy(r)' = ToldBy(r)
    BY DEF ToldBy
\* Whoever has its key was sent under it, with its fingerprint.
<1>6. ASSUME NEW r \in Known, r.key = KeyFor PROVE r.page = form.page /\ ToldBy(r) = Fingerprint
    <2>1. r.key \in 1..keys /\ keys \in Nat
        BY <1>2, KeySound, <1>3 DEF RequestsOK, Requests
    <2>2. KeyFor = unconfirmed.key /\ unconfirmed.order = Fingerprint
        BY <1>2, <1>3, <1>6, <2>1, KeySound
    <2> QED BY <1>6, <2>2 DEF Inv, Keys, KeptFor
\* What was sent of the same thing has the same key.
<1>7. ASSUME NEW r \in Known, r.intent = intent, intent \notin drifting'
      PROVE  r.key = KeyFor /\ ToldBy(r) = Fingerprint /\ Fingerprint = SteadyFingerprint
    <2>1. Steady /\ intent \notin drifting
        BY <1>1, <1>7
    <2>2. Fingerprint = SteadyFingerprint
        BY <1>2, <2>1, SteadySound
    <2>3. r.key = unconfirmed.key /\ ToldBy(r) = SteadyFingerprint
        BY <1>7, <2>1 DEF Inv, Keys, StillKept
    <2>4. unconfirmed.order = Fingerprint
        BY <2>2, <2>3 DEF Inv, Keys, KeptFor
    <2> QED BY <2>2, <2>3, <2>4 DEF KeyFor
<1>8. OneKeyOneOrder'
    BY <1>1, <1>3, <1>4, <1>5, <1>6 DEF Inv, Keys, OneKeyOneOrder
<1>9. KeptFor'
    BY <1>1, <1>3, <1>4, <1>5, <1>6 DEF KeptFor
<1>10. OneIntentOneKey'
    <2>1. ASSUME NEW r \in Known, NEW p \in Known, r.intent = p.intent, r.intent \notin drifting'
          PROVE  r.key = p.key
        BY <1>1, <2>1 DEF Inv, Keys, OneIntentOneKey
    <2> QED BY <1>1, <1>4, <1>7, <2>1 DEF OneIntentOneKey
<1>11. StillKept'
    <2>1. SteadyFingerprint' = SteadyFingerprint
        BY <1>1 DEF SteadyFingerprint, Transfer
    <2>2. intent \notin drifting' =>
              Fingerprint = SteadyFingerprint /\ (pristine => form.page = "cash" \/ form.type = "MARKET")
        BY <1>1, <1>2, SteadySound DEF Steady
    <2>3. pristine => form.page = "ticket"
        BY DEF Inv, Types, CountsOK
    <2> QED BY <1>1, <1>3, <1>4, <1>5, <1>7, <2>1, <2>2, <2>3 DEF StillKept
<1> QED BY <1>8, <1>9, <1>10, <1>11 DEF Keys
\* Another thing set out to do: nothing has been sent of it, and the key kept, if any,
\* is still for this page.
LEMMA NewIntent ==
    ASSUME Inv, intent < MaxIntents, intent' = intent + 1,
           UNCHANGED <<keys, attempts, wire, placed, drifting>>, quote' \in Quotes,
           form' \in OrderForms \cup TransferForms, pristine' \in BOOLEAN,
           pristine' => form'.page = "ticket" /\ quote'.price = Null, waiting' \in {0, waiting}, AnswersOK',
           \/ unconfirmed' = NoKey
           \/ unconfirmed' = unconfirmed /\ form'.page = form.page
    PROVE  Inv'
<1>1. CountsOK'
    BY OrderTicketAssumption DEF Inv, Types, CountsOK
<1>2. intent \in Nat \ {0} /\ drifting \subseteq 1..intent
    BY OrderTicketAssumption DEF Inv, Types, CountsOK
<1>3. Requests \subseteq Requests'
    BY <1>2 DEF Requests
<1>4. Known' = Known /\ (\A r : ToldBy(r)' = ToldBy(r)) /\ \A r : Placeable(r)' <=> Placeable(r)
    BY DEF Known, ToldBy, Placeable
<1>5. RequestsOK'
    BY <1>3, <1>4 DEF Inv, Types, RequestsOK
<1>6. UnconfirmedOK'
    BY DEF Inv, Types, UnconfirmedOK, NoKey
<1>7. \A r \in Known : r.key \in Nat \ {0} /\ r.intent \in 1..intent
    BY OrderTicketAssumption DEF Inv, Types, RequestsOK, Requests, CountsOK
<1>8. OneKeyOneOrder' /\ OneIntentOneKey'
    BY <1>4 DEF Inv, Keys, OneKeyOneOrder, OneIntentOneKey
<1>9. KeptFor'
    BY <1>4, <1>7 DEF Inv, Keys, KeptFor, NoKey
<1>10. StillKept'
    BY <1>2, <1>4, <1>7 DEF StillKept
<1> QED BY <1>1, <1>5, <1>6, <1>8, <1>9, <1>10 DEF Inv, Types, Keys

LEMMA FillInv == ASSUME Inv, NEW f \in Forms, Fill(f) PROVE Inv'
<1>1. f \in OrderForms \cup TransferForms
    BY OrderTicketAssumption
<1>2. AnswersOK'
    BY DEF Inv, Types, AnswersOK, Fill
<1>3. pristine' \in BOOLEAN /\ quote' \in Quotes /\ (pristine' => form'.page = "ticket" /\ quote'.price = Null)
    BY DEF Inv, Types, CountsOK, Fill
<1> QED BY <1>1, <1>2, <1>3, NewIntent DEF Fill, Intends

LEMMA ChooseInv == ASSUME Inv, NEW fund \in BOOLEAN, NEW q \in Quotes, Choose(fund, q) PROVE Inv'
<1>1. form.side \in {"BUY", "SELL"}
    BY FormKinds DEF Inv, Types, CountsOK, Choose, OrderForms
<1>2. form' \in OrderForms /\ form'.page = "ticket"
    BY <1>1, ChosenSound DEF Choose
<1>3. AnswersOK'
    BY DEF Inv, Types, AnswersOK, Choose
<1>4. pristine' \in BOOLEAN /\ (pristine' => form'.page = "ticket" /\ quote'.price = Null)
    BY <1>2 DEF Choose
<1> QED BY <1>2, <1>3, <1>4, NewIntent DEF Choose, Intends

LEMMA OpenInv == ASSUME Inv, NEW o \in Openings, Open(o) PROVE Inv'
<1>1. AnswersOK'
    BY DEF Inv, Types, AnswersOK, Open
<1> QED BY <1>1, OpeningSound, NewIntent DEF Open, Intends

\* What is filled in, once it is emptied.
LEMMA Emptied ==
    /\ \A f \in OrderForms : [f EXCEPT !.units = Null, !.amount = Null] \in OrderForms
    /\ \A f \in TransferForms : [f EXCEPT !.amount = Null] \in TransferForms
BY DEF OrderForms, TransferForms

LEMMA AnsweredInv ==
    ASSUME Inv, NEW a \in answers, OrderAccepted(a) \/ TransferAccepted(a) \/ Refused(a)
    PROVE  Inv'
<1>1. Answered(a)
    BY DEF OrderAccepted, TransferAccepted, Refused
<1>2. form' \in OrderForms \cup TransferForms
    <2>1. form \in OrderForms \cup TransferForms
        BY DEF Inv, Types, CountsOK
    <2>2. CASE OrderAccepted(a)
        BY <2>1, <2>2, FormKinds, Emptied DEF OrderAccepted
    <2>3. CASE TransferAccepted(a)
        BY <2>1, <2>3, FormKinds, Emptied DEF TransferAccepted
    <2>4. CASE Refused(a)
        BY <2>1, <2>4 DEF Refused
    <2> QED BY <2>2, <2>3, <2>4
<1>4. form'.page = form.page
    BY FormKinds DEF OrderAccepted, TransferAccepted, Refused, Inv, Types, CountsOK, OrderForms, TransferForms
<1>5. pristine' \in BOOLEAN /\ quote' \in Quotes /\ (pristine' => form'.page = "ticket" /\ quote'.price = Null)
    BY <1>1, <1>4 DEF Inv, Types, CountsOK, Answered
<1>3. AnswersOK'
    <2>1. answers' = {}
        BY <1>1 DEF Answered, Inv, Types, AnswersOK
    <2> QED BY <1>1, <2>1 DEF Answered, Inv, Types, AnswersOK
<1> QED BY <1>1, <1>2, <1>3, <1>4, <1>5, NewIntent DEF Answered, Intends

\* Nothing is sent and nothing is filled in.
LEMMA SameIntent ==
    ASSUME Inv, UNCHANGED <<quote, form, pristine, intent, unconfirmed, keys, attempts, drifting>>,
           waiting' \in {0, waiting}, AnswersOK', Known' \subseteq Known
    PROVE  Inv'
<1>1. CountsOK'
    BY OrderTicketAssumption DEF Inv, Types, CountsOK
<1>2. Requests' = Requests /\ (\A r : ToldBy(r)' = ToldBy(r)) /\ \A r : Placeable(r)' <=> Placeable(r)
    BY DEF Requests, ToldBy, Placeable
<1>3. SteadyFingerprint' = SteadyFingerprint
    BY DEF SteadyFingerprint, Transfer
<1>4. RequestsOK' /\ UnconfirmedOK'
    BY <1>2 DEF Inv, Types, RequestsOK, UnconfirmedOK
<1>5. Keys'
    BY <1>2, <1>3 DEF Inv, Keys, OneKeyOneOrder, KeptFor, OneIntentOneKey, StillKept
<1> QED BY <1>1, <1>4, <1>5 DEF Inv, Types

LEMMA GiveUpInv == ASSUME Inv, GiveUp PROVE Inv'
<1>1. answers' = {}
    BY DEF GiveUp, Inv, Types, AnswersOK
<1>2. AnswersOK'
    BY <1>1 DEF GiveUp, Inv, Types, AnswersOK
<1>3. Known' = Known
    BY DEF GiveUp, Known
<1> QED BY <1>2, <1>3, SameIntent DEF GiveUp, Inv, Types, CountsOK

\* A price comes: if it changes the form, nothing was sent of it that it changes.
LEMMA QuoteInv == ASSUME Inv, NEW q \in Quotes, QuoteArrives(q) PROVE Inv'
<1>1. /\ form.page = "ticket" /\ quote' = q
      /\ UNCHANGED <<intent, unconfirmed, keys, attempts, waiting, wire, answers, placed, drifting>>
    BY DEF QuoteArrives
<1>2. AnswersOK' /\ Known' = Known
    BY <1>1 DEF Inv, Types, AnswersOK, Known
<1>3. form \in OrderForms
    BY <1>1, FormKinds DEF Inv, Types, CountsOK
<1>4. /\ form' \in OrderForms /\ form'.page = "ticket" /\ pristine' \in BOOLEAN
      /\ pristine' => pristine /\ quote'.price = Null /\ form' = form
      /\ (form' = form /\ pristine' = pristine) \/
            (pristine /\ form'.type = "MARKET" /\ form'.side = form.side /\ form'.fund = form.fund
             /\ form'.units = form.units)
    <2>1. CASE pristine /\ q.price # Null
        <3>1. q.price \in Nat
            BY <2>1, OrderTicketAssumption
        <3>2. form' = Priced(form, q.price) /\ pristine' = FALSE
            BY <2>1 DEF QuoteArrives
        <3>3. pristine' \in BOOLEAN /\ ~pristine'
            BY <3>2, Zenon
        <3> QED BY <1>1, <1>3, <2>1, <3>1, <3>2, <3>3, PricedSound
    <2>2. CASE ~(pristine /\ q.price # Null)
        BY <1>1, <1>3, <2>2 DEF QuoteArrives, Inv, Types, CountsOK
    <2> QED BY <2>1, <2>2
<1>5. CountsOK'
    BY <1>1, <1>4 DEF Inv, Types, CountsOK
<1>6. Requests' = Requests /\ (\A r : ToldBy(r)' = ToldBy(r)) /\ \A r : Placeable(r)' <=> Placeable(r)
    BY <1>1 DEF Requests, ToldBy, Placeable
<1>7. RequestsOK' /\ UnconfirmedOK'
    BY <1>1, <1>2, <1>6 DEF Inv, Types, RequestsOK, UnconfirmedOK
<1>8. OneKeyOneOrder' /\ KeptFor' /\ OneIntentOneKey'
    BY <1>1, <1>2, <1>4, <1>6 DEF Inv, Keys, OneKeyOneOrder, KeptFor, OneIntentOneKey
<1>9. StillKept'
    <2>1. ASSUME intent \notin drifting, NEW r \in Known, r.intent = intent
          PROVE  /\ r.key = unconfirmed.key /\ ToldBy(r) = SteadyFingerprint'
                 /\ pristine' => form'.type = "MARKET"
        <3>1. /\ r.key = unconfirmed.key /\ ToldBy(r) = SteadyFingerprint
              /\ pristine => form.type = "MARKET"
            BY <2>1 DEF Inv, Keys, StillKept
        <3>2. SteadyFingerprint' = SteadyFingerprint
            <4>1. CASE form' = form
                BY <4>1 DEF SteadyFingerprint, Transfer
            <4>2. CASE form' # form
                <5>1. form.type = "MARKET" /\ form'.type = "MARKET"
                    BY <1>4, <3>1, <4>2
                <5> QED BY <1>1, <1>4, <4>2, <5>1 DEF SteadyFingerprint
            <4> QED BY <4>1, <4>2
        <3> QED BY <1>4, <3>1, <3>2
    <2> QED BY <1>1, <1>2, <1>6, <2>1 DEF StillKept
<1> QED BY <1>2, <1>5, <1>7, <1>8, <1>9 DEF Inv, Types, Keys

LEMMA HandleInv == ASSUME Inv, NEW r \in wire, Handle(r) PROVE Inv'
<1>1. /\ wire' = wire \ {r} /\ waiting' = waiting
      /\ UNCHANGED <<quote, form, pristine, intent, unconfirmed, keys, attempts, drifting>>
    BY DEF Handle, page
<1>2. PICK accepted \in BOOLEAN :
          /\ placed' = IF accepted /\ Earlier(r) = {} THEN placed \cup {r} ELSE placed
          /\ answers' = IF r.attempt = waiting
                        THEN answers \cup {[attempt |-> r.attempt, accepted |-> accepted]} ELSE answers
    BY DEF Handle
<1>3. Known' \subseteq Known
    BY <1>1, <1>2 DEF Known
<1>4. AnswersOK'
    <2>1. CASE r.attempt = waiting
        <3>1. answers = {}
            BY <2>1 DEF Inv, Types, AnswersOK
        <3>2. answers' = {[attempt |-> waiting, accepted |-> accepted]}
            BY <1>2, <2>1, <3>1
        <3>3. \A p \in wire' : p.attempt # waiting
            BY <1>1, <2>1 DEF Inv, Types, AnswersOK
        <3>4. waiting # 0
            <4>1. r.attempt \in 1..attempts /\ attempts \in Nat
                BY OrderTicketAssumption DEF Inv, Types, RequestsOK, Known, Requests, CountsOK
            <4> QED BY <2>1, <4>1
        <3> QED BY <1>1, <3>2, <3>3, <3>4 DEF Inv, Types, AnswersOK
    <2>2. CASE r.attempt # waiting
        BY <1>1, <1>2, <2>2 DEF Inv, Types, AnswersOK
    <2> QED BY <2>1, <2>2
<1> QED BY <1>1, <1>3, <1>4, SameIntent DEF Inv, Types, CountsOK

LEMMA LoseInv == ASSUME Inv, NEW r \in wire, Lose(r) PROVE Inv'
<1>1. AnswersOK' /\ Known' \subseteq Known
    BY DEF Lose, page, Inv, Types, AnswersOK, Known
<1> QED BY <1>1, SameIntent DEF Lose, page, Inv, Types, CountsOK

\* At first nothing has been sent.
LEMMA InitInv == Init => Inv
<1> SUFFICES ASSUME Init PROVE Inv
    OBVIOUS
<1>1. Known = {}
    BY DEF Init, Known
<1>2. CountsOK
    BY OpeningSound, OrderTicketAssumption DEF Init, CountsOK
<1>3. RequestsOK /\ UnconfirmedOK /\ AnswersOK
    BY <1>1 DEF Init, RequestsOK, UnconfirmedOK, AnswersOK
<1>4. Keys
    BY <1>1 DEF Keys, OneKeyOneOrder, KeptFor, OneIntentOneKey, StillKept
<1> QED BY <1>2, <1>3, <1>4 DEF Inv, Types

LEMMA StepInv == Inv /\ [Next]_vars => Inv'
<1> SUFFICES ASSUME Inv, [Next]_vars PROVE Inv'
    OBVIOUS
<1>1. CASE Submit
    BY <1>1, SubmitTypes, SubmitKeys DEF Inv
<1>2. CASE GiveUp
    BY <1>2, GiveUpInv
<1>3. ASSUME NEW f \in Forms, Fill(f) PROVE Inv'
    BY <1>3, FillInv
<1>8. ASSUME NEW fund \in BOOLEAN, NEW q \in Quotes, Choose(fund, q) PROVE Inv'
    BY <1>8, ChooseInv
<1>9. ASSUME NEW o \in Openings, Open(o) PROVE Inv'
    BY <1>9, OpenInv
<1>4. ASSUME NEW a \in answers, OrderAccepted(a) \/ TransferAccepted(a) \/ Refused(a) PROVE Inv'
    BY <1>4, AnsweredInv
<1>5. ASSUME NEW q \in Quotes, QuoteArrives(q) PROVE Inv'
    BY <1>5, QuoteInv
<1>6. ASSUME NEW r \in wire, Handle(r) \/ Lose(r) PROVE Inv'
    BY <1>6, HandleInv, LoseInv
<1>7. CASE UNCHANGED vars
    <2>1. AnswersOK' /\ Known' = Known
        BY <1>7 DEF vars, page, Inv, Types, AnswersOK, Known
    <2> QED BY <1>7, <2>1, SameIntent DEF vars, page, Inv, Types, CountsOK
<1> QED BY <1>1, <1>2, <1>3, <1>4, <1>5, <1>6, <1>7, <1>8, <1>9 DEF Next

-----------------------------------------------------------------------------
(* The theorems. *)

\* Every request is for a whole unit under a key that was drawn, and an answer is to the
\* attempt that is awaited.
THEOREM TypeCorrect == Spec => []TypeOK
<1>1. Inv => TypeOK
    <2> SUFFICES ASSUME Inv PROVE TypeOK
        OBVIOUS
    <2>1. unconfirmed.key \in 0..keys
        BY OrderTicketAssumption DEF Inv, Types, UnconfirmedOK, NoKey, CountsOK
    <2>2. ASSUME NEW r \in wire \cup placed
          PROVE  Attempt(r) /\ (r.page = "ticket" => r.order.units >= 1)
        BY DEF Inv, Types, RequestsOK, Known, Requests, Placeable, Attempt, Orders
    <2>3. \A a \in answers : a.attempt = waiting /\ a.accepted \in BOOLEAN
        BY DEF Inv, Types, AnswersOK
    <2> QED BY <2>1, <2>2, <2>3 DEF Inv, Types, CountsOK, TypeOK
<1> QED BY <1>1, InitInv, StepInv, PTL DEF Spec

\* What the customer set out to do is placed once, however often it is sent again and
\* however late the earlier attempts land, unless it drifts with the price.
THEOREM PlacedOnce == Spec => []OncePerIntent
<1>1. Inv => OncePerIntent
    BY DEF Inv, Keys, OneIntentOneKey, Known, OncePerIntent
<1> QED BY <1>1, InitInv, StepInv, PTL DEF Spec

\* Nothing the customer asked for is answered as a repeat of something else.
THEOREM KeyTellsOrders == Spec => []KeyMeansOrder
<1>1. Inv => KeyMeansOrder
    <2> SUFFICES ASSUME Inv, NEW r \in wire, NEW p \in placed, r.key = p.key
                 PROVE  /\ r.page = p.page /\ r.market = p.market
                        /\ IF r.market THEN [r.order EXCEPT !.price = 0] = [p.order EXCEPT !.price = 0]
                           ELSE r.order = p.order
        BY DEF KeyMeansOrder
    <2>1. r.page = p.page /\ ToldBy(r) = ToldBy(p)
        BY DEF Inv, Keys, OneKeyOneOrder, Known
    <2>2. Placeable(r) /\ Placeable(p) /\ r.market \in BOOLEAN /\ p.market \in BOOLEAN
        BY DEF Inv, Types, RequestsOK, Known, Requests
    <2>3. r.market = p.market
        <3>1. CASE r.page = "ticket"
            BY <2>1, <2>2, <3>1 DEF Placeable, ToldBy, Orders
        <3> QED BY <2>1, <2>2, <3>1 DEF Placeable
    <2>4. CASE r.market
        <3>1. r.order \in Orders /\ p.order \in Orders
            BY <2>1, <2>2, <2>3, <2>4 DEF Placeable
        <3>2. [r.order EXCEPT !.price = Null] = [p.order EXCEPT !.price = Null]
            BY <2>1, <2>3, <2>4 DEF ToldBy
        <3>3. r.order.side = p.order.side /\ r.order.fund = p.order.fund /\ r.order.units = p.order.units
            BY <3>1, <3>2 DEF Orders
        <3> QED BY <2>1, <2>3, <2>4, <3>1, <3>3 DEF Orders
    <2> QED BY <2>1, <2>3, <2>4 DEF ToldBy
<1> QED BY <1>1, InitInv, StepInv, PTL DEF Spec
=============================================================================
