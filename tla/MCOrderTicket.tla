--------------------------- MODULE MCOrderTicket ---------------------------
(* Instances of OrderTicket small enough for TLC: a price of 10 paise that  *)
(* moves to 10.4, and goes; one fund's amount buys a unit less at the newer *)
(* price, and the other's none at all.  A ticket is opened with a price or  *)
(* without one yet.                                                         *)
EXTENDS OrderTicket

Ticket(fund, side, type, units, amount, price) ==
    [page |-> "ticket", fund |-> fund, side |-> side, type |-> type,
     units |-> units, amount |-> amount, price |-> price]

MCQuotes ==
    {[price |-> 1000, bid |-> 990, ask |-> 1000],
     [price |-> 1040, bid |-> Null, ask |-> Null],
     Unpriced}
MCForms ==
    {Ticket(FALSE, "BUY", "MARKET", 2, Null, 10),
     Ticket(FALSE, "BUY", "LIMIT", 2, Null, 10),
     Ticket(FALSE, "BUY", "LIMIT", 1, Null, 10),
     Ticket(FALSE, "SELL", "MARKET", 2, Null, 9),
     Ticket(TRUE, "BUY", "MARKET", Null, 21, 10),
     Ticket(TRUE, "BUY", "MARKET", Null, 10, 10),
     [page |-> "cash", side |-> "DEPOSIT", amount |-> 20],
     [page |-> "cash", side |-> "WITHDRAWAL", amount |-> 20]}
=============================================================================
