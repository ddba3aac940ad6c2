---------------------------- MODULE TradingTerms ----------------------------
(***************************************************************************)
(* What one brokerage account may be asked to do: the orders a customer    *)
(* sends on it and the cash transfers in and out of it.  The request's     *)
(* fields never change once it is sent, so they are constants.             *)
(*                                                                         *)
(* Money is counted in ten-thousandths of a rupee, the scale of the table. *)
(* What a customer asks for has two decimals (@Digits(fraction = 2) on the *)
(* requests): limits and transfers are whole paise, and so are             *)
(* reservations, as shares are whole.  A price quoted has four decimals.   *)
(***************************************************************************)
EXTENDS Naturals, FiniteSets, Totals

CONSTANTS
    Orders,           \* requests to place an order, one per POST /orders
    Side,             \* order -> "BUY" or "SELL"
    Quantity,         \* order -> shares
    Limit,            \* order -> limit price per share
    InstrumentOf,     \* order -> instrument
    KeyOf,            \* order -> idempotency key
    Instruments,
    Prices,           \* the prices a quote may carry
    Transfers,        \* requests to deposit or withdraw
    Direction,        \* transfer -> "DEPOSIT" or "WITHDRAWAL"
    Amount,           \* transfer -> money
    TransferKey,      \* transfer -> idempotency key
    OpeningBalance,   \* the cash on the account before any of these requests
    OpeningPosition   \* instrument -> shares held before them

ASSUME OrdersAssumption ==
    /\ IsFiniteSet(Orders)
    /\ Side \in [Orders -> {"BUY", "SELL"}]
    /\ Quantity \in [Orders -> Nat \ {0}]
    /\ Limit \in [Orders -> Nat \ {0}] /\ \A o \in Orders : Limit[o] % 100 = 0
    /\ InstrumentOf \in [Orders -> Instruments]
    /\ Prices \subseteq Nat \ {0}

ASSUME TransfersAssumption ==
    /\ IsFiniteSet(Transfers)
    /\ Direction \in [Transfers -> {"DEPOSIT", "WITHDRAWAL"}]
    /\ Amount \in [Transfers -> Nat \ {0}] /\ \A t \in Transfers : Amount[t] % 100 = 0

ASSUME OpeningAssumption ==
    /\ OpeningBalance \in Nat
    /\ OpeningPosition \in [Instruments -> Nat]

Buys == {o \in Orders : Side[o] = "BUY"}
Sells == Orders \ Buys

\* ABSENT: no row yet.  The other four are the values of orders.status.
OrderStatus == {"ABSENT", "NEW", "FILLED", "REJECTED", "CANCELLED"}

\* ABSENT: no row yet.  The other three are the values of fund_transfer.status.
TransferStatus == {"ABSENT", "PENDING", "SUCCESS", "FAILED"}

\* What accepting a BUY blocks and resolving it releases: limit times quantity.
Reservation == [o \in Orders |-> Quantity[o] * Limit[o]]

\* The cash that changes hands when o fills at price p.
Consideration(o, p) == Quantity[o] * p

\* Account.money: to the nearest paisa, half of one up.
Rounded(money) == ((money + 50) \div 100) * 100

\* Broken variant: a SELL returns a reservation too.
ReleasedForEverySide(o) == Reservation[o]

\* What resolving o returns from the blocked funds: a SELL blocked nothing.
Released(o) == IF o \in Buys THEN Reservation[o] ELSE 0

\* A BUY fills at or below its limit, a SELL at or above it.
Marketable(o, p) == IF o \in Buys THEN p <= Limit[o] ELSE p >= Limit[o]
=============================================================================
