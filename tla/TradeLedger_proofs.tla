------------------------- MODULE TradeLedger_proofs -------------------------
(***************************************************************************)
(* The order service, the payment job and the executors keep the cash      *)
(* ledger, whatever the orders, the transfers, the prices and the number   *)
(* of executors.                                                           *)
(*                                                                         *)
(* First the ledger keeps its promises.  Types, backing and limits are     *)
(* inductive together: a fill leaves the balance a natural number because  *)
(* its cost is at most the reservation, the reservation is part of the     *)
(* blocked funds because these are backed, and the blocked funds are       *)
(* within the balance.                                                     *)
(*                                                                         *)
(* Then each commit is shown to be a step of the ledger, so what holds of  *)
(* the ledger holds of the account; the local parts of the invariant say   *)
(* what a transaction still knows at its commit of what it read before.    *)
(* That all that is blocked is whole paise bounds what rounding can add.   *)
(***************************************************************************)
EXTENDS TradeLedger, Totals_proofs

-----------------------------------------------------------------------------
(* The ledger. *)

\* The terms and the totals of the ledger are the account's.
LEMMA SameTerms ==
    /\ Ledger!Buys = Buys /\ Ledger!Sells = Sells /\ Ledger!Reservation = Reservation
    /\ Ledger!OrderStatus = OrderStatus /\ Ledger!TransferStatus = TransferStatus
    /\ \A o : Ledger!Released(o) = Released(o)
    /\ \A o, p : Ledger!Marketable(o, p) = Marketable(o, p)
    /\ \A o, p : Ledger!Consideration(o, p) = Consideration(o, p)
    /\ \A S, f : Ledger!Total(S, f) = Total(S, f)
  BY DEF Ledger!Buys, Buys, Ledger!Sells, Sells, Ledger!Reservation, Reservation, Ledger!Released, Released,
         Ledger!Marketable, Marketable, Ledger!Consideration, Consideration,
         Ledger!OrderStatus, OrderStatus, Ledger!TransferStatus, TransferStatus,
         Ledger!Total, Total, Ledger!CoinsOf, CoinsOf, Ledger!Coins, Coins, Ledger!Cardinality, Cardinality,
         Ledger!IsFiniteSet, IsFiniteSet

USE SameTerms

\* The amounts of the constants are natural numbers.
LEMMA AmountsNat ==
    /\ \A o \in Orders : Quantity[o] \in Nat /\ Limit[o] \in Nat /\ Reservation[o] \in Nat
    /\ \A o \in Orders, p \in Nat : Consideration(o, p) \in Nat
    /\ \A t \in Transfers : Amount[t] \in Nat
    /\ Prices \subseteq Nat
<1>1. \A m, n \in Nat : m * n \in Nat
  OBVIOUS
<1>2. \A o \in Orders : Quantity[o] \in Nat /\ Limit[o] \in Nat
  BY OrdersAssumption
<1>3. \A o \in Orders : Reservation[o] = Quantity[o] * Limit[o]
  BY DEF Reservation
<1>4. \A o \in Orders, p \in Nat : Consideration(o, p) \in Nat
  BY <1>1, <1>2 DEF Consideration
<1>5. \A t \in Transfers : Amount[t] \in Nat
  BY TransfersAssumption
<1>6. Prices \subseteq Nat
  BY OrdersAssumption
<1> QED
  BY <1>1, <1>2, <1>3, <1>4, <1>5, <1>6

\* Reservations and transfers are whole paise, as limits are.
LEMMA AmountsWhole ==
    /\ \A o \in Orders : Reservation[o] % 100 = 0
    /\ \A t \in Transfers : Amount[t] % 100 = 0
<1>1. ASSUME NEW o \in Orders PROVE Reservation[o] % 100 = 0
  <2>1. Limit[o] \in Nat /\ Limit[o] % 100 = 0 /\ Quantity[o] \in Nat
    BY OrdersAssumption
  <2>2. PICK j \in Nat : Limit[o] = 100 * j
    BY <2>1
  <2>3. Quantity[o] * j \in Nat /\ Quantity[o] * (100 * j) = 100 * (Quantity[o] * j)
    BY <2>1
  <2>4. \A n \in Nat : (100 * n) % 100 = 0
    OBVIOUS
  <2> QED BY <2>2, <2>3, <2>4 DEF Reservation
<1> QED
  BY <1>1, TransfersAssumption

\* Rounding moves an amount by half a paisa at most and keeps whole paise:
\* what a whole amount does not exceed, it does not exceed rounded.
LEMMA RoundedBounds ==
    ASSUME NEW x \in Nat, NEW w \in Nat, w % 100 = 0
    PROVE  /\ Rounded(x) \in Nat
           /\ Rounded(x) <= x + 50
           /\ w <= x => w <= Rounded(x)
           /\ Rounded(w) = w
  BY DEF Rounded

LEMMA WholeSums ==
    ASSUME NEW a \in Nat, NEW b \in Nat, a % 100 = 0, b % 100 = 0
    PROVE  (a + b) % 100 = 0 /\ (b <= a => (a - b) % 100 = 0)
  OBVIOUS

\* A BUY that fills costs no more than what was blocked for it.
LEMMA CostWithinReservation ==
    ASSUME NEW o \in Buys, NEW p \in Nat, Marketable(o, p)
    PROVE  Consideration(o, p) <= Reservation[o]
<1>1. \A q, a, b \in Nat : a <= b => q * a <= q * b
  OBVIOUS
<1>2. o \in Orders /\ p <= Limit[o]
  BY DEF Buys, Marketable
<1>3. Quantity[o] \in Nat /\ Limit[o] \in Nat
  BY <1>2, AmountsNat
<1> QED
  BY <1>1, <1>2, <1>3 DEF Consideration, Reservation
-----------------------------------------------------------------------------
IInv == Ledger!TypeOK /\ Ledger!ReservationsBacked /\ Ledger!AccountWithinLimits

\* The rows that are added up are finitely many.
LEMMA RowsFinite ==
    /\ IsFiniteSet(Ledger!WorkingBuys)
    /\ IsFiniteSet(Ledger!PendingWithdrawals)
    /\ IsFiniteSet(Ledger!Filled(Buys)) /\ IsFiniteSet(Ledger!Filled(Sells))
    /\ \A d : IsFiniteSet(Ledger!Succeeded(d))
<1>1. \A T \in SUBSET Orders : IsFiniteSet(T)
  BY OrdersAssumption, FS_Subset
<1>2. \A T \in SUBSET Transfers : IsFiniteSet(T)
  BY TransfersAssumption, FS_Subset
<1>3. /\ Ledger!WorkingBuys \in SUBSET Orders
      /\ Ledger!Filled(Buys) \in SUBSET Orders
      /\ Ledger!Filled(Sells) \in SUBSET Orders
  BY DEF Ledger!WorkingBuys, Ledger!Filled, Buys, Sells
<1>4. /\ Ledger!PendingWithdrawals \in SUBSET Transfers
      /\ \A d : Ledger!Succeeded(d) \in SUBSET Transfers
  BY DEF Ledger!PendingWithdrawals, Ledger!Succeeded
<1> QED
  BY <1>1, <1>2, <1>3, <1>4

\* The totals over those rows are natural numbers.
LEMMA HoldsNat ==
    /\ Total(Ledger!WorkingBuys, Reservation) \in Nat
    /\ Total(Ledger!PendingWithdrawals, Amount) \in Nat
<1>1. \A o \in Ledger!WorkingBuys : Reservation[o] \in Nat
  BY AmountsNat DEF Ledger!WorkingBuys, Buys
<1>2. \A t \in Ledger!PendingWithdrawals : Amount[t] \in Nat
  BY AmountsNat DEF Ledger!PendingWithdrawals
<1>3. IsFiniteSet(Ledger!WorkingBuys) /\ IsFiniteSet(Ledger!PendingWithdrawals)
  BY RowsFinite
<1>4. Total(Ledger!WorkingBuys, Reservation) \in Nat
  BY <1>1, <1>3, TotalNat
<1> QED
  BY <1>2, <1>3, <1>4, TotalNat

\* The reservation of a working BUY is part of the blocked funds.
LEMMA ReservationIsBlocked ==
    ASSUME Ledger!ReservationsBacked, NEW o \in Ledger!WorkingBuys
    PROVE  /\ account.blocked >= Reservation[o]
           /\ Total(Ledger!WorkingBuys, Reservation)
                = Total(Ledger!WorkingBuys \ {o}, Reservation) + Reservation[o]
           /\ Total(Ledger!WorkingBuys \ {o}, Reservation) \in Nat
<1>1. \A y \in Ledger!WorkingBuys : Reservation[y] \in Nat
  BY AmountsNat DEF Ledger!WorkingBuys, Buys
<1>2. IsFiniteSet(Ledger!WorkingBuys) /\ IsFiniteSet(Ledger!WorkingBuys \ {o})
  BY RowsFinite, FS_RemoveElement
<1>3. /\ Total(Ledger!WorkingBuys, Reservation)
           = Total(Ledger!WorkingBuys \ {o}, Reservation) + Reservation[o]
      /\ Total(Ledger!WorkingBuys, Reservation) >= Reservation[o]
  BY <1>1, <1>2, TotalRemove
<1>4. Total(Ledger!WorkingBuys \ {o}, Reservation) \in Nat
  BY <1>1, <1>2, TotalNat
<1>5. account.blocked >= Reservation[o]
  <2>1. \A a, b, c \in Nat : a >= c => a + b >= c
    OBVIOUS
  <2> QED BY <1>1, <1>3, <2>1, HoldsNat DEF Ledger!ReservationsBacked
<1> QED
  BY <1>3, <1>4, <1>5

\* So is the amount of a pending withdrawal.
LEMMA HoldIsBlocked ==
    ASSUME Ledger!ReservationsBacked, NEW t \in Ledger!PendingWithdrawals
    PROVE  /\ account.blocked >= Amount[t]
           /\ Total(Ledger!PendingWithdrawals, Amount)
                = Total(Ledger!PendingWithdrawals \ {t}, Amount) + Amount[t]
           /\ Total(Ledger!PendingWithdrawals \ {t}, Amount) \in Nat
<1>1. \A y \in Ledger!PendingWithdrawals : Amount[y] \in Nat
  BY AmountsNat DEF Ledger!PendingWithdrawals
<1>2. IsFiniteSet(Ledger!PendingWithdrawals) /\ IsFiniteSet(Ledger!PendingWithdrawals \ {t})
  BY RowsFinite, FS_RemoveElement
<1>3. /\ Total(Ledger!PendingWithdrawals, Amount)
           = Total(Ledger!PendingWithdrawals \ {t}, Amount) + Amount[t]
      /\ Total(Ledger!PendingWithdrawals, Amount) >= Amount[t]
  BY <1>1, <1>2, TotalRemove
<1>4. Total(Ledger!PendingWithdrawals \ {t}, Amount) \in Nat
  BY <1>1, <1>2, TotalNat
<1>5. account.blocked >= Amount[t]
  <2>1. \A a, b, c \in Nat : b >= c => a + b >= c
    OBVIOUS
  <2> QED BY <1>1, <1>3, <2>1, HoldsNat DEF Ledger!ReservationsBacked
<1> QED
  BY <1>3, <1>4, <1>5
-----------------------------------------------------------------------------
(* The steps. *)

\* Nothing is blocked when nothing works.
LEMMA InitIInv == Ledger!Init => IInv
<1> SUFFICES ASSUME Ledger!Init PROVE IInv
  OBVIOUS
<1>1. Ledger!TypeOK
  BY OpeningAssumption DEF Ledger!Init, Ledger!TypeOK, OrderStatus, TransferStatus
<1>2. Ledger!WorkingBuys = {} /\ Ledger!PendingWithdrawals = {}
  BY DEF Ledger!Init, Ledger!WorkingBuys, Ledger!PendingWithdrawals, Buys
<1>3. Ledger!ReservationsBacked
  BY <1>2, TotalEmpty DEF Ledger!Init, Ledger!ReservationsBacked
<1>4. Ledger!AccountWithinLimits
  BY OpeningAssumption DEF Ledger!Init, Ledger!AccountWithinLimits
<1> QED
  BY <1>1, <1>3, <1>4 DEF IInv

\* Taking an order blocks its reservation and no more than is there.
LEMMA AcceptIInv == ASSUME IInv, NEW o \in Orders, Ledger!Accept(o) PROVE IInv'
<1> USE DEF IInv
<1>1. Released(o) \in Nat /\ account.blocked + Released(o) <= account.balance
  BY AmountsNat DEF Released, Ledger!Accept, Ledger!TypeOK, Ledger!AccountWithinLimits
<1>2. Ledger!TypeOK' /\ Ledger!AccountWithinLimits'
  BY <1>1 DEF Ledger!Accept, Ledger!TypeOK, OrderStatus, Ledger!AccountWithinLimits
<1>3. Ledger!PendingWithdrawals' = Ledger!PendingWithdrawals
  BY DEF Ledger!Accept, Ledger!PendingWithdrawals
<1>4. CASE o \in Buys
  <2>1. Ledger!WorkingBuys' = Ledger!WorkingBuys \cup {o} /\ o \notin Ledger!WorkingBuys
    BY <1>4 DEF Ledger!Accept, Ledger!WorkingBuys, Ledger!TypeOK, Buys
  <2>2. /\ \A y \in Ledger!WorkingBuys : Reservation[y] \in Nat
        /\ Reservation[o] \in Nat
    BY AmountsNat DEF Ledger!WorkingBuys, Buys
  <2>3. Total(Ledger!WorkingBuys \cup {o}, Reservation)
          = Total(Ledger!WorkingBuys, Reservation) + Reservation[o]
    BY <2>1, <2>2, RowsFinite, TotalAdd
  <2>4. account'.blocked = account.blocked + Reservation[o]
    BY <1>4 DEF Ledger!Accept, Released
  <2>5. \A a, b, c \in Nat : (a + b) + c = (a + c) + b
    OBVIOUS
  <2>6. Ledger!ReservationsBacked'
    BY <1>3, <2>1, <2>2, <2>3, <2>4, <2>5, HoldsNat DEF Ledger!ReservationsBacked
  <2> QED BY <1>2, <2>6
<1>5. CASE o \notin Buys
  <2>1. Ledger!WorkingBuys' = Ledger!WorkingBuys /\ account'.blocked = account.blocked
    BY <1>5 DEF Ledger!Accept, Ledger!WorkingBuys, Ledger!TypeOK, Buys, Released
  <2> QED BY <1>2, <1>3, <2>1 DEF Ledger!ReservationsBacked
<1> QED
  BY <1>4, <1>5

\* Resolving an order returns exactly what it had blocked.
LEMMA ResolveBacked ==
    ASSUME IInv, NEW o \in Orders, status[o] = "NEW", NEW final \in OrderStatus \ {"NEW"},
           status' = [status EXCEPT ![o] = final],
           account'.blocked = account.blocked - Released(o), transfer' = transfer
    PROVE  /\ Ledger!ReservationsBacked'
           /\ Released(o) \in Nat /\ Released(o) <= account.blocked
           /\ status' \in [Orders -> OrderStatus]
<1> USE DEF IInv
<1>1. Ledger!PendingWithdrawals' = Ledger!PendingWithdrawals
  BY DEF Ledger!PendingWithdrawals
<1>2. status' \in [Orders -> OrderStatus]
  BY DEF Ledger!TypeOK
<1>3. CASE o \in Buys
  <2>1. o \in Ledger!WorkingBuys /\ Ledger!WorkingBuys' = Ledger!WorkingBuys \ {o}
    BY <1>3 DEF Ledger!WorkingBuys, Ledger!TypeOK, Buys
  <2>2. /\ account.blocked >= Reservation[o]
        /\ Total(Ledger!WorkingBuys, Reservation)
             = Total(Ledger!WorkingBuys \ {o}, Reservation) + Reservation[o]
        /\ Total(Ledger!WorkingBuys \ {o}, Reservation) \in Nat
    BY <2>1, ReservationIsBlocked
  <2>3. Released(o) = Reservation[o] /\ Reservation[o] \in Nat
    BY <1>3, AmountsNat DEF Released
  <2>4. \A a, b, c \in Nat : ((a + b) + c) - b = a + c
    OBVIOUS
  <2>5. account'.blocked = Total(Ledger!WorkingBuys \ {o}, Reservation) + Total(Ledger!PendingWithdrawals, Amount)
    BY <2>2, <2>3, <2>4, HoldsNat DEF Ledger!ReservationsBacked
  <2>6. Ledger!ReservationsBacked'
    BY <1>1, <2>1, <2>5 DEF Ledger!ReservationsBacked
  <2> QED BY <1>2, <2>2, <2>3, <2>6 DEF Ledger!TypeOK
<1>4. CASE o \notin Buys
  <2>1. Ledger!WorkingBuys' = Ledger!WorkingBuys /\ Released(o) = 0
    BY <1>4 DEF Ledger!WorkingBuys, Ledger!TypeOK, Buys, Released
  <2>2. account'.blocked = account.blocked /\ 0 <= account.blocked
    BY <2>1 DEF Ledger!TypeOK
  <2> QED BY <1>1, <1>2, <2>1, <2>2 DEF Ledger!ReservationsBacked
<1> QED
  BY <1>3, <1>4

\* A fill takes from the balance no more than it takes from the blocked funds.
LEMMA FillIInv ==
    ASSUME IInv, NEW o \in Orders, NEW p \in Prices, Ledger!Fill(o, p) PROVE IInv'
<1> USE DEF IInv
<1>1. /\ Ledger!ReservationsBacked'
      /\ Released(o) \in Nat /\ Released(o) <= account.blocked
      /\ status' \in [Orders -> OrderStatus]
  BY ResolveBacked DEF Ledger!Fill, OrderStatus
<1>2. Consideration(o, p) \in Nat
  BY AmountsNat
<1>3. CASE o \in Buys
  <2>1. Consideration(o, p) <= Released(o)
    BY <1>3, AmountsNat, CostWithinReservation DEF Ledger!Fill, Released
  <2>2. account'.balance = account.balance - Consideration(o, p) /\ account'.blocked = account.blocked - Released(o)
    BY <1>3 DEF Ledger!Fill
  <2>3. account'.balance \in Nat /\ account'.blocked \in Nat /\ Ledger!AccountWithinLimits'
    BY <1>1, <1>2, <2>1, <2>2 DEF Ledger!TypeOK, Ledger!AccountWithinLimits
  <2> QED BY <1>1, <2>3 DEF Ledger!Fill, Ledger!TypeOK
<1>4. CASE o \notin Buys
  <2>1. account'.balance = account.balance + Consideration(o, p) /\ account'.blocked = account.blocked - Released(o)
    BY <1>4 DEF Ledger!Fill
  <2>2. account'.balance \in Nat /\ account'.blocked \in Nat /\ Ledger!AccountWithinLimits'
    BY <1>1, <1>2, <2>1 DEF Ledger!TypeOK, Ledger!AccountWithinLimits
  <2> QED BY <1>1, <2>2 DEF Ledger!Fill, Ledger!TypeOK
<1> QED
  BY <1>3, <1>4

\* A rejection or a cancellation leaves the balance alone.
LEMMA CloseIInv ==
    ASSUME IInv, NEW o \in Orders, NEW final \in {"REJECTED", "CANCELLED"}, Ledger!Close(o, final)
    PROVE  IInv'
<1> USE DEF IInv
<1>1. /\ Ledger!ReservationsBacked'
      /\ Released(o) \in Nat /\ Released(o) <= account.blocked
      /\ status' \in [Orders -> OrderStatus]
  BY ResolveBacked DEF Ledger!Close, OrderStatus
<1>2. account'.blocked \in Nat /\ Ledger!AccountWithinLimits'
  BY <1>1 DEF Ledger!Close, Ledger!TypeOK, Ledger!AccountWithinLimits
<1> QED
  BY <1>1, <1>2 DEF Ledger!Close, Ledger!TypeOK

\* A withdrawal blocks its amount when it is requested.
LEMMA RequestIInv == ASSUME IInv, NEW t \in Transfers, Ledger!Request(t) PROVE IInv'
<1> USE DEF IInv
<1>1. Amount[t] \in Nat
  BY AmountsNat
<1>2. Ledger!TypeOK' /\ Ledger!AccountWithinLimits'
  BY <1>1 DEF Ledger!Request, Ledger!TypeOK, TransferStatus, Ledger!AccountWithinLimits
<1>3. Ledger!WorkingBuys' = Ledger!WorkingBuys
  BY DEF Ledger!Request, Ledger!WorkingBuys
<1>4. CASE Direction[t] = "WITHDRAWAL"
  <2>1. Ledger!PendingWithdrawals' = Ledger!PendingWithdrawals \cup {t} /\ t \notin Ledger!PendingWithdrawals
    BY <1>4 DEF Ledger!Request, Ledger!PendingWithdrawals, Ledger!TypeOK
  <2>2. \A y \in Ledger!PendingWithdrawals : Amount[y] \in Nat
    BY AmountsNat DEF Ledger!PendingWithdrawals
  <2>3. Total(Ledger!PendingWithdrawals \cup {t}, Amount) = Total(Ledger!PendingWithdrawals, Amount) + Amount[t]
    BY <1>1, <2>1, <2>2, RowsFinite, TotalAdd
  <2>4. account'.blocked = account.blocked + Amount[t]
    BY <1>4 DEF Ledger!Request
  <2>5. \A a, b, c \in Nat : (a + b) + c = a + (b + c)
    OBVIOUS
  <2>6. Ledger!ReservationsBacked'
    BY <1>1, <1>3, <2>1, <2>3, <2>4, <2>5, HoldsNat DEF Ledger!ReservationsBacked
  <2> QED BY <1>2, <2>6
<1>5. CASE Direction[t] # "WITHDRAWAL"
  <2>1. Ledger!PendingWithdrawals' = Ledger!PendingWithdrawals /\ account'.blocked = account.blocked
    BY <1>5 DEF Ledger!Request, Ledger!PendingWithdrawals, Ledger!TypeOK
  <2> QED BY <1>2, <1>3, <2>1 DEF Ledger!ReservationsBacked
<1> QED
  BY <1>4, <1>5

\* Deciding a transfer unblocks what it had blocked.
LEMMA DecideBacked ==
    ASSUME IInv, NEW t \in Transfers, transfer[t] = "PENDING",
           NEW final \in TransferStatus \ {"PENDING"},
           transfer' = [transfer EXCEPT ![t] = final], status' = status,
           account'.blocked = IF Direction[t] = "WITHDRAWAL" THEN account.blocked - Amount[t] ELSE account.blocked
    PROVE  /\ Ledger!ReservationsBacked'
           /\ Direction[t] = "WITHDRAWAL" => Amount[t] <= account.blocked
           /\ transfer' \in [Transfers -> TransferStatus]
<1> USE DEF IInv
<1>1. Ledger!WorkingBuys' = Ledger!WorkingBuys
  BY DEF Ledger!WorkingBuys
<1>2. transfer' \in [Transfers -> TransferStatus]
  BY DEF Ledger!TypeOK
<1>3. CASE Direction[t] = "WITHDRAWAL"
  <2>1. t \in Ledger!PendingWithdrawals /\ Ledger!PendingWithdrawals' = Ledger!PendingWithdrawals \ {t}
    BY <1>3 DEF Ledger!PendingWithdrawals, Ledger!TypeOK
  <2>2. /\ account.blocked >= Amount[t]
        /\ Total(Ledger!PendingWithdrawals, Amount)
             = Total(Ledger!PendingWithdrawals \ {t}, Amount) + Amount[t]
        /\ Total(Ledger!PendingWithdrawals \ {t}, Amount) \in Nat
    BY <2>1, HoldIsBlocked
  <2>3. Amount[t] \in Nat
    BY AmountsNat
  <2>4. \A a, b, c \in Nat : (a + (b + c)) - c = a + b
    OBVIOUS
  <2>5. account'.blocked = Total(Ledger!WorkingBuys, Reservation) + Total(Ledger!PendingWithdrawals \ {t}, Amount)
    BY <1>3, <2>2, <2>3, <2>4, HoldsNat DEF Ledger!ReservationsBacked
  <2>6. Ledger!ReservationsBacked'
    BY <1>1, <2>1, <2>5 DEF Ledger!ReservationsBacked
  <2>7. Amount[t] <= account.blocked
    BY <2>2, <2>3 DEF Ledger!TypeOK
  <2> QED BY <1>2, <2>6, <2>7
<1>4. CASE Direction[t] # "WITHDRAWAL"
  <2>1. Ledger!PendingWithdrawals' = Ledger!PendingWithdrawals /\ account'.blocked = account.blocked
    BY <1>4 DEF Ledger!PendingWithdrawals, Ledger!TypeOK
  <2> QED BY <1>1, <1>2, <1>4, <2>1 DEF Ledger!ReservationsBacked
<1> QED
  BY <1>3, <1>4

\* A successful transfer moves its amount once.
LEMMA SucceedIInv == ASSUME IInv, NEW t \in Transfers, Ledger!Succeed(t) PROVE IInv'
<1> USE DEF IInv
<1>1. Amount[t] \in Nat
  BY AmountsNat
<1>2. /\ Ledger!ReservationsBacked'
      /\ Direction[t] = "WITHDRAWAL" => Amount[t] <= account.blocked
      /\ transfer' \in [Transfers -> TransferStatus]
  BY DecideBacked DEF Ledger!Succeed, TransferStatus
<1>3. account'.balance \in Nat /\ account'.blocked \in Nat /\ Ledger!AccountWithinLimits'
  BY <1>1, <1>2 DEF Ledger!Succeed, Ledger!TypeOK, Ledger!AccountWithinLimits
<1> QED
  BY <1>2, <1>3 DEF Ledger!Succeed, Ledger!TypeOK

\* A failed one only unblocks it.
LEMMA FailIInv == ASSUME IInv, NEW t \in Transfers, Ledger!Fail(t) PROVE IInv'
<1> USE DEF IInv
<1>1. Amount[t] \in Nat
  BY AmountsNat
<1>2. /\ Ledger!ReservationsBacked'
      /\ Direction[t] = "WITHDRAWAL" => Amount[t] <= account.blocked
      /\ transfer' \in [Transfers -> TransferStatus]
  BY DecideBacked DEF Ledger!Fail, TransferStatus
<1>3. account'.blocked \in Nat /\ Ledger!AccountWithinLimits'
  BY <1>1, <1>2 DEF Ledger!Fail, Ledger!TypeOK, Ledger!AccountWithinLimits
<1> QED
  BY <1>2, <1>3 DEF Ledger!Fail, Ledger!TypeOK

\* Every step of the ledger keeps the invariant.
LEMMA StepIInv == IInv /\ [Ledger!Next]_(Ledger!vars) => IInv'
<1> SUFFICES ASSUME IInv, [Ledger!Next]_(Ledger!vars) PROVE IInv'
  OBVIOUS
<1>1. ASSUME NEW o \in Orders, Ledger!Accept(o) PROVE IInv'
  BY <1>1, AcceptIInv
<1>2. ASSUME NEW o \in Orders, NEW p \in Prices, Ledger!Fill(o, p) PROVE IInv'
  BY <1>2, FillIInv
<1>3. ASSUME NEW o \in Orders, NEW final \in {"REJECTED", "CANCELLED"}, Ledger!Close(o, final)
      PROVE  IInv'
  BY <1>3, CloseIInv
<1>4. ASSUME NEW t \in Transfers, Ledger!Request(t) PROVE IInv'
  BY <1>4, RequestIInv
<1>5. ASSUME NEW t \in Transfers, Ledger!Succeed(t) PROVE IInv'
  BY <1>5, SucceedIInv
<1>6. ASSUME NEW t \in Transfers, Ledger!Fail(t) PROVE IInv'
  BY <1>6, FailIInv
<1>7. CASE UNCHANGED Ledger!vars
  <2>1. Ledger!WorkingBuys' = Ledger!WorkingBuys /\ Ledger!PendingWithdrawals' = Ledger!PendingWithdrawals
    BY <1>7 DEF Ledger!vars, Ledger!WorkingBuys, Ledger!PendingWithdrawals
  <2> QED BY <1>7, <2>1 DEF Ledger!vars, IInv, Ledger!TypeOK, Ledger!ReservationsBacked, Ledger!AccountWithinLimits
<1> QED
  BY <1>1, <1>2, <1>3, <1>4, <1>5, <1>6, <1>7 DEF Ledger!Next

\* The promises of the ledger: types, backing and limits always hold.
THEOREM LedgerSafe == Ledger!Spec => [](Ledger!TypeOK /\ Ledger!ReservationsBacked /\ Ledger!AccountWithinLimits)
<1>1. Ledger!Init => IInv
  BY InitIInv
<1>2. IInv /\ [Ledger!Next]_(Ledger!vars) => IInv'
  BY StepIInv
<1>3. IInv => Ledger!TypeOK /\ Ledger!ReservationsBacked /\ Ledger!AccountWithinLimits
  BY DEF IInv
<1> QED
  BY <1>1, <1>2, <1>3, PTL DEF Ledger!Spec
-----------------------------------------------------------------------------
(* Conservation of cash. *)

\* The four totals of the balance sheet are natural numbers.
LEMMA SheetNat ==
    ASSUME Ledger!TypeOK
    PROVE  /\ \A o \in Orders : Ledger!Cost[o] \in Nat
           /\ Total(Ledger!Filled(Buys), Ledger!Cost) \in Nat
           /\ Total(Ledger!Filled(Sells), Ledger!Cost) \in Nat
           /\ \A d : Total(Ledger!Succeeded(d), Amount) \in Nat
<1>1. \A o \in Orders : Ledger!Cost[o] \in Nat
  <2>1. \A o \in Orders : fillPrice[o] \in Nat
    <3>1. \A p \in Prices \cup {0} : p \in Nat
      BY OrdersAssumption
    <3>2. fillPrice \in [Orders -> Prices \cup {0}]
      BY DEF Ledger!TypeOK
    <3> QED BY <3>1, <3>2
  <2> QED BY <2>1, AmountsNat DEF Ledger!Cost
<1>2. (\A o \in Ledger!Filled(Buys) : Ledger!Cost[o] \in Nat) /\ (\A o \in Ledger!Filled(Sells) : Ledger!Cost[o] \in Nat)
  BY <1>1 DEF Ledger!Filled, Buys, Sells
<1>3. \A d : \A t \in Ledger!Succeeded(d) : Amount[t] \in Nat
  BY AmountsNat DEF Ledger!Succeeded
<1>4. IsFiniteSet(Ledger!Filled(Buys)) /\ IsFiniteSet(Ledger!Filled(Sells)) /\ \A d : IsFiniteSet(Ledger!Succeeded(d))
  BY RowsFinite
<1>5. Total(Ledger!Filled(Buys), Ledger!Cost) \in Nat /\ Total(Ledger!Filled(Sells), Ledger!Cost) \in Nat
  BY <1>2, <1>4, TotalNat
<1>6. \A d : Total(Ledger!Succeeded(d), Amount) \in Nat
  BY <1>3, <1>4, TotalNat
<1> QED
  BY <1>1, <1>5, <1>6

\* Without a fill, the filled orders and their cost stay what they are.
LEMMA FilledUnchanged ==
    ASSUME Ledger!TypeOK, fillPrice' = fillPrice,
           \A o \in Orders : status'[o] = "FILLED" <=> status[o] = "FILLED"
    PROVE  /\ Total(Ledger!Filled(Buys), Ledger!Cost)' = Total(Ledger!Filled(Buys), Ledger!Cost)
           /\ Total(Ledger!Filled(Sells), Ledger!Cost)' = Total(Ledger!Filled(Sells), Ledger!Cost)
<1>1. Ledger!Filled(Buys)' = Ledger!Filled(Buys) /\ Ledger!Filled(Sells)' = Ledger!Filled(Sells)
  BY DEF Ledger!Filled, Buys, Sells
<1>2. Ledger!Cost' = Ledger!Cost
  BY DEF Ledger!Cost
<1> QED
  BY <1>1, <1>2

\* A fill joins its side's rows with its cost, and leaves the other side alone.
LEMMA FilledGrows ==
    ASSUME Ledger!TypeOK, NEW o \in Orders, NEW p \in Prices, Ledger!Fill(o, p),
           NEW S \in {Buys, Sells}
    PROVE  Total(Ledger!Filled(S), Ledger!Cost)' = Total(Ledger!Filled(S), Ledger!Cost)
                                       + (IF o \in S THEN Consideration(o, p) ELSE 0)
<1> DEFINE new == Ledger!Cost'
<1>1. S \subseteq Orders
  BY DEF Buys, Sells
<1>2. \A y \in Orders : y # o => new[y] = Ledger!Cost[y] /\ status'[y] = status[y]
  BY DEF Ledger!Fill, Ledger!Cost, Ledger!TypeOK
<1>3. new[o] = Consideration(o, p) /\ status'[o] = "FILLED" /\ o \notin Ledger!Filled(S)
  BY DEF Ledger!Fill, Ledger!Cost, Ledger!TypeOK, Ledger!Filled
<1>4. \A y \in Ledger!Filled(S) : new[y] = Ledger!Cost[y]
  BY <1>1, <1>2, <1>3 DEF Ledger!Filled
<1>5. \A y \in Ledger!Filled(S) : new[y] \in Nat
  <2>1. \A y \in Ledger!Filled(S) : y \in Orders
    BY <1>1 DEF Ledger!Filled
  <2> QED BY <1>4, <2>1, SheetNat
<1>6. Total(Ledger!Filled(S), new) = Total(Ledger!Filled(S), Ledger!Cost)
  <2> HIDE DEF new
  <2> QED BY <1>4, TotalAgree
<1>7. Consideration(o, p) \in Nat /\ Total(Ledger!Filled(S), Ledger!Cost) \in Nat
  BY AmountsNat, SheetNat
<1>8. CASE o \in S
  <2>1. Ledger!Filled(S)' = Ledger!Filled(S) \cup {o}
    BY <1>1, <1>2, <1>3, <1>8 DEF Ledger!Filled
  <2>2. IsFiniteSet(Ledger!Filled(S))
    BY RowsFinite
  <2>3. Total(Ledger!Filled(S) \cup {o}, new) = Total(Ledger!Filled(S), new) + new[o]
    <3> HIDE DEF new
    <3> QED BY <1>3, <1>5, <1>7, <2>2, TotalAdd
  <2> QED BY <1>3, <1>6, <1>8, <2>1, <2>3
<1>9. CASE o \notin S
  <2>1. Ledger!Filled(S)' = Ledger!Filled(S)
    BY <1>1, <1>2, <1>9 DEF Ledger!Filled
  <2> QED BY <1>6, <1>7, <1>9, <2>1
<1> QED
  BY <1>8, <1>9

\* A transfer that succeeds joins its direction's rows, and only those.
LEMMA SucceededGrows ==
    ASSUME Ledger!TypeOK, NEW t \in Transfers, Ledger!Succeed(t), NEW d
    PROVE  Total(Ledger!Succeeded(d), Amount)' = Total(Ledger!Succeeded(d), Amount)
                                            + (IF Direction[t] = d THEN Amount[t] ELSE 0)
<1>1. \A u \in Transfers : u # t => transfer'[u] = transfer[u]
  BY DEF Ledger!Succeed, Ledger!TypeOK
<1>2. transfer'[t] = "SUCCESS" /\ t \notin Ledger!Succeeded(d)
  BY DEF Ledger!Succeed, Ledger!TypeOK, Ledger!Succeeded
<1>3. Amount[t] \in Nat /\ Total(Ledger!Succeeded(d), Amount) \in Nat
  BY AmountsNat, SheetNat
<1>4. CASE Direction[t] = d
  <2>1. Ledger!Succeeded(d)' = Ledger!Succeeded(d) \cup {t}
    BY <1>1, <1>2, <1>4 DEF Ledger!Succeeded
  <2>2. \A u \in Ledger!Succeeded(d) : Amount[u] \in Nat
    BY AmountsNat DEF Ledger!Succeeded
  <2>3. Total(Ledger!Succeeded(d) \cup {t}, Amount) = Total(Ledger!Succeeded(d), Amount) + Amount[t]
    BY <1>2, <1>3, <2>2, RowsFinite, TotalAdd
  <2> QED BY <1>4, <2>1, <2>3
<1>5. CASE Direction[t] # d
  <2>1. Ledger!Succeeded(d)' = Ledger!Succeeded(d)
    BY <1>1, <1>2, <1>5 DEF Ledger!Succeeded
  <2> QED BY <1>3, <1>5, <2>1
<1> QED
  BY <1>4, <1>5

\* Without a decision, the successful transfers stay what they are.
LEMMA SucceededUnchanged ==
    ASSUME \A t \in Transfers : transfer'[t] = "SUCCESS" <=> transfer[t] = "SUCCESS", NEW d
    PROVE  Total(Ledger!Succeeded(d), Amount)' = Total(Ledger!Succeeded(d), Amount)
<1>1. Ledger!Succeeded(d)' = Ledger!Succeeded(d)
  BY DEF Ledger!Succeeded
<1> QED
  BY <1>1

\* Every step changes the balance by what it adds to the totals.
LEMMA StepConserves == IInv /\ Ledger!CashConserved /\ [Ledger!Next]_(Ledger!vars) => Ledger!CashConserved'
<1> SUFFICES ASSUME IInv, Ledger!CashConserved, [Ledger!Next]_(Ledger!vars) PROVE Ledger!CashConserved'
  OBVIOUS
<1> DEFINE B == Total(Ledger!Filled(Buys), Ledger!Cost)
           S == Total(Ledger!Filled(Sells), Ledger!Cost)
           W == Total(Ledger!Succeeded("WITHDRAWAL"), Amount)
           D == Total(Ledger!Succeeded("DEPOSIT"), Amount)
<1>t. Ledger!TypeOK
  BY DEF IInv
<1>n. B \in Nat /\ S \in Nat /\ W \in Nat /\ D \in Nat /\ account.balance \in Nat /\ OpeningBalance \in Nat
  BY <1>t, SheetNat, OpeningAssumption DEF Ledger!TypeOK
<1>c. account.balance + B + W = OpeningBalance + S + D
  BY DEF Ledger!CashConserved
<1>1. ASSUME \A o \in Orders : status'[o] = "FILLED" <=> status[o] = "FILLED",
             \A t \in Transfers : transfer'[t] = "SUCCESS" <=> transfer[t] = "SUCCESS",
             fillPrice' = fillPrice, account'.balance = account.balance
      PROVE  Ledger!CashConserved'
  <2>1. B' = B /\ S' = S
    BY <1>1, <1>t, FilledUnchanged
  <2>2. W' = W /\ D' = D
    BY <1>1, SucceededUnchanged
  <2>3. account'.balance + B' + W' = OpeningBalance + S' + D'
    BY <1>1, <1>c, <2>1, <2>2
  <2> QED BY <2>3 DEF Ledger!CashConserved
<1>2. ASSUME NEW o \in Orders, Ledger!Accept(o) PROVE Ledger!CashConserved'
  BY <1>1, <1>2, <1>t DEF Ledger!Accept, Ledger!TypeOK
<1>3. ASSUME NEW o \in Orders, NEW p \in Prices, Ledger!Fill(o, p) PROVE Ledger!CashConserved'
  <2> DEFINE c == Consideration(o, p)
  <2>1. c \in Nat
    BY AmountsNat
  <2>2. B' = B + (IF o \in Buys THEN c ELSE 0) /\ S' = S + (IF o \in Sells THEN c ELSE 0)
    BY <1>3, <1>t, FilledGrows
  <2>3. W' = W /\ D' = D
    BY <1>3, SucceededUnchanged DEF Ledger!Fill
  <2>4. o \in Sells <=> o \notin Buys
    BY DEF Sells
  <2>5. account'.balance = IF o \in Buys THEN account.balance - c ELSE account.balance + c
    BY <1>3 DEF Ledger!Fill
  <2>6. account'.balance + B' + W' = OpeningBalance + S' + D'
    <3> HIDE DEF B, S, W, D, c
    <3> QED BY <1>c, <1>n, <2>1, <2>2, <2>3, <2>4, <2>5
  <2> QED BY <2>6 DEF Ledger!CashConserved
<1>4. ASSUME NEW o \in Orders, NEW final \in {"REJECTED", "CANCELLED"}, Ledger!Close(o, final)
      PROVE  Ledger!CashConserved'
  BY <1>1, <1>4, <1>t DEF Ledger!Close, Ledger!TypeOK
<1>5. ASSUME NEW t \in Transfers, Ledger!Request(t) PROVE Ledger!CashConserved'
  BY <1>1, <1>5, <1>t DEF Ledger!Request, Ledger!TypeOK
<1>6. ASSUME NEW t \in Transfers, Ledger!Succeed(t) PROVE Ledger!CashConserved'
  <2>1. Amount[t] \in Nat /\ Direction[t] \in {"DEPOSIT", "WITHDRAWAL"}
    BY AmountsNat, TransfersAssumption
  <2>2. /\ W' = W + (IF Direction[t] = "WITHDRAWAL" THEN Amount[t] ELSE 0)
        /\ D' = D + (IF Direction[t] = "DEPOSIT" THEN Amount[t] ELSE 0)
    BY <1>6, <1>t, SucceededGrows
  <2>3. B' = B /\ S' = S
    BY <1>6, <1>t, FilledUnchanged DEF Ledger!Succeed
  <2>4. account'.balance = IF Direction[t] = "WITHDRAWAL" THEN account.balance - Amount[t] ELSE account.balance + Amount[t]
    BY <1>6 DEF Ledger!Succeed
  <2>5. account'.balance + B' + W' = OpeningBalance + S' + D'
    <3> HIDE DEF B, S, W, D
    <3> QED BY <1>c, <1>n, <2>1, <2>2, <2>3, <2>4
  <2> QED BY <2>5 DEF Ledger!CashConserved
<1>7. ASSUME NEW t \in Transfers, Ledger!Fail(t) PROVE Ledger!CashConserved'
  BY <1>1, <1>7, <1>t DEF Ledger!Fail, Ledger!TypeOK
<1>8. CASE UNCHANGED Ledger!vars
  BY <1>1, <1>8 DEF Ledger!vars
<1> QED
  BY <1>2, <1>3, <1>4, <1>5, <1>6, <1>7, <1>8 DEF Ledger!Next

\* At first nothing has moved.
LEMMA InitConserves == Ledger!Init => Ledger!CashConserved
<1> SUFFICES ASSUME Ledger!Init PROVE Ledger!CashConserved
  OBVIOUS
<1>1. Ledger!Filled(Buys) = {} /\ Ledger!Filled(Sells) = {} /\ \A d : Ledger!Succeeded(d) = {}
  BY DEF Ledger!Init, Ledger!Filled, Ledger!Succeeded, Buys, Sells
<1>2. OpeningBalance + 0 + 0 = OpeningBalance + 0 + 0
  OBVIOUS
<1> QED
  BY <1>1, <1>2, TotalEmpty DEF Ledger!Init, Ledger!CashConserved

\* The balance is always the opening balance and what the fills and the
\* transfers moved.
THEOREM LedgerConserves == Ledger!Spec => []Ledger!CashConserved
<1>1. Ledger!Init => IInv /\ Ledger!CashConserved
  BY InitIInv, InitConserves
<1>2. IInv /\ Ledger!CashConserved /\ [Ledger!Next]_(Ledger!vars) => IInv' /\ Ledger!CashConserved'
  BY StepIInv, StepConserves
<1> QED
  BY <1>1, <1>2, PTL DEF Ledger!Spec
-----------------------------------------------------------------------------
(* The account. *)

HIDE SameTerms

\* Everything blocked was asked for in whole paise.
WholeBlocked == account.blocked % 100 = 0

\* A place transaction that has passed its checks: the order has no row yet,
\* and while the version it read stands, its cash is still there, but for what
\* the rounding of the balance added.
PlaceInv ==
    \A o \in Orders : place[o].step = "checked" =>
        /\ status[o] = "ABSENT"
        /\ place[o].version <= account.version
        /\ (o \in Buys /\ VersionStill(place[o].version))
              => account.blocked + Reservation[o] <= account.balance + 50

\* A cancellation holds its order's row from the guarded UPDATE on.
CancelInv == \A o \in Orders : cancel[o].step = "claimed" => status[o] = "NEW"

\* What an executor knows of the order in its hands.
ExecInv ==
    \A e \in Executors :
        /\ exec[e].step \in {"idle", "found", "fetched"} => exec[e].outcome = "NONE"
        /\ exec[e].step # "idle" =>
             /\ exec[e].order \in Orders
             /\ status[exec[e].order] # "ABSENT"
             /\ exec[e].outcome = "FILL" =>
                  exec[e].price \in Prices /\ Marketable(exec[e].order, exec[e].price)
        /\ (exec[e].step = "fetched" /\ exec[e].order \in Buys /\ status[exec[e].order] = "NEW")
             => exec[e].spendable >= Reservation[exec[e].order]

\* A row has one lock: who claimed an order finds it NEW at the commit.
LockInv ==
    \A e \in Executors : exec[e].step = "claimed" =>
        /\ status[exec[e].order] = "NEW"
        /\ cancel[exec[e].order].step # "claimed"
        /\ \A f \in Executors : (f # e /\ exec[f].step = "claimed") => exec[f].order # exec[e].order

Local == PlaceInv /\ CancelInv /\ ExecInv /\ LockInv /\ FundedBuysNeverRefused

Inv == TypeOK /\ Local /\ IInv /\ WholeBlocked

-----------------------------------------------------------------------------
(* Each commit is a step of the ledger. *)

\* The committed INSERT of an order takes it: the CHECK has seen its cash.
LEMMA PlaceCommitAccepts ==
    ASSUME Inv, NEW o \in Orders, PlaceCommit(o) PROVE Ledger!Accept(o)
<1>1. status[o] = "ABSENT"
  BY DEF Inv, Local, PlaceInv, PlaceCommit
<1>2. o \in Buys => account.balance >= account.blocked + Reservation[o]
  <2>1. \A a, b, c \in Nat : a + b <= c => c >= a + b
    OBVIOUS
  <2>2. account.blocked \in Nat /\ account.balance \in Nat /\ Reservation[o] \in Nat
    BY AmountsNat DEF Inv, TypeOK
  <2> QED BY <2>1, <2>2 DEF PlaceCommit, BlockWithinBalance
<1>3. /\ account'.blocked = account.blocked + Released(o)
      /\ account'.balance = account.balance
  BY DEF PlaceCommit, Moved, Released, Inv, TypeOK
<1> QED
  BY <1>1, <1>2, <1>3, SameTerms DEF Ledger!Accept, PlaceCommit, InsertAccepted, KeyUnused

\* A committed cancellation closes the order it had locked.
LEMMA CancelCommitCloses ==
    ASSUME Inv, NEW o \in Orders, CancelCommit(o) PROVE Ledger!Close(o, "CANCELLED")
<1>1. status[o] = "NEW"
  BY DEF Inv, Local, CancelInv, CancelCommit
<1>2. /\ account'.blocked = account.blocked - Released(o)
      /\ account'.balance = account.balance
  BY DEF CancelCommit, Moved, Released, Inv, TypeOK
<1> QED
  BY <1>1, <1>2, SameTerms DEF Ledger!Close, CancelCommit

\* A settlement fills the order at a marketable price, or closes it.
LEMMA SettleResolves ==
    ASSUME Inv, NEW e \in Executors, Settle(e)
    PROVE  LET o == exec[e].order IN
           /\ o \in Orders
           /\ \/ exec[e].price \in Prices /\ Ledger!Fill(o, exec[e].price)
              \/ Ledger!Close(o, "REJECTED")
<1> DEFINE o == exec[e].order
           p == exec[e].price
<1>1. o \in Orders /\ status[o] = "NEW"
  BY DEF Inv, Local, ExecInv, LockInv, Settle
<1>2. CASE exec[e].outcome = "FILL"
  <2>1. p \in Prices /\ Marketable(o, p)
    BY <1>2 DEF Inv, Local, ExecInv, Settle
  <2>2. /\ account'.balance = IF o \in Buys THEN account.balance - Consideration(o, p)
                                            ELSE account.balance + Consideration(o, p)
        /\ account'.blocked = account.blocked - Released(o)
    BY <1>2 DEF Settle, MovesCash, Moved
  <2>3. status' = [status EXCEPT ![o] = "FILLED"] /\ fillPrice' = [fillPrice EXCEPT ![o] = p]
    BY <1>2 DEF Settle
  <2>4. Ledger!Fill(o, p)
    BY <1>1, <2>1, <2>2, <2>3, SameTerms DEF Ledger!Fill, Settle
  <2> QED BY <1>1, <2>1, <2>4
<1>3. CASE exec[e].outcome # "FILL"
  <2>1. account'.balance = account.balance /\ account'.blocked = account.blocked - Released(o)
    BY <1>3 DEF Settle, MovesCash, Moved, Released, Inv, TypeOK
  <2>2. status' = [status EXCEPT ![o] = "REJECTED"] /\ fillPrice' = fillPrice
    BY <1>3 DEF Settle
  <2>3. Ledger!Close(o, "REJECTED")
    BY <1>1, <2>1, <2>2, SameTerms DEF Ledger!Close, Settle
  <2> QED BY <1>1, <2>3
<1> QED
  BY <1>2, <1>3

\* A transfer's request and decision are the ledger's.
LEMMA TransferSteps ==
    ASSUME Inv, NEW t \in Transfers
    PROVE  /\ RequestTransfer(t) => Ledger!Request(t)
           /\ DecideTransfer(t, "SUCCESS") => Ledger!Succeed(t)
           /\ DecideTransfer(t, "FAILED") => Ledger!Fail(t)
<1>0. Amount[t] \in Nat /\ Direction[t] \in {"DEPOSIT", "WITHDRAWAL"}
      /\ account.balance \in Nat /\ account.blocked \in Nat
  BY AmountsNat, TransfersAssumption DEF Inv, TypeOK
<1>1. ASSUME RequestTransfer(t) PROVE Ledger!Request(t)
  <2>1. account'.balance = account.balance
        /\ account'.blocked = IF Direction[t] = "WITHDRAWAL" THEN account.blocked + Amount[t]
                                                            ELSE account.blocked
    BY <1>1 DEF RequestTransfer, Moved
  <2>2. Direction[t] = "WITHDRAWAL" => account.balance >= account.blocked + Amount[t]
    BY <1>0, <1>1 DEF RequestTransfer
  <2> QED BY <1>1, <2>1, <2>2 DEF RequestTransfer, Ledger!Request
<1>2. ASSUME DecideTransfer(t, "SUCCESS") PROVE Ledger!Succeed(t)
  BY <1>0, <1>2 DEF DecideTransfer, Undecided, Moved, Ledger!Succeed
<1>3. ASSUME DecideTransfer(t, "FAILED") PROVE Ledger!Fail(t)
  BY <1>0, <1>3 DEF DecideTransfer, Undecided, Moved, Ledger!Fail
<1> QED
  BY <1>1, <1>2, <1>3

\* The steps that commit nothing leave the rows alone.
Reads ==
    \/ \E o \in Orders : PlaceCheck(o) \/ PlaceRollBack(o) \/ CancelClaim(o) \/ CancelRollBack(o)
    \/ OrderServiceCrash
    \/ \E e \in Executors :
          \/ \E o \in Orders : FindOrder(e, o)
          \/ FindAccount(e) \/ Decide(e) \/ Claim(e) \/ AlreadySettled(e)
          \/ LockLost(e) \/ ExecutorCrash(e)

LEMMA ReadsWriteNothing == Reads => UNCHANGED rows
  BY DEF Reads, PlaceCheck, PlaceRollBack, CancelClaim, CancelRollBack, OrderServiceCrash,
         FindOrder, FindAccount, Decide, Claim, AlreadySettled, LockLost, ExecutorCrash

\* A step is a read, a commit of one of five kinds, or nothing at all.
LEMMA StepKinds ==
    ASSUME [Next]_vars
    PROVE  \/ Reads
           \/ \E o \in Orders : PlaceCommit(o) \/ CancelCommit(o)
           \/ \E t \in Transfers :
                 RequestTransfer(t) \/ \E answer \in {"SUCCESS", "FAILED"} : DecideTransfer(t, answer)
           \/ \E e \in Executors : Settle(e)
           \/ UNCHANGED vars
  BY DEF Next, Reads

\* Whatever anyone read before, every step is one of the ledger's or leaves it be.
LEMMA Simulates == Inv /\ [Next]_vars => [Ledger!Next]_(Ledger!vars)
<1> SUFFICES ASSUME Inv, [Next]_vars PROVE [Ledger!Next]_(Ledger!vars)
  OBVIOUS
<1>1. CASE Reads \/ UNCHANGED vars
  BY <1>1, ReadsWriteNothing DEF vars, rows, Ledger!vars
<1>2. ASSUME NEW o \in Orders, PlaceCommit(o) PROVE Ledger!Next
  BY <1>2, PlaceCommitAccepts DEF Ledger!Next
<1>3. ASSUME NEW o \in Orders, CancelCommit(o) PROVE Ledger!Next
  BY <1>3, CancelCommitCloses DEF Ledger!Next
<1>4. ASSUME NEW t \in Transfers, RequestTransfer(t) PROVE Ledger!Next
  BY <1>4, TransferSteps DEF Ledger!Next
<1>5. ASSUME NEW t \in Transfers, NEW answer \in {"SUCCESS", "FAILED"}, DecideTransfer(t, answer)
      PROVE  Ledger!Next
  BY <1>5, TransferSteps DEF Ledger!Next
<1>6. ASSUME NEW e \in Executors, Settle(e) PROVE Ledger!Next
  BY <1>6, SettleResolves DEF Ledger!Next
<1> QED
  BY <1>1, <1>2, <1>3, <1>4, <1>5, <1>6, StepKinds
-----------------------------------------------------------------------------
(* What each step leaves of the local invariant. *)

\* The account row after a step, once the ledger has shown its cash sound.
AccountMoves ==
    \/ account' = account
    \/ \E b, r \in Nat : account' = [balance |-> b, blocked |-> r, version |-> account.version + 1]

\* A commit of the account makes stale every version read before it.
LEMMA MovesMakeStale ==
    ASSUME TypeOK, AccountMoves, PlaceInv, place' \in [Orders -> Tx],
           \A o \in Orders : place'[o].step = "checked" =>
               place'[o] = place[o] /\ status'[o] = status[o]
    PROVE  PlaceInv' /\ account' \in [balance : Nat, blocked : Nat, version : Nat]
<1>1. account' \in [balance : Nat, blocked : Nat, version : Nat]
  BY DEF AccountMoves, TypeOK
<1>2. CASE account' = account
  BY <1>1, <1>2 DEF PlaceInv, VersionStill
<1>3. CASE account' # account
  <2>1. account'.version = account.version + 1
    BY <1>3 DEF AccountMoves
  <2>2. ASSUME NEW o \in Orders, place'[o].step = "checked"
        PROVE  /\ status'[o] = "ABSENT"
               /\ place'[o].version <= account'.version
               /\ account'.version # place'[o].version
    <3>1. status[o] = "ABSENT" /\ place[o].version <= account.version
      BY <2>2 DEF PlaceInv
    <3>2. place[o].version \in Nat /\ account.version \in Nat
      BY DEF TypeOK, Tx
    <3> QED BY <2>1, <2>2, <3>1, <3>2
  <2> QED BY <1>1, <2>2 DEF PlaceInv, VersionStill
<1> QED
  BY <1>2, <1>3

\* A commit is sound for the account when the ledger's invariant survives it.
LEMMA MovedIsSound ==
    ASSUME NEW b, NEW r, account' = Moved(b, r), IInv' PROVE AccountMoves
  BY DEF Moved, AccountMoves, IInv, Ledger!TypeOK

\* Reads by the order service.
LEMMA OrderServiceReads ==
    ASSUME Inv, NEW o \in Orders,
           PlaceCheck(o) \/ PlaceRollBack(o) \/ CancelClaim(o) \/ CancelRollBack(o)
    PROVE  TypeOK' /\ Local'
<1> USE DEF Inv
<1>r. AmountsNat!1
  BY AmountsNat
<1>n. account.balance \in Nat /\ account.blocked \in Nat /\ account.version \in Nat
  BY DEF TypeOK
<1>1. CASE PlaceCheck(o)
  <2>1. /\ place' = [place EXCEPT ![o] = [step |-> "checked", version |-> account.version]]
        /\ UNCHANGED <<account, status, fillPrice, transfer, position, cancel, exec>>
        /\ status[o] = "ABSENT"
        /\ o \in Buys => Rounded(account.balance) - Rounded(account.blocked) >= Rounded(Reservation[o])
    BY <1>1 DEF PlaceCheck, rows
  <2>2. TypeOK'
    BY <1>n, <2>1 DEF TypeOK, Tx
  <2>3. o \in Buys => account.blocked + Reservation[o] <= account.balance + 50
    <3>1. /\ Rounded(account.blocked) = account.blocked
          /\ Rounded(account.balance) \in Nat /\ Rounded(account.balance) <= account.balance + 50
      BY <1>n, RoundedBounds DEF WholeBlocked
    <3>2. Reservation[o] \in Nat /\ Rounded(Reservation[o]) = Reservation[o]
      BY <1>r, AmountsWhole, RoundedBounds
    <3>3. \A b, r, k, v \in Nat : b - k >= v /\ b <= r + 50 => k + v <= r + 50
      OBVIOUS
    <3> QED BY <1>n, <2>1, <3>1, <3>2, <3>3
  <2>4. PlaceInv'
    BY <1>n, <2>1, <2>3 DEF TypeOK, Local, PlaceInv, VersionStill
  <2> QED BY <2>1, <2>2, <2>4 DEF Local, CancelInv, ExecInv, LockInv, FundedBuysNeverRefused
<1>2. CASE PlaceRollBack(o)
  <2>1. /\ place' = [place EXCEPT ![o] = TxIdle]
        /\ UNCHANGED <<account, status, fillPrice, transfer, position, cancel, exec>>
    BY <1>2 DEF PlaceRollBack, rows
  <2>2. TypeOK'
    BY <2>1 DEF TypeOK, Tx, TxIdle, None
  <2>3. PlaceInv'
    BY <2>1 DEF TypeOK, Local, PlaceInv, VersionStill, TxIdle
  <2> QED BY <2>1, <2>2, <2>3 DEF Local, CancelInv, ExecInv, LockInv, FundedBuysNeverRefused
<1>3. CASE CancelClaim(o)
  <2>1. /\ cancel' = [cancel EXCEPT ![o] = [step |-> "claimed", version |-> account.version]]
        /\ UNCHANGED <<account, status, fillPrice, transfer, position, place, exec>>
        /\ status[o] = "NEW" /\ ~Locked(o)
    BY <1>3 DEF CancelClaim, Claimable, rows
  <2>2. TypeOK'
    BY <1>n, <2>1 DEF TypeOK, Tx
  <2>3. CancelInv' /\ LockInv'
    BY <2>1 DEF TypeOK, Local, CancelInv, LockInv, Locked
  <2> QED BY <2>1, <2>2, <2>3 DEF Local, PlaceInv, VersionStill, ExecInv, FundedBuysNeverRefused
<1>4. CASE CancelRollBack(o)
  <2>1. /\ cancel' = [cancel EXCEPT ![o] = TxIdle]
        /\ UNCHANGED <<account, status, fillPrice, transfer, position, place, exec>>
    BY <1>4 DEF CancelRollBack, rows
  <2>2. TypeOK'
    BY <2>1 DEF TypeOK, Tx, TxIdle, None
  <2>3. CancelInv' /\ LockInv'
    BY <2>1 DEF TypeOK, Local, CancelInv, LockInv, TxIdle
  <2> QED BY <2>1, <2>2, <2>3 DEF Local, PlaceInv, VersionStill, ExecInv, FundedBuysNeverRefused
<1> QED
  BY <1>1, <1>2, <1>3, <1>4

\* A restart of the order service forgets its transactions.
LEMMA CrashLocal == ASSUME Inv, OrderServiceCrash PROVE TypeOK' /\ Local'
<1> USE DEF Inv
<1>1. /\ place' = [o \in Orders |-> TxIdle] /\ cancel' = [o \in Orders |-> TxIdle]
      /\ UNCHANGED <<account, status, fillPrice, transfer, position, exec>>
  BY DEF OrderServiceCrash, rows
<1>2. TypeOK'
  BY <1>1 DEF TypeOK, Tx, TxIdle, None
<1>3. PlaceInv' /\ CancelInv'
  BY <1>1 DEF PlaceInv, CancelInv, TxIdle
<1>4. LockInv'
  <2>1. \A e \in Executors : exec[e].step = "claimed" => exec[e].order \in Orders
    BY DEF Local, ExecInv
  <2> QED BY <1>1, <2>1 DEF Local, LockInv, TxIdle
<1> QED
  BY <1>1, <1>2, <1>3, <1>4 DEF Local, ExecInv, FundedBuysNeverRefused

\* A working BUY's own reservation is part of what it may spend.
LEMMA SpendableCoversReservation ==
    ASSUME Inv, NEW o \in Orders
    PROVE  /\ SpendableBy(o) \in Nat
           /\ (o \in Buys /\ status[o] = "NEW") => SpendableBy(o) >= Reservation[o]
<1>n. account.balance \in Nat /\ account.blocked \in Nat /\ Reservation[o] \in Nat
  BY AmountsNat DEF Inv, TypeOK
<1>1. account.blocked <= account.balance
  BY DEF Inv, IInv, Ledger!AccountWithinLimits
<1>0. /\ Rounded(account.blocked) = account.blocked
      /\ Rounded(account.balance) \in Nat /\ account.blocked <= Rounded(account.balance)
  BY <1>n, <1>1, RoundedBounds DEF Inv, WholeBlocked
<1>2. SpendableBy(o) \in Nat
  BY <1>n, <1>0 DEF SpendableBy
<1>3. ASSUME o \in Buys, status[o] = "NEW" PROVE SpendableBy(o) >= Reservation[o]
  <2>2. o \in Ledger!WorkingBuys
    BY <1>3, SameTerms DEF Ledger!WorkingBuys
  <2>3. Ledger!ReservationsBacked
    BY DEF Inv, IInv
  <2>4. account.blocked >= Reservation[o]
    BY <2>2, <2>3, ReservationIsBlocked
  <2> QED BY <1>n, <1>0, <2>4 DEF SpendableBy
<1> QED
  BY <1>2, <1>3

\* What an executor decides on is what it has in hand.
LEMMA ExecutorReads ==
    ASSUME Inv, NEW e \in Executors,
           \/ \E o \in Orders : FindOrder(e, o)
           \/ FindAccount(e) \/ Decide(e) \/ Claim(e) \/ AlreadySettled(e)
           \/ LockLost(e) \/ ExecutorCrash(e)
    PROVE  TypeOK' /\ Local'
<1> USE DEF Inv
<1>t. \A f \in Executors : exec[f] \in ExecState
  BY DEF TypeOK
<1>n. account.version \in Nat
  BY DEF TypeOK
<1>s. ASSUME exec' \in [Executors -> ExecState], ExecInv', LockInv', FundedBuysNeverRefused',
             UNCHANGED <<rows, place, cancel>>
      PROVE  TypeOK' /\ Local'
  BY <1>s DEF rows, TypeOK, Local, PlaceInv, VersionStill, CancelInv
<1>i. Idle \in ExecState /\ Idle.outcome = "NONE"
  <2>1. 0 \in 0..MaxLockAttempts
    BY ExecutorsAssumption
  <2> QED BY <2>1 DEF Idle, ExecState, None
<1>0. ASSUME exec' = [exec EXCEPT ![e] = Idle], UNCHANGED <<rows, place, cancel>>
      PROVE  TypeOK' /\ Local'
  <2>1. exec' \in [Executors -> ExecState]
    BY <1>0, <1>i DEF TypeOK
  <2>2. ExecInv' /\ LockInv' /\ FundedBuysNeverRefused'
    BY <1>0 DEF rows, TypeOK, Local, ExecInv, LockInv, FundedBuysNeverRefused, Idle
  <2> QED BY <1>0, <1>s, <2>1, <2>2
<1>1. ASSUME NEW o \in Orders, FindOrder(e, o) PROVE TypeOK' /\ Local'
  <2> DEFINE new == [Idle EXCEPT !.step = "found", !.order = o]
  <2>1. new \in ExecState /\ new.step = "found" /\ new.order = o /\ new.outcome = "NONE"
    BY <1>i DEF ExecState
  <2>2. exec' = [exec EXCEPT ![e] = new] /\ UNCHANGED <<rows, place, cancel>> /\ status[o] = "NEW"
    BY <1>1 DEF FindOrder
  <2> HIDE DEF new
  <2>3. exec' \in [Executors -> ExecState]
    BY <2>1, <2>2 DEF TypeOK
  <2>4. ExecInv' /\ LockInv' /\ FundedBuysNeverRefused'
    BY <2>1, <2>2 DEF rows, TypeOK, Local, ExecInv, LockInv, FundedBuysNeverRefused
  <2> QED BY <1>s, <2>2, <2>3, <2>4
<1>2. CASE FindAccount(e)
  <2> DEFINE o == exec[e].order
             new == [exec[e] EXCEPT !.step = "fetched", !.spendable = SpendableBy(o)]
  <2>1. /\ exec' = [exec EXCEPT ![e] = new] /\ UNCHANGED <<rows, place, cancel>>
        /\ exec[e].step = "found"
    BY <1>2, <1>t DEF FindAccount, TypeOK
  <2>2. o \in Orders /\ exec[e].outcome = "NONE"
    BY <2>1 DEF Local, ExecInv
  <2>3. new \in ExecState /\ new.step = "fetched" /\ new.order = o /\ new.outcome = "NONE"
        /\ new.spendable = SpendableBy(o)
    BY <1>t, <2>2, SpendableCoversReservation DEF ExecState
  <2>4. o \in Buys /\ status[o] = "NEW" => new.spendable >= Reservation[o]
    BY <2>2, <2>3, SpendableCoversReservation
  <2>5. status[o] # "ABSENT"
    BY <2>1 DEF Local, ExecInv
  <2> HIDE DEF new
  <2>6. ExecInv' /\ LockInv' /\ FundedBuysNeverRefused'
    BY <2>1, <2>2, <2>3, <2>4, <2>5 DEF rows, TypeOK, Local, ExecInv, LockInv, FundedBuysNeverRefused
  <2>7. exec' \in [Executors -> ExecState]
    BY <2>1, <2>3 DEF TypeOK
  <2> QED BY <1>s, <2>1, <2>6, <2>7
<1>3. CASE Decide(e)
  <2> DEFINE o == exec[e].order
  <2>1. exec[e].step = "fetched" /\ o \in Orders /\ status[o] # "ABSENT"
        /\ UNCHANGED <<rows, place, cancel>>
    BY <1>3 DEF Decide, Local, ExecInv
  <2>2. \E outcome \in {"FILL"} \cup RejectReasons, price \in Prices \cup {0} :
           /\ Decided(e, outcome, price)
           /\ outcome = "FILL" => price \in Prices /\ Marketable(o, price)
           /\ outcome = "INSUFFICIENT_FUNDS" =>
                o \in Buys /\ \E p \in Prices : Marketable(o, p) /\ ~(exec[e].spendable >= Consideration(o, p))
    BY <1>3 DEF Decide, AtExecution, RejectReasons
  <2>3. PICK outcome \in {"FILL"} \cup RejectReasons, price \in Prices \cup {0} :
           /\ Decided(e, outcome, price)
           /\ outcome = "FILL" => price \in Prices /\ Marketable(o, price)
           /\ outcome = "INSUFFICIENT_FUNDS" =>
                o \in Buys /\ \E p \in Prices : Marketable(o, p) /\ ~(exec[e].spendable >= Consideration(o, p))
    BY <2>2
  <2>4. outcome = "INSUFFICIENT_FUNDS" => status[o] # "NEW"
    <3>1. SUFFICES ASSUME outcome = "INSUFFICIENT_FUNDS", status[o] = "NEW" PROVE FALSE
      OBVIOUS
    <3>2. PICK p \in Prices : Marketable(o, p) /\ ~(exec[e].spendable >= Consideration(o, p))
      BY <2>3, <3>1
    <3>3. o \in Buys
      BY <2>3, <3>1
    <3>4. Consideration(o, p) <= Reservation[o] /\ Consideration(o, p) \in Nat /\ Reservation[o] \in Nat
      BY <2>1, <3>2, <3>3, AmountsNat, CostWithinReservation
    <3>5. exec[e].spendable >= Reservation[o] /\ exec[e].spendable \in Nat
      BY <1>t, <2>1, <3>1, <3>3 DEF Local, ExecInv, ExecState
    <3> QED BY <3>2, <3>4, <3>5
  <2> DEFINE new == [Idle EXCEPT !.step = "decided", !.order = o, !.outcome = outcome, !.price = price]
  <2>5. new \in ExecState /\ new.step = "decided" /\ new.order = o
        /\ new.outcome = outcome /\ new.price = price
    BY <1>i, <2>1 DEF ExecState
  <2>6. exec' = [exec EXCEPT ![e] = new]
    BY <2>3 DEF Decided
  <2> HIDE DEF new
  <2>7. exec' \in [Executors -> ExecState]
    BY <2>5, <2>6 DEF TypeOK
  <2>8. ExecInv' /\ LockInv' /\ FundedBuysNeverRefused'
    BY <2>1, <2>3, <2>4, <2>5, <2>6 DEF rows, TypeOK, Local, ExecInv, LockInv, FundedBuysNeverRefused
  <2> QED BY <1>s, <2>1, <2>7, <2>8
<1>4. CASE Claim(e)
  <2> DEFINE o == exec[e].order
  <2>1. PICK new : /\ exec' = [exec EXCEPT ![e] = new] /\ UNCHANGED <<rows, place, cancel>>
                   /\ new \in ExecState
                   /\ new.step = "claimed" /\ new.order = o
                   /\ new.outcome = exec[e].outcome /\ new.price = exec[e].price
    <3> DEFINE m == IF MovesCash(e) THEN account.version ELSE None
               c == [exec[e] EXCEPT !.step = "claimed", !.version = m, !.attempts = 1]
    <3>1. m \in Nat /\ 1 \in 0..MaxLockAttempts
      BY <1>n, ExecutorsAssumption DEF None
    <3>2. exec' = [exec EXCEPT ![e] = c]
      BY <1>4, <1>t DEF Claim, TypeOK
    <3>3. c \in ExecState /\ c.step = "claimed" /\ c.order = o
          /\ c.outcome = exec[e].outcome /\ c.price = exec[e].price
      <4> HIDE DEF m
      <4> QED BY <1>t, <3>1 DEF ExecState
    <3> QED BY <1>4, <3>2, <3>3 DEF Claim
  <2>2. exec[e].step = "decided" /\ status[o] = "NEW" /\ ~Locked(o)
    BY <1>4 DEF Claim, Claimable
  <2>3. exec' \in [Executors -> ExecState]
    BY <2>1 DEF TypeOK
  <2>4. ExecInv' /\ FundedBuysNeverRefused'
    BY <2>1, <2>2 DEF rows, TypeOK, Local, ExecInv, FundedBuysNeverRefused
  <2>5. LockInv'
    BY <2>1, <2>2 DEF rows, TypeOK, Local, LockInv, Locked
  <2> QED BY <1>s, <2>1, <2>3, <2>4, <2>5
<1>5. CASE AlreadySettled(e) \/ ExecutorCrash(e)
  BY <1>0, <1>5 DEF AlreadySettled, ExecutorCrash
<1>6. CASE LockLost(e)
  <2>1. CASE exec[e].attempts < MaxLockAttempts
    <3>1. PICK new : /\ exec' = [exec EXCEPT ![e] = new] /\ UNCHANGED <<rows, place, cancel>>
                     /\ new \in ExecState
                     /\ new.step = "claimed" /\ new.order = exec[e].order
                     /\ new.outcome = exec[e].outcome /\ new.price = exec[e].price
      <4> DEFINE c == [exec[e] EXCEPT !.version = account.version, !.attempts = @ + 1]
      <4>1. exec' = [exec EXCEPT ![e] = c]
        BY <1>6, <1>t, <2>1 DEF LockLost, TypeOK
      <4>2. exec[e].attempts + 1 \in 0..MaxLockAttempts
        BY <1>t, <2>1, ExecutorsAssumption DEF ExecState
      <4>3. c \in ExecState /\ c.step = exec[e].step /\ c.order = exec[e].order
            /\ c.outcome = exec[e].outcome /\ c.price = exec[e].price
        BY <1>n, <1>t, <4>2 DEF ExecState
      <4> QED BY <1>6, <4>1, <4>3 DEF LockLost
    <3>2. exec[e].step = "claimed"
      BY <1>6 DEF LockLost
    <3>3. exec' \in [Executors -> ExecState]
      BY <3>1 DEF TypeOK
    <3>4. ExecInv' /\ LockInv' /\ FundedBuysNeverRefused'
      BY <3>1, <3>2 DEF rows, TypeOK, Local, ExecInv, LockInv, FundedBuysNeverRefused
    <3> QED BY <1>s, <3>1, <3>3, <3>4
  <2>2. CASE ~(exec[e].attempts < MaxLockAttempts)
    BY <1>0, <1>6, <2>2 DEF LockLost
  <2> QED BY <2>1, <2>2
<1> QED
  BY <1>1, <1>2, <1>3, <1>4, <1>5, <1>6

\* The commit of a placed order.
LEMMA PlaceCommitLocal ==
    ASSUME Inv, IInv', NEW o \in Orders, PlaceCommit(o) PROVE TypeOK' /\ Local'
<1> USE DEF Inv
<1>1. /\ place' = [place EXCEPT ![o] = TxIdle] /\ place[o].step = "checked"
      /\ status' = [status EXCEPT ![o] = "NEW"] /\ status[o] = "ABSENT"
      /\ UNCHANGED <<fillPrice, transfer, position, cancel, exec>>
  BY DEF PlaceCommit, Local, PlaceInv
<1>2. AccountMoves
  BY MovedIsSound DEF PlaceCommit, AccountMoves
<1>3. place' \in [Orders -> Tx]
  BY <1>1 DEF TypeOK, Tx, TxIdle, None
<1>4. PlaceInv' /\ account' \in [balance : Nat, blocked : Nat, version : Nat]
  BY <1>1, <1>2, <1>3, MovesMakeStale DEF TypeOK, Local, TxIdle
<1>5. TypeOK'
  BY <1>1, <1>3, <1>4 DEF TypeOK, OrderStatus
<1>6. CancelInv' /\ LockInv' /\ ExecInv'
  BY <1>1 DEF TypeOK, Local, CancelInv, ExecInv, LockInv
<1>7. FundedBuysNeverRefused'
  <2>1. ASSUME NEW e \in Executors, exec[e].outcome = "INSUFFICIENT_FUNDS" PROVE exec[e].order # o
    BY <1>1, <2>1 DEF Local, ExecInv
  <2> QED BY <1>1, <2>1 DEF TypeOK, Local, FundedBuysNeverRefused
<1> QED
  BY <1>4, <1>5, <1>6, <1>7 DEF Local

\* An order that is NEW moves on: nobody's knowledge of another order changes.
LEMMA ResolvedLocal ==
    ASSUME Inv, AccountMoves, NEW o \in Orders, status[o] = "NEW",
           NEW final \in {"FILLED", "REJECTED", "CANCELLED"},
           status' = [status EXCEPT ![o] = final], UNCHANGED <<transfer, place>>
    PROVE  /\ PlaceInv' /\ status' \in [Orders -> OrderStatus]
           /\ account' \in [balance : Nat, blocked : Nat, version : Nat]
<1> USE DEF Inv
<1>1. \A p \in Orders : place'[p].step = "checked" => place'[p] = place[p] /\ status'[p] = status[p]
  BY DEF Local, PlaceInv, TypeOK
<1>2. place' \in [Orders -> Tx]
  BY DEF TypeOK
<1>3. PlaceInv' /\ account' \in [balance : Nat, blocked : Nat, version : Nat]
  BY <1>1, <1>2, MovesMakeStale DEF Local
<1> QED
  BY <1>3 DEF TypeOK, OrderStatus

\* The commit of a cancellation.
LEMMA CancelCommitLocal ==
    ASSUME Inv, IInv', NEW o \in Orders, CancelCommit(o) PROVE TypeOK' /\ Local'
<1> USE DEF Inv
<1>1. /\ cancel' = [cancel EXCEPT ![o] = TxIdle] /\ cancel[o].step = "claimed"
      /\ status' = [status EXCEPT ![o] = "CANCELLED"] /\ status[o] = "NEW"
      /\ UNCHANGED <<fillPrice, transfer, position, place, exec>>
  BY DEF CancelCommit, Local, CancelInv
<1>2. AccountMoves
  BY MovedIsSound DEF CancelCommit, AccountMoves
<1>3. /\ PlaceInv' /\ status' \in [Orders -> OrderStatus]
      /\ account' \in [balance : Nat, blocked : Nat, version : Nat]
  BY <1>1, <1>2, ResolvedLocal
<1>4. TypeOK'
  BY <1>1, <1>3 DEF TypeOK, Tx, TxIdle, None
<1>5. CancelInv'
  BY <1>1 DEF TypeOK, Local, CancelInv, TxIdle
<1>6. LockInv'
  <2>1. \A e \in Executors : exec[e].step = "claimed" => exec[e].order # o /\ exec[e].order \in Orders
    BY <1>1 DEF Local, LockInv, ExecInv
  <2> QED BY <1>1, <2>1 DEF TypeOK, Local, LockInv, TxIdle
<1>7. ExecInv' /\ FundedBuysNeverRefused'
  BY <1>1 DEF TypeOK, Local, ExecInv, FundedBuysNeverRefused
<1> QED
  BY <1>3, <1>4, <1>5, <1>6, <1>7 DEF Local

\* The request or the decision of a transfer.
LEMMA TransferLocal ==
    ASSUME Inv, IInv', NEW t \in Transfers,
           RequestTransfer(t) \/ \E answer \in {"SUCCESS", "FAILED"} : DecideTransfer(t, answer)
    PROVE  TypeOK' /\ Local'
<1> USE DEF Inv
<1>1. /\ transfer' \in [Transfers -> TransferStatus]
      /\ UNCHANGED <<status, fillPrice, position, place, cancel, exec>>
  BY DEF RequestTransfer, DecideTransfer, TypeOK, TransferStatus
<1>2. AccountMoves
  BY MovedIsSound DEF RequestTransfer, DecideTransfer, AccountMoves
<1>3. PlaceInv' /\ account' \in [balance : Nat, blocked : Nat, version : Nat]
  <2>1. place' \in [Orders -> Tx]
    BY <1>1 DEF TypeOK
  <2> QED BY <1>1, <1>2, <2>1, MovesMakeStale DEF Local
<1> QED
  BY <1>1, <1>3 DEF TypeOK, Local, CancelInv, ExecInv, LockInv, FundedBuysNeverRefused

\* A holding never goes below nothing.
LEMMA HoldingNat ==
    ASSUME TypeOK, NEW o \in Orders PROVE PositionAfterFill(o) \in [Instruments -> Nat]
<1>1. InstrumentOf[o] \in Instruments /\ Quantity[o] \in Nat
  BY OrdersAssumption
<1>2. position[InstrumentOf[o]] \in Nat
  BY <1>1 DEF TypeOK
<1> DEFINE held == position[InstrumentOf[o]]
           left == IF o \in Buys THEN held + Quantity[o]
                   ELSE IF held > Quantity[o] THEN held - Quantity[o] ELSE 0
<1>3. left \in Nat
  BY <1>1, <1>2
<1>4. PositionAfterFill(o) = [position EXCEPT ![InstrumentOf[o]] = left]
  BY DEF PositionAfterFill
<1> QED
  <2> HIDE DEF left
  <2> QED BY <1>1, <1>3, <1>4 DEF TypeOK

\* The commit of a settlement.
LEMMA SettleLocal ==
    ASSUME Inv, IInv', NEW e \in Executors, Settle(e) PROVE TypeOK' /\ Local'
<1> USE DEF Inv
<1> DEFINE o == exec[e].order
<1>1. o \in Orders /\ status[o] = "NEW" /\ exec[e].step = "claimed"
  BY DEF Settle, Local, ExecInv, LockInv
<1>2. PICK final \in {"FILLED", "REJECTED"} : status' = [status EXCEPT ![o] = final]
  BY DEF Settle
<1>3. exec' = [exec EXCEPT ![e] = Idle] /\ UNCHANGED <<transfer, place, cancel>>
  BY DEF Settle
<1>4. AccountMoves
  BY MovedIsSound DEF Settle, AccountMoves
<1>5. /\ PlaceInv' /\ status' \in [Orders -> OrderStatus]
      /\ account' \in [balance : Nat, blocked : Nat, version : Nat]
  BY <1>1, <1>2, <1>3, <1>4, ResolvedLocal
<1>6. fillPrice' \in [Orders -> Prices \cup {0}]
  BY DEF Settle, Local, ExecInv, TypeOK
<1>7. position' \in [Instruments -> Nat]
  BY <1>1, HoldingNat DEF Settle, TypeOK
<1>8. exec' \in [Executors -> ExecState]
  <2>1. 0 \in 0..MaxLockAttempts
    BY ExecutorsAssumption
  <2>2. Idle \in ExecState
    BY <2>1 DEF Idle, ExecState, None
  <2> QED BY <1>3, <2>2 DEF TypeOK
<1>9. TypeOK'
  BY <1>3, <1>5, <1>6, <1>7, <1>8 DEF TypeOK
<1>10. CancelInv'
  BY <1>1, <1>2, <1>3 DEF TypeOK, Local, CancelInv, LockInv
<1>11. LockInv'
  BY <1>1, <1>2, <1>3 DEF TypeOK, Local, LockInv, Idle
<1>12. ExecInv' /\ FundedBuysNeverRefused'
  BY <1>1, <1>2, <1>3 DEF TypeOK, Local, ExecInv, FundedBuysNeverRefused, Idle
<1> QED
  BY <1>5, <1>9, <1>10, <1>11, <1>12 DEF Local
-----------------------------------------------------------------------------
(* The theorems. *)

\* What is blocked and released is whole paise.
LEMMA StepWhole == ASSUME Inv, IInv', [Ledger!Next]_(Ledger!vars) PROVE WholeBlocked'
<1>n. account.blocked \in Nat /\ account'.blocked \in Nat
  BY DEF Inv, TypeOK, IInv, Ledger!TypeOK
<1>1. ASSUME NEW o \in Orders,
             \/ account'.blocked = account.blocked + Released(o)
             \/ account'.blocked = account.blocked - Released(o)
      PROVE  WholeBlocked'
  <2>1. Released(o) \in Nat /\ Released(o) % 100 = 0
    BY AmountsNat, AmountsWhole DEF Released
  <2>2. CASE account'.blocked = account.blocked + Released(o)
    BY <1>n, <2>1, <2>2, WholeSums DEF Inv, WholeBlocked
  <2>3. CASE account'.blocked = account.blocked - Released(o)
    <3>1. Released(o) <= account.blocked
      BY <1>n, <2>1, <2>3
    <3> QED BY <1>n, <2>1, <2>3, <3>1, WholeSums DEF Inv, WholeBlocked
  <2> QED BY <1>1, <2>2, <2>3
<1>2. ASSUME NEW t \in Transfers,
             \/ account'.blocked = account.blocked + Amount[t]
             \/ account'.blocked = account.blocked - Amount[t]
      PROVE  WholeBlocked'
  <2>1. Amount[t] \in Nat /\ Amount[t] % 100 = 0
    BY AmountsNat, AmountsWhole
  <2>2. CASE account'.blocked = account.blocked + Amount[t]
    BY <1>n, <2>1, <2>2, WholeSums DEF Inv, WholeBlocked
  <2>3. CASE account'.blocked = account.blocked - Amount[t]
    <3>1. Amount[t] <= account.blocked
      BY <1>n, <2>1, <2>3
    <3> QED BY <1>n, <2>1, <2>3, <3>1, WholeSums DEF Inv, WholeBlocked
  <2> QED BY <1>2, <2>2, <2>3
<1>3. CASE account'.blocked = account.blocked
  BY <1>3 DEF Inv, WholeBlocked
<1>4. ASSUME NEW o \in Orders,
             \/ Ledger!Accept(o)
             \/ \E p \in Prices : Ledger!Fill(o, p)
             \/ \E final \in {"REJECTED", "CANCELLED"} : Ledger!Close(o, final)
      PROVE  WholeBlocked'
  BY <1>1, <1>4, SameTerms DEF Ledger!Accept, Ledger!Fill, Ledger!Close
<1>5. ASSUME NEW t \in Transfers, Ledger!Request(t) \/ Ledger!Succeed(t) \/ Ledger!Fail(t)
      PROVE  WholeBlocked'
  BY <1>2, <1>3, <1>5 DEF Ledger!Request, Ledger!Succeed, Ledger!Fail
<1>6. CASE UNCHANGED Ledger!vars
  BY <1>3, <1>6 DEF Ledger!vars
<1> QED
  BY <1>4, <1>5, <1>6 DEF Ledger!Next

\* At first nobody has read anything.
LEMMA InitInv == Init => Inv /\ Ledger!Init
<1> SUFFICES ASSUME Init PROVE Inv /\ Ledger!Init
  OBVIOUS
<1>1. Ledger!Init
  BY DEF Init, Ledger!Init
<1>2. IInv
  BY <1>1, InitIInv
<1>3. TypeOK
  <2>1. 0 \in 0..MaxLockAttempts
    BY ExecutorsAssumption
  <2> QED BY <2>1, OpeningAssumption
          DEF Init, TypeOK, OrderStatus, TransferStatus, Tx, TxIdle, None, ExecState, Idle
<1>4. Local
  BY DEF Init, Local, PlaceInv, CancelInv, ExecInv, LockInv, FundedBuysNeverRefused, TxIdle, Idle
<1>5. WholeBlocked
  BY DEF Init, WholeBlocked
<1> QED
  BY <1>1, <1>2, <1>3, <1>4, <1>5 DEF Inv

\* Every step keeps the invariant.
LEMMA StepInv == Inv /\ [Next]_vars => Inv'
<1> SUFFICES ASSUME Inv, [Next]_vars PROVE Inv'
  OBVIOUS
<1>0. IInv' /\ WholeBlocked'
  BY Simulates, StepIInv, StepWhole DEF Inv
<1>1. ASSUME NEW o \in Orders, PlaceCommit(o) PROVE Inv'
  BY <1>0, <1>1, PlaceCommitLocal DEF Inv
<1>2. ASSUME NEW o \in Orders, CancelCommit(o) PROVE Inv'
  BY <1>0, <1>2, CancelCommitLocal DEF Inv
<1>3. ASSUME NEW t \in Transfers,
             RequestTransfer(t) \/ \E answer \in {"SUCCESS", "FAILED"} : DecideTransfer(t, answer)
      PROVE  Inv'
  BY <1>0, <1>3, TransferLocal DEF Inv
<1>4. ASSUME NEW e \in Executors, Settle(e) PROVE Inv'
  BY <1>0, <1>4, SettleLocal DEF Inv
<1>5. CASE Reads
  <2>1. TypeOK' /\ Local'
    BY <1>5, OrderServiceReads, CrashLocal, ExecutorReads DEF Reads
  <2> QED BY <1>0, <2>1 DEF Inv
<1>6. CASE UNCHANGED vars
  <2>1. UNCHANGED <<account, status, fillPrice, transfer, position, place, cancel, exec>>
    BY <1>6 DEF vars, rows
  <2>2. TypeOK'
    BY <2>1 DEF Inv, TypeOK
  <2>3. Local'
    BY <2>1 DEF Inv, Local, PlaceInv, VersionStill, CancelInv, ExecInv, LockInv, FundedBuysNeverRefused
  <2> QED BY <1>0, <2>2, <2>3 DEF Inv
<1> QED
  BY <1>1, <1>2, <1>3, <1>4, <1>5, <1>6, StepKinds

\* Every variable keeps its type: the database never holds a negative amount.
THEOREM TypeCorrect == Spec => []TypeOK
<1>1. Inv => TypeOK
  BY DEF Inv
<1> QED
  BY <1>1, InitInv, StepInv, PTL DEF Spec

\* The services and the executors implement the one-clerk ledger.
THEOREM ImplementsLedger == Spec => KeepsTheLedger
<1>1. Init => Inv /\ Ledger!Init
  BY InitInv
<1>2. Inv /\ [Next]_vars => Inv'
  BY StepInv
<1>3. Inv /\ [Next]_vars => [Ledger!Next]_(Ledger!vars)
  BY Simulates
<1> QED
  BY <1>1, <1>2, <1>3, PTL DEF Spec, KeepsTheLedger, Ledger!Spec

\* The blocked funds are always what is still reserved or held, to the unit.
THEOREM BlockedFundsBacked == Spec => []ReservationsBacked
<1>1. Inv => ReservationsBacked
  BY DEF Inv, IInv, ReservationsBacked
<1> QED
  BY <1>1, InitInv, StepInv, PTL DEF Spec

\* The row is always within the CHECKs of client_account, and a placement that
\* may still commit goes beyond them by half a paisa at most.
THEOREM AccountSound == Spec => []AccountWithinLimits
<1>1. Inv => AccountWithinLimits
  BY DEF Inv, IInv, Local, PlaceInv, AccountWithinLimits, Buys
<1> QED
  BY <1>1, InitInv, StepInv, PTL DEF Spec

\* A working BUY is never refused for lack of the cash reserved for it.
THEOREM FundedBuys == Spec => []FundedBuysNeverRefused
<1>1. Inv => FundedBuysNeverRefused
  BY DEF Inv, Local
<1> QED
  BY <1>1, InitInv, StepInv, PTL DEF Spec

\* Every unit of cash is accounted for.
THEOREM CashIsConserved == Spec => []CashConserved
<1>1. Init => Inv /\ Ledger!CashConserved
  BY InitInv, InitConserves
<1>2. Inv /\ Ledger!CashConserved /\ [Next]_vars => Inv' /\ Ledger!CashConserved'
  BY StepInv, StepConserves, Simulates DEF Inv
<1>3. Ledger!CashConserved => CashConserved
  BY DEF CashConserved
<1> QED
  BY <1>1, <1>2, <1>3, PTL DEF Spec

\* No idempotency key ever buys two orders.
THEOREM KeysUsedOnce == Spec => []OneOrderPerKey
<1>1. Init => OneOrderPerKey
  BY DEF Init, OneOrderPerKey
<1>2. Inv /\ OneOrderPerKey /\ [Next]_vars => OneOrderPerKey'
  <2> SUFFICES ASSUME Inv, OneOrderPerKey, [Next]_vars PROVE OneOrderPerKey'
    OBVIOUS
  <2>1. CASE [Ledger!Next]_(Ledger!vars) /\ status' = status
    BY <2>1 DEF OneOrderPerKey
  <2>2. ASSUME NEW o \in Orders, Ledger!Accept(o) PROVE OneOrderPerKey'
    BY <2>2 DEF OneOrderPerKey, Ledger!Accept, Inv, TypeOK
  <2>3. ASSUME NEW o \in Orders, NEW final \in OrderStatus, status[o] = "NEW",
               status' = [status EXCEPT ![o] = final]
        PROVE  OneOrderPerKey'
    BY <2>3 DEF OneOrderPerKey, Inv, TypeOK
  <2>4. CASE Ledger!Next
    BY <2>2, <2>3, <2>1, <2>4 DEF Ledger!Next, Ledger!Fill, Ledger!Close, Ledger!Request,
       Ledger!Succeed, Ledger!Fail, OrderStatus
  <2>5. CASE UNCHANGED Ledger!vars
    BY <2>5 DEF Ledger!vars, OneOrderPerKey
  <2> QED BY <2>4, <2>5, Simulates
<1> QED
  BY <1>1, <1>2, InitInv, StepInv, PTL DEF Spec
=============================================================================
