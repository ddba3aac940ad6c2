\* Two BUYs that do not both fit in the balance and fill below their limits, a
\* SELL under the key of one of them, two withdrawals under one key, a deposit
\* without which not everything can be paid, and two executors that may take up
\* the same order.  The balance is half a paisa short of the whole it is rounded
\* to, which is what w1 and b2 take together.
SPECIFICATION Spec
CONSTANTS
    b1 = b1  b2 = b2  s1 = s1  w1 = w1  w2 = w2  d1 = d1  gold = gold  k1 = k1  k2 = k2
    Side <- MCSide
    Quantity <- MCQuantity
    Limit <- MCLimit
    InstrumentOf <- MCInstrumentOf
    KeyOf <- MCKeyOf
    Instruments = {gold}
    Direction <- MCDirection
    Amount <- MCAmount
    TransferKey <- MCTransferKey
    OpeningPosition <- MCOpeningPosition
    Nobody = Nobody
    Orders = {b1, b2, s1}
    Prices = {195}
    Transfers = {w1, w2, d1}
    OpeningBalance = 450
    Executors = {e1, e2}
    MaxLockAttempts = 2
SYMMETRY ExecutorSymmetry
INVARIANTS ReservationsBacked AccountWithinLimits CashConserved OneOrderPerKey FundedBuysNeverRefused
PROPERTY KeepsTheLedger
\* Every request may end resolved, and then nothing is left to do.
CHECK_DEADLOCK FALSE
