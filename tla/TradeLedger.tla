----------------------------- MODULE TradeLedger -----------------------------
(***************************************************************************)
(* One account's rows in PostgreSQL and everything that writes them: the   *)
(* order service placing and cancelling orders, the payment routes and the *)
(* payment job, and the executors settling orders.                         *)
(*                                                                         *)
(* A transaction that decides on what it read is two steps here, the read  *)
(* and the commit, and every other transaction may commit in between.  The *)
(* row of an order is locked from its guarded UPDATE to the commit.  The   *)
(* account row is the last one a transaction contends for, so its guarded  *)
(* UPDATE and the commit are one step.                                     *)
(*                                                                         *)
(* An executor may take up any announced order at any time and any number  *)
(* of times: what the topic delivers, and when, is not constrained here.   *)
(***************************************************************************)
EXTENDS TradingTerms

CONSTANTS
    Executors,         \* threads that settle orders
    MaxLockAttempts,   \* FullSettlement.MAX_LOCK_ATTEMPTS
    Nobody             \* the order of an idle executor

ASSUME ExecutorsAssumption ==
    /\ MaxLockAttempts \in Nat \ {0}
    /\ Nobody \notin Orders

VARIABLES
    account,     \* the client_account row: balance, blocked, version
    status,      \* orders.status
    fillPrice,   \* orders.fill_price, 0 while it is NULL
    transfer,    \* fund_transfer.status
    position,    \* position.quantity, 0 where there is no row
    place,       \* the transaction of a POST /orders: step and version read
    cancel,      \* the transaction of a DELETE /orders/{id}: step and version read
    exec         \* an executor's working memory

rows == <<account, status, fillPrice, transfer, position>>
vars == <<rows, place, cancel, exec>>

None == 0   \* the version field of a transaction that has read none

RejectReasons == {"UNTRADABLE_OR_INACTIVE", "NO_PRICE", "PRICE_NOT_MET",
                  "INSUFFICIENT_FUNDS", "INSUFFICIENT_HOLDINGS"}

Idle == [step |-> "idle", order |-> Nobody, spendable |-> 0, outcome |-> "NONE",
         price |-> 0, version |-> None, attempts |-> 0]

TxIdle == [step |-> "idle", version |-> None]

Init ==
    /\ account = [balance |-> OpeningBalance, blocked |-> 0, version |-> 1]
    /\ status = [o \in Orders |-> "ABSENT"]
    /\ fillPrice = [o \in Orders |-> 0]
    /\ transfer = [t \in Transfers |-> "ABSENT"]
    /\ position = OpeningPosition
    /\ place = [o \in Orders |-> TxIdle]
    /\ cancel = [o \in Orders |-> TxIdle]
    /\ exec = [e \in Executors |-> Idle]

\* Broken variant: the guarded UPDATE of an order does not lock its row.
NeverLocked(o) == FALSE

\* Another transaction has updated the row of o and not committed yet.
Locked(o) ==
    \/ cancel[o].step = "claimed"
    \/ \E e \in Executors : exec[e].step = "claimed" /\ exec[e].order = o

\* Broken variant: the guarded UPDATE without its AND status = 'NEW'.
ClaimableAnyway(o) == status[o] # "ABSENT" /\ ~Locked(o)

\* UPDATE orders ... WHERE status = 'NEW' matches, and so locks, the row of o.
Claimable(o) == status[o] = "NEW" /\ ~Locked(o)

KeyUnused(o) == \A p \in Orders : status[p] # "ABSENT" => KeyOf[p] # KeyOf[o]

\* Every UPDATE of the account's cash adds in place and bumps the version.
Moved(balance, blocked) ==
    [balance |-> balance, blocked |-> blocked, version |-> account.version + 1]
-----------------------------------------------------------------------------
(* Placing an order. *)

\* placeOrder reads the account once (the second findById of the transaction
\* is answered from the session's cache) and applies the domain's rules 6 to 8.
\* The row's four decimals are rounded to two on the way (Account's constructor).
PlaceCheck(o) ==
    /\ status[o] = "ABSENT" /\ place[o].step = "idle"
    /\ IF o \in Buys
       THEN Rounded(account.balance) - Rounded(account.blocked) >= Rounded(Reservation[o])
       ELSE position[InstrumentOf[o]] >= Quantity[o]
    /\ KeyUnused(o)
    /\ place' = [place EXCEPT ![o] = [step |-> "checked", version |-> account.version]]
    /\ UNCHANGED <<rows, cancel, exec>>

\* The versioned UPDATE of the account matches its row.
VersionStill(v) == account.version = v

\* Broken variant: client_account without its CHECK.
BlockUnchecked(o) == TRUE

\* ck_client_account_blocked_within_balance lets the reservation of o be added,
\* in SQL and on all four decimals.
BlockWithinBalance(o) == account.blocked + Reservation[o] <= account.balance

\* Broken variant: the pre-check is trusted and the table has no unique key.
InsertUnchecked(o) == TRUE

\* uq_orders_client_idempotency_key lets the row of o in.
InsertAccepted(o) == KeyUnused(o)

\* The insert, and for a BUY the versioned block, then the commit.
PlaceCommit(o) ==
    /\ place[o].step = "checked"
    /\ InsertAccepted(o)
    /\ status' = [status EXCEPT ![o] = "NEW"]
    /\ IF o \in Buys
       THEN /\ VersionStill(place[o].version) /\ BlockWithinBalance(o)
            /\ account' = Moved(account.balance, account.blocked + Reservation[o])
       ELSE UNCHANGED account
    /\ place' = [place EXCEPT ![o] = TxIdle]
    /\ UNCHANGED <<fillPrice, transfer, position, cancel, exec>>

\* The unique key refuses the insert, the version moved, or the CHECK refuses
\* what only the rounding allowed: the whole transaction rolls back, and the
\* customer may send it again.
PlaceRollBack(o) ==
    /\ place[o].step = "checked"
    /\ \/ ~InsertAccepted(o)
       \/ o \in Buys /\ ~(VersionStill(place[o].version) /\ BlockWithinBalance(o))
    /\ place' = [place EXCEPT ![o] = TxIdle]
    /\ UNCHANGED <<rows, cancel, exec>>
-----------------------------------------------------------------------------
(* Cancelling an order. *)

\* cancelIfNew matches the row and locks it; then the account is read.
CancelClaim(o) ==
    /\ cancel[o].step = "idle"
    /\ Claimable(o)
    /\ cancel' = [cancel EXCEPT ![o] = [step |-> "claimed", version |-> account.version]]
    /\ UNCHANGED <<rows, place, exec>>

CancelCommit(o) ==
    /\ cancel[o].step = "claimed"
    /\ status' = [status EXCEPT ![o] = "CANCELLED"]
    /\ IF o \in Buys
       THEN /\ VersionStill(cancel[o].version)
            /\ account' = Moved(account.balance, account.blocked - Reservation[o])
       ELSE UNCHANGED account
    /\ cancel' = [cancel EXCEPT ![o] = TxIdle]
    /\ UNCHANGED <<fillPrice, transfer, position, place, exec>>

\* releaseFunds matched no row: the cancel rolls back with it.
CancelRollBack(o) ==
    /\ cancel[o].step = "claimed"
    /\ o \in Buys /\ ~VersionStill(cancel[o].version)
    /\ cancel' = [cancel EXCEPT ![o] = TxIdle]
    /\ UNCHANGED <<rows, place, exec>>

\* The order service dies: PostgreSQL rolls back what it had open.
OrderServiceCrash ==
    /\ place' = [o \in Orders |-> TxIdle]
    /\ cancel' = [o \in Orders |-> TxIdle]
    /\ UNCHANGED <<rows, exec>>
-----------------------------------------------------------------------------
(* Deposits and withdrawals: in-place updates, guarded by their own WHERE. *)

\* ON CONFLICT DO NOTHING: a used key replays the first transfer, nothing moves.
RequestTransfer(t) ==
    /\ transfer[t] = "ABSENT"
    /\ \A u \in Transfers : transfer[u] # "ABSENT" => TransferKey[u] # TransferKey[t]
    /\ transfer' = [transfer EXCEPT ![t] = "PENDING"]
    /\ IF Direction[t] = "WITHDRAWAL"
       THEN /\ account.balance - account.blocked >= Amount[t]
            /\ account' = Moved(account.balance, account.blocked + Amount[t])
       ELSE UNCHANGED account
    /\ UNCHANGED <<status, fillPrice, position, place, cancel, exec>>

\* Broken variant: the decision is written whatever the row says by then.
UndecidedAnyway(t) == transfer[t] # "ABSENT"

\* PaymentMapper.decide: UPDATE fund_transfer ... WHERE status = 'PENDING' matches.
Undecided(t) == transfer[t] = "PENDING"

\* PaymentDecider.decide: the gateway answers, and one run records the answer.
DecideTransfer(t, answer) ==
    /\ Undecided(t)
    /\ transfer' = [transfer EXCEPT ![t] = answer]
    /\ account' =
         IF answer = "SUCCESS"
         THEN IF Direction[t] = "DEPOSIT"
              THEN Moved(account.balance + Amount[t], account.blocked)
              ELSE Moved(account.balance - Amount[t], account.blocked - Amount[t])
         ELSE IF Direction[t] = "DEPOSIT"
              THEN account
              ELSE Moved(account.balance, account.blocked - Amount[t])
    /\ UNCHANGED <<status, fillPrice, position, place, cancel, exec>>
-----------------------------------------------------------------------------
(* Executing an order. *)

\* Broken variant: the order's own reservation counts as spent.
SpendableWithoutOwn(o) == Rounded(account.balance) - Rounded(account.blocked)

\* PreTradeChecks.spendableBy: the balance, less what is blocked for others,
\* both rounded as the executor too reads an Account.
SpendableBy(o) ==
    LET blocked == Rounded(account.blocked)
    IN  Rounded(account.balance) - (IF blocked >= Reservation[o] THEN blocked - Reservation[o]
                                                                 ELSE blocked)

\* The order is read and is still NEW.
FindOrder(e, o) ==
    /\ exec[e].step = "idle"
    /\ status[o] = "NEW"
    /\ exec' = [exec EXCEPT ![e] = [Idle EXCEPT !.step = "found", !.order = o]]
    /\ UNCHANGED <<rows, place, cancel>>

\* Then the account, outside any transaction: what this order may spend.
FindAccount(e) ==
    /\ exec[e].step = "found"
    /\ exec' = [exec EXCEPT ![e].step = "fetched", ![e].spendable = SpendableBy(exec[e].order)]
    /\ UNCHANGED <<rows, place, cancel>>

Decided(e, outcome, price) ==
    exec' = [exec EXCEPT ![e] = [Idle EXCEPT !.step = "decided", !.order = exec[e].order,
                                    !.outcome = outcome, !.price = price]]

\* Rules 6 and 7 at the quoted price, on the account as it was fetched.
AtExecution(e, price) ==
    LET o == exec[e].order IN
    IF o \in Buys
    THEN IF exec[e].spendable >= Consideration(o, price) THEN "FILL" ELSE "INSUFFICIENT_FUNDS"
    ELSE IF position[InstrumentOf[o]] >= Quantity[o] THEN "FILL" ELSE "INSUFFICIENT_HOLDINGS"

\* The instrument or the account may be refused before pricing, the quote may
\* be unavailable, or it carries a price the fill rule compares with the limit.
Decide(e) ==
    /\ exec[e].step = "fetched"
    /\ \/ \E reason \in {"UNTRADABLE_OR_INACTIVE", "NO_PRICE"} : Decided(e, reason, 0)
       \/ \E price \in Prices :
             LET outcome == IF Marketable(exec[e].order, price)
                            THEN AtExecution(e, price) ELSE "PRICE_NOT_MET"
             IN  Decided(e, outcome, IF outcome = "FILL" THEN price ELSE 0)
    /\ UNCHANGED <<rows, place, cancel>>

MovesCash(e) == exec[e].outcome = "FILL" \/ exec[e].order \in Buys

\* settleIfNew matches the row and locks it; then the account's version is read.
Claim(e) ==
    /\ exec[e].step = "decided"
    /\ Claimable(exec[e].order)
    /\ exec' = [exec EXCEPT ![e].step = "claimed",
                            ![e].version = IF MovesCash(e) THEN account.version ELSE None,
                            ![e].attempts = 1]
    /\ UNCHANGED <<rows, place, cancel>>

\* settleIfNew matches nothing: ALREADY_SETTLED, nothing is written.
AlreadySettled(e) ==
    /\ exec[e].step = "decided"
    /\ status[exec[e].order] # "NEW"
    /\ exec' = [exec EXCEPT ![e] = Idle]
    /\ UNCHANGED <<rows, place, cancel>>

\* FullSettlement.writePosition: a SELL of what is no longer there writes nothing.
PositionAfterFill(o) ==
    LET held == position[InstrumentOf[o]] IN
    [position EXCEPT ![InstrumentOf[o]] =
        IF o \in Buys THEN held + Quantity[o]
        ELSE IF held > Quantity[o] THEN held - Quantity[o] ELSE 0]

\* updateAccount matched the version: cash, blocked funds and position commit
\* with the order's new status.
Settle(e) ==
    LET o == exec[e].order
        cost == Consideration(o, exec[e].price)
        fill == exec[e].outcome = "FILL"
    IN
    /\ exec[e].step = "claimed"
    /\ MovesCash(e) => VersionStill(exec[e].version)
    /\ status' = [status EXCEPT ![o] = IF fill THEN "FILLED" ELSE "REJECTED"]
    /\ fillPrice' = IF fill THEN [fillPrice EXCEPT ![o] = exec[e].price] ELSE fillPrice
    /\ account' =
         IF ~MovesCash(e) THEN account
         ELSE Moved(IF ~fill THEN account.balance
                    ELSE IF o \in Buys THEN account.balance - cost ELSE account.balance + cost,
                    account.blocked - Released(o))
    /\ position' = IF fill THEN PositionAfterFill(o) ELSE position
    /\ exec' = [exec EXCEPT ![e] = Idle]
    /\ UNCHANGED <<transfer, place, cancel>>

\* updateAccount matched no row: read the version again, a bounded number of times.
LockLost(e) ==
    /\ exec[e].step = "claimed" /\ MovesCash(e) /\ ~VersionStill(exec[e].version)
    /\ exec' = IF exec[e].attempts < MaxLockAttempts
               THEN [exec EXCEPT ![e].version = account.version, ![e].attempts = @ + 1]
               ELSE [exec EXCEPT ![e] = Idle]
    /\ UNCHANGED <<rows, place, cancel>>

\* The executor dies, or the message failed: the settlement rolls back.
ExecutorCrash(e) ==
    /\ exec[e].step # "idle"
    /\ exec' = [exec EXCEPT ![e] = Idle]
    /\ UNCHANGED <<rows, place, cancel>>
-----------------------------------------------------------------------------
Next ==
    \/ \E o \in Orders :
          \/ PlaceCheck(o) \/ PlaceCommit(o) \/ PlaceRollBack(o)
          \/ CancelClaim(o) \/ CancelCommit(o) \/ CancelRollBack(o)
    \/ OrderServiceCrash
    \/ \E t \in Transfers :
          \/ RequestTransfer(t)
          \/ \E answer \in {"SUCCESS", "FAILED"} : DecideTransfer(t, answer)
    \/ \E e \in Executors :
          \/ \E o \in Orders : FindOrder(e, o)
          \/ FindAccount(e) \/ Decide(e) \/ Claim(e) \/ AlreadySettled(e)
          \/ Settle(e) \/ LockLost(e) \/ ExecutorCrash(e)

Spec == Init /\ [][Next]_vars
-----------------------------------------------------------------------------
(* Properties. *)

Tx == [step : {"idle", "checked", "claimed"}, version : Nat]

ExecState == [step : {"idle", "found", "fetched", "decided", "claimed"},
              order : Orders \cup {Nobody}, spendable : Nat,
              outcome : {"NONE", "FILL"} \cup RejectReasons,
              price : Prices \cup {0}, version : Nat, attempts : 0..MaxLockAttempts]

\* Every variable has its type.  The naturals are the database's non-negative
\* columns: no commit takes the balance, the blocked funds or a holding below 0.
TypeOK ==
    /\ account \in [balance : Nat, blocked : Nat, version : Nat]
    /\ status \in [Orders -> OrderStatus]
    /\ fillPrice \in [Orders -> Prices \cup {0}]
    /\ transfer \in [Transfers -> TransferStatus]
    /\ position \in [Instruments -> Nat]
    /\ place \in [Orders -> Tx]
    /\ cancel \in [Orders -> Tx]
    /\ exec \in [Executors -> ExecState]

Ledger == INSTANCE CashLedger WITH balance <- account.balance, blocked <- account.blocked

(* The order service, the payment job and the executors together keep the
   ledger of CashLedger: whatever they read before, each commit is one that
   a clerk who did one thing at a time could have made. *)
KeepsTheLedger == Ledger!Spec

(* Every blocked unit is the reservation of a working BUY or the hold of a
   pending withdrawal, whichever of OrderService.blockFunds, releaseFunds,
   FullSettlement.updateAccountWithRetry and PaymentMapper's updates ran. *)
ReservationsBacked == Ledger!ReservationsBacked

(* The CHECKs of client_account stand between the row and only one writer,
   and by half a paisa at most.  The row is always within them.  No commit
   but a placement's tests them here: settlements, cancellations and
   transfers never break them, whatever was read when.  And a placement whose
   version still stands may take more than is free only by what
   Account.money (147) rounded up of the balance; canAfford (65-68) lets no
   other overdraft through to the UPDATE. *)
AccountWithinLimits ==
    /\ Ledger!AccountWithinLimits
    /\ \A o \in Buys :
          (place[o].step = "checked" /\ VersionStill(place[o].version))
             => account.blocked + Reservation[o] <= account.balance + 50

(* The balance moved by exactly the fills and the decided transfers: retries,
   redeliveries and rolled-back transactions moved nothing. *)
CashConserved == Ledger!CashConserved

(* No two rows of orders share an idempotency key, although the pre-check of
   MyBatisOrderRepository.existsByAccountAndKey reads before the insert. *)
OneOrderPerKey ==
    \A o, p \in Orders :
        (o # p /\ status[o] # "ABSENT" /\ status[p] # "ABSENT") => KeyOf[o] # KeyOf[p]

(* While an order works, its own reservation covers any price it may fill at:
   PreTradeChecks.spendableBy never refuses a working BUY for lack of funds,
   however stale the account it was computed from. *)
FundedBuysNeverRefused ==
    \A e \in Executors :
        exec[e].outcome = "INSUFFICIENT_FUNDS" => status[exec[e].order] # "NEW"
=============================================================================
