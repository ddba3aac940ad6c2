----------------------------- MODULE CashLedger -----------------------------
(***************************************************************************)
(* What the platform promises about an account's cash, as a ledger that    *)
(* one clerk keeps: each operation looks at the account and changes it in  *)
(* a single step.  TradeLedger, where the order service, the payment job   *)
(* and the executor read first and write later, implements it.             *)
(***************************************************************************)
EXTENDS TradingTerms

VARIABLES
    status,      \* order -> its status
    fillPrice,   \* order -> the price it filled at, 0 unless FILLED
    transfer,    \* transfer -> its status
    balance,     \* the account's cash
    blocked      \* the part of it that is spoken for

vars == <<status, fillPrice, transfer, balance, blocked>>

Init ==
    /\ status = [o \in Orders |-> "ABSENT"]
    /\ fillPrice = [o \in Orders |-> 0]
    /\ transfer = [t \in Transfers |-> "ABSENT"]
    /\ balance = OpeningBalance
    /\ blocked = 0

\* An order is taken only if its key is unused and its cash is there to block.
Accept(o) ==
    /\ status[o] = "ABSENT"
    /\ \A p \in Orders : status[p] # "ABSENT" => KeyOf[p] # KeyOf[o]
    /\ o \in Buys => balance >= blocked + Reservation[o]
    /\ status' = [status EXCEPT ![o] = "NEW"]
    /\ blocked' = blocked + Released(o)
    /\ UNCHANGED <<fillPrice, transfer, balance>>

Fill(o, p) ==
    /\ status[o] = "NEW"
    /\ Marketable(o, p)
    /\ status' = [status EXCEPT ![o] = "FILLED"]
    /\ fillPrice' = [fillPrice EXCEPT ![o] = p]
    /\ balance' = IF o \in Buys THEN balance - Consideration(o, p)
                                ELSE balance + Consideration(o, p)
    /\ blocked' = blocked - Released(o)
    /\ UNCHANGED transfer

\* Rejected or cancelled: the reservation comes back and no cash moves.
Close(o, final) ==
    /\ status[o] = "NEW"
    /\ status' = [status EXCEPT ![o] = final]
    /\ blocked' = blocked - Released(o)
    /\ UNCHANGED <<fillPrice, transfer, balance>>

Request(t) ==
    /\ transfer[t] = "ABSENT"
    /\ \A u \in Transfers : transfer[u] # "ABSENT" => TransferKey[u] # TransferKey[t]
    /\ Direction[t] = "WITHDRAWAL" => balance >= blocked + Amount[t]
    /\ transfer' = [transfer EXCEPT ![t] = "PENDING"]
    /\ blocked' = IF Direction[t] = "WITHDRAWAL" THEN blocked + Amount[t] ELSE blocked
    /\ UNCHANGED <<status, fillPrice, balance>>

Succeed(t) ==
    /\ transfer[t] = "PENDING"
    /\ transfer' = [transfer EXCEPT ![t] = "SUCCESS"]
    /\ IF Direction[t] = "WITHDRAWAL"
       THEN balance' = balance - Amount[t] /\ blocked' = blocked - Amount[t]
       ELSE balance' = balance + Amount[t] /\ blocked' = blocked
    /\ UNCHANGED <<status, fillPrice>>

Fail(t) ==
    /\ transfer[t] = "PENDING"
    /\ transfer' = [transfer EXCEPT ![t] = "FAILED"]
    /\ blocked' = IF Direction[t] = "WITHDRAWAL" THEN blocked - Amount[t] ELSE blocked
    /\ UNCHANGED <<status, fillPrice, balance>>

Next ==
    \/ \E o \in Orders :
          \/ Accept(o)
          \/ \E p \in Prices : Fill(o, p)
          \/ \E final \in {"REJECTED", "CANCELLED"} : Close(o, final)
    \/ \E t \in Transfers : Request(t) \/ Succeed(t) \/ Fail(t)

Spec == Init /\ [][Next]_vars
-----------------------------------------------------------------------------
TypeOK ==
    /\ status \in [Orders -> OrderStatus]
    /\ fillPrice \in [Orders -> Prices \cup {0}]
    /\ transfer \in [Transfers -> TransferStatus]
    /\ balance \in Nat
    /\ blocked \in Nat

WorkingBuys == {o \in Buys : status[o] = "NEW"}
PendingWithdrawals ==
    {t \in Transfers : Direction[t] = "WITHDRAWAL" /\ transfer[t] = "PENDING"}

(* The blocked funds are the reservations of the working BUYs and the holds
   of the pending withdrawals, to the last unit: nothing is released twice,
   released for an order that still works, or left blocked behind a resolved
   one. *)
ReservationsBacked ==
    blocked = Total(WorkingBuys, Reservation) + Total(PendingWithdrawals, Amount)

(* ck_client_account_balance_non_negative, ..._blocked_non_negative and
   ..._blocked_within_balance of 000_base_schema.sql hold of the row. *)
AccountWithinLimits == 0 <= blocked /\ blocked <= balance

Filled(S) == {o \in S : status[o] = "FILLED"}
Succeeded(d) == {t \in Transfers : Direction[t] = d /\ transfer[t] = "SUCCESS"}
Cost == [o \in Orders |-> Consideration(o, fillPrice[o])]

(* The balance is the opening balance, plus what came in, less what went out:
   each fill and each transfer moved its cash exactly once. *)
CashConserved ==
    balance + Total(Filled(Buys), Cost) + Total(Succeeded("WITHDRAWAL"), Amount)
      = OpeningBalance + Total(Filled(Sells), Cost) + Total(Succeeded("DEPOSIT"), Amount)
=============================================================================
