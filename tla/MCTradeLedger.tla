---------------------------- MODULE MCTradeLedger ----------------------------
(* Instances of TradeLedger small enough for TLC. *)
EXTENDS TradeLedger, TLC

CONSTANTS b1, b2, s1, w1, w2, d1, gold, k1, k2

MCSide == [o \in Orders |-> IF o \in {b1, b2} THEN "BUY" ELSE "SELL"]
MCQuantity == [o \in Orders |-> IF o = b1 THEN 2 ELSE 1]
\* In ten-thousandths, as all money.
MCLimit == [o \in Orders |-> IF o = b1 THEN 200 ELSE IF o = b2 THEN 300 ELSE 100]
MCInstrumentOf == [o \in Orders |-> gold]
\* b2 and s1 were sent under one idempotency key.
MCKeyOf == [o \in Orders |-> IF o = b1 THEN k1 ELSE k2]
MCDirection == [t \in Transfers |-> IF t = d1 THEN "DEPOSIT" ELSE "WITHDRAWAL"]
MCAmount == [t \in Transfers |-> IF t = w2 THEN 300 ELSE 200]
\* w2 was requested under the key of w1, with another amount.
MCTransferKey == [t \in Transfers |-> IF t = d1 THEN k2 ELSE k1]
MCOpeningPosition == [i \in Instruments |-> 1]

ExecutorSymmetry == Permutations(Executors)
=============================================================================
