---------------------------- MODULE OrderPipeline ----------------------------
(***************************************************************************)
(* From an accepted order to its trade event, for the orders of one        *)
(* account: they share one partition of the topic "orders".                *)
(*                                                                         *)
(* The order service commits an order and sends ORDER_PLACED afterwards,   *)
(* from memory.  The executors of the consumer group poll the partition,   *)
(* settle order by order, send the trade event from memory and commit the  *)
(* offset at the end of the batch.  An executor that lost the partition in *)
(* the middle of a batch works on until it polls again.                    *)
(*                                                                         *)
(* The decision is FILL or REJECT; of the rules behind it only rule 7, the *)
(* holding behind a SELL, is kept.  Orders are in one instrument.  Cash,   *)
(* and the account row's lock, are in TradeLedger: a settlement is one     *)
(* step here.                                                              *)
(***************************************************************************)
EXTENDS Naturals, Sequences, FiniteSets, Totals, SequencesExt

CONSTANTS
    Orders,           \* the orders placed on the account
    Sells,            \* those that sell
    Quantity,         \* order -> shares
    OpeningPosition,  \* shares held at first
    Executors,        \* members of the group "trade-executor"
    NoOne,            \* owner of an unassigned partition
    Garbage,          \* a record that is no ORDER_PLACED of ours
    MaxAttempts,      \* deliveries before a transient failure is dead-lettered
    MaxPollRecords,
    MaxFaults         \* bound: crashes, lost sends, reassignments, stray records

ASSUME PipelineAssumption ==
    /\ IsFiniteSet(Orders) /\ Sells \subseteq Orders
    /\ Quantity \in [Orders -> Nat \ {0}]
    /\ OpeningPosition \in Nat
    /\ MaxAttempts \in Nat \ {0} /\ MaxPollRecords \in Nat \ {0} /\ MaxFaults \in Nat
    /\ Garbage \notin Orders /\ NoOne \notin Executors

VARIABLES
    status,     \* orders.status
    position,   \* position.quantity, 0 where there is no row
    accepted,   \* the orders, in the order their transactions committed
    unsent,     \* committed orders whose ORDER_PLACED is still in memory
    log,        \* the partition of "orders"
    committed,  \* the group's committed offset: records 1..committed are done
    owner,      \* the executor the partition is assigned to
    executor,   \* each executor's place in its batch, and what it holds
    topic,      \* trade-events
    dead,       \* records on orders.DLT
    faults      \* how many faults there were

orderService == <<accepted, unsent>>
kafka == <<log, committed, owner>>
vars == <<status, position, orderService, kafka, executor, topic, dead, faults>>

\* at: records before it are done; last: end of the batch; outbox: trade events
\* handed to the producer and not on the broker yet.
Fresh(at) == [step |-> "idle", at |-> at, last |-> at, fill |-> FALSE,
              attempts |-> 0, outbox |-> <<>>]

Init ==
    /\ status = [o \in Orders |-> "ABSENT"]
    /\ position = OpeningPosition
    /\ accepted = <<>> /\ unsent = {}
    /\ log = <<>> /\ committed = 0 /\ owner = NoOne
    /\ executor = [e \in Executors |-> Fresh(0)]
    /\ topic = <<>> /\ dead = {}
    /\ faults = 0

Fault == faults < MaxFaults /\ faults' = faults + 1
-----------------------------------------------------------------------------
(* The order service. *)

\* Rule 7 looks at the holding; nothing reserves it.
Accept(o) ==
    /\ status[o] = "ABSENT"
    /\ o \in Sells => position >= Quantity[o]
    /\ status' = [status EXCEPT ![o] = "NEW"]
    /\ accepted' = Append(accepted, o)
    /\ unsent' = unsent \cup {o}
    /\ UNCHANGED <<position, kafka, executor, topic, dead, faults>>

\* publishOrderPlaced, after the commit: each request's thread sends its own.
Send(o) ==
    /\ o \in unsent
    /\ unsent' = unsent \ {o}
    /\ log' = Append(log, o)
    /\ UNCHANGED <<status, position, accepted, committed, owner, executor, topic, dead, faults>>

\* The service dies, or the send fails and is only logged.
LoseUnsent ==
    /\ unsent # {} /\ Fault
    /\ \E lost \in SUBSET unsent \ {{}} : unsent' = unsent \ lost
    /\ UNCHANGED <<status, position, accepted, kafka, executor, topic, dead>>

Cancel(o) ==
    /\ status[o] = "NEW"
    /\ status' = [status EXCEPT ![o] = "CANCELLED"]
    /\ UNCHANGED <<position, orderService, kafka, executor, topic, dead, faults>>

\* An operator replays an order by hand, or something else writes a record.
Stray ==
    /\ Fault
    /\ \E r \in {o \in Orders : status[o] # "ABSENT"} \cup {Garbage} : log' = Append(log, r)
    /\ UNCHANGED <<status, position, orderService, committed, owner, executor, topic, dead>>
-----------------------------------------------------------------------------
(* The executors. *)

Record(e) == log[executor[e].at + 1]

\* Offsets are committed by the owner; a commit from a past owner is refused.
CommitUpTo(e, n) == committed' = IF owner = e THEN n ELSE committed

\* The listener is done with the record: acknowledged, but the offset is only
\* committed with the batch.
Acknowledge(e, outbox) ==
    LET n == executor[e].at + 1
        through == n = executor[e].last
    IN
    /\ executor' = [executor EXCEPT ![e].at = n, ![e].attempts = 0, ![e].fill = FALSE,
                                    ![e].step = IF through THEN "idle" ELSE "record",
                                    ![e].outbox = outbox]
    /\ IF through THEN CommitUpTo(e, n) ELSE UNCHANGED committed
    /\ UNCHANGED <<status, position, orderService, log, owner, topic, dead, faults>>

\* A batch starts where the executor stands.
Poll(e) ==
    LET at == executor[e].at IN
    /\ executor[e].step = "idle" /\ owner = e
    /\ at < Len(log)
    /\ executor' = [executor EXCEPT ![e].step = "record",
                        ![e].last = IF at + MaxPollRecords < Len(log)
                                    THEN at + MaxPollRecords ELSE Len(log)]
    /\ UNCHANGED <<status, position, orderService, kafka, topic, dead, faults>>

\* Broken variant: a redelivery is executed whatever became of the order.
NotWorkingAnyway(o) == FALSE

\* isWorking is false: a previous delivery, or a cancel, has resolved the order.
NotWorking(o) == status[o] # "NEW"

\* Nothing is left to do for the order: the delivery ends here, unpublished.
SkipResolved(e) ==
    /\ executor[e].step = "record" /\ Record(e) # Garbage
    /\ NotWorking(Record(e))
    /\ Acknowledge(e, executor[e].outbox)

\* Broken variant: rule 7 is left to the order service.
HoldingIgnored(o) == TRUE

\* PreTradeChecks.atExecution, rule 7: the shares a SELL sells are held.
HoldingCovers(o) == o \in Sells => position >= Quantity[o]

\* The price and the rules decide; a SELL fills only if the holding is there now.
Decide(e) ==
    LET o == Record(e) IN
    /\ executor[e].step = "record" /\ Record(e) # Garbage
    /\ ~NotWorking(o)
    /\ \E fill \in BOOLEAN :
          /\ fill => HoldingCovers(o)
          /\ executor' = [executor EXCEPT ![e].step = "decided", ![e].fill = fill]
    /\ UNCHANGED <<status, position, orderService, kafka, topic, dead, faults>>

\* Broken variant: the shares sold are taken off whatever is held.
PositionWithoutFloor(o) ==
    IF o \in Sells THEN position - Quantity[o] ELSE position + Quantity[o]

\* writePosition: a SELL that finds less than it sells closes the position.
PositionAfterFill(o) ==
    IF o \notin Sells THEN position + Quantity[o]
    ELSE IF position > Quantity[o] THEN position - Quantity[o] ELSE 0

\* Broken variant: UPDATE orders without AND status = 'NEW'.
SettleMatchesAnyway(o) == TRUE

\* settleIfNew matches a row.
SettleMatches(o) == status[o] = "NEW"

Settle(e) ==
    LET o == Record(e) IN
    /\ executor[e].step = "decided" /\ SettleMatches(o)
    /\ status' = [status EXCEPT ![o] = IF executor[e].fill THEN "FILLED" ELSE "REJECTED"]
    /\ position' = IF executor[e].fill THEN PositionAfterFill(o) ELSE position
    /\ executor' = [executor EXCEPT ![e].step = "settled"]
    /\ UNCHANGED <<orderService, kafka, topic, dead, faults>>

AlreadySettled(e) ==
    /\ executor[e].step = "decided" /\ ~SettleMatches(Record(e))
    /\ Acknowledge(e, executor[e].outbox)

\* The event is handed to the producer, which is not waited for, and the
\* record is acknowledged.
PublishTradeEvent(e) ==
    /\ executor[e].step = "settled"
    /\ Acknowledge(e, Append(executor[e].outbox, [order |-> Record(e), fill |-> executor[e].fill]))

\* The broker takes what the producer of e has had longest.
BrokerTakes(e) ==
    /\ executor[e].outbox # <<>>
    /\ topic' = Append(topic, Head(executor[e].outbox))
    /\ executor' = [executor EXCEPT ![e].outbox = Tail(@)]
    /\ UNCHANGED <<status, position, orderService, kafka, dead, faults>>

\* The error handler gives the record up: on orders.DLT, and past it.  It asks
\* for the offset to be committed; with manual acknowledgement the container
\* may leave that to the next acknowledged record.
DeadLetter(e) ==
    LET n == executor[e].at + 1 IN
    /\ dead' = dead \cup {Record(e)}
    /\ executor' = [executor EXCEPT ![e] = [Fresh(n) EXCEPT !.outbox = executor[e].outbox]]
    /\ CommitUpTo(e, n) \/ UNCHANGED committed
    /\ UNCHANGED <<status, position, orderService, log, owner, topic, faults>>

\* Poison is dead-lettered on the first attempt.
Poison(e) ==
    /\ executor[e].step = "record" /\ Record(e) = Garbage
    /\ DeadLetter(e)

\* Broken variant: a retried record is passed over.
SeekPast(e) == executor[e].at + 1

\* A transient failure is delivered again: the handler seeks back to the record.
SeekBack(e) == executor[e].at

\* Something fails under the listener, at any of its steps.
Fails(e) == executor[e].step # "idle" /\ Record(e) # Garbage

\* A transient failure with attempts left: what was acknowledged before is
\* committed, and the record is delivered again.
Retry(e) ==
    /\ Fails(e) /\ executor[e].attempts + 1 < MaxAttempts
    /\ CommitUpTo(e, SeekBack(e))
    /\ executor' = [executor EXCEPT ![e] =
          [Fresh(SeekBack(e)) EXCEPT !.attempts = executor[e].attempts + 1,
                                     !.outbox = executor[e].outbox]]
    /\ UNCHANGED <<status, position, orderService, log, owner, topic, dead, faults>>

\* The last attempt, or a failure that is not classified as transient.
GiveUp(e) == Fails(e) /\ DeadLetter(e)
-----------------------------------------------------------------------------
(* The group. *)

\* Broken variant: the new owner starts at the end of the partition.
StartsLatest == Len(log)

\* The new owner starts at the committed offset.
StartsAt == committed

\* e, which is polling, is given the partition.
Assigned(e) ==
    /\ executor[e].step = "idle"
    /\ owner' = e
    /\ executor' = [executor EXCEPT ![e] = [Fresh(StartsAt) EXCEPT !.outbox = executor[e].outbox]]
    /\ UNCHANGED <<status, position, orderService, log, committed, topic, dead>>

Assign(e) == owner = NoOne /\ Assigned(e) /\ UNCHANGED faults

\* The owner was slow, or cut off: it works on what it holds until it polls.
TakeOver(e) == owner \notin {NoOne, e} /\ Assigned(e) /\ Fault

Crash(e) ==
    /\ Fault
    /\ executor' = [executor EXCEPT ![e] = Fresh(0)]
    /\ owner' = IF owner = e THEN NoOne ELSE owner
    /\ UNCHANGED <<status, position, orderService, log, committed, topic, dead>>
-----------------------------------------------------------------------------
Next ==
    \/ \E o \in Orders : Accept(o) \/ Send(o) \/ Cancel(o)
    \/ LoseUnsent \/ Stray
    \/ \E e \in Executors :
          \/ Poll(e) \/ SkipResolved(e) \/ Decide(e) \/ Settle(e) \/ AlreadySettled(e)
          \/ PublishTradeEvent(e) \/ BrokerTakes(e)
          \/ Poison(e) \/ Retry(e) \/ GiveUp(e)
          \/ Assign(e) \/ TakeOver(e) \/ Crash(e)

Spec == Init /\ [][Next]_vars

\* A polling consumer polls, a listener that was called goes on, and the
\* coordinator gives a free partition to a live member.
Fairness ==
    /\ \A e \in Executors :
          /\ WF_vars(Poll(e)) /\ WF_vars(SkipResolved(e)) /\ WF_vars(Decide(e))
          /\ WF_vars(Settle(e)) /\ WF_vars(AlreadySettled(e))
          /\ WF_vars(PublishTradeEvent(e)) /\ WF_vars(Poison(e))
    /\ WF_vars(\E e \in Executors : Assign(e))

FairSpec == Spec /\ Fairness
-----------------------------------------------------------------------------
(* Properties. *)

TradeEvent == [order : Orders, fill : BOOLEAN]

\* Every variable has its type.
TypeOK ==
    /\ status \in [Orders -> {"ABSENT", "NEW", "FILLED", "REJECTED", "CANCELLED"}]
    /\ position \in Nat
    /\ accepted \in Seq(Orders) /\ unsent \subseteq Orders
    /\ log \in Seq(Orders \cup {Garbage})
    /\ committed \in 0..Len(log)
    /\ owner \in Executors \cup {NoOne}
    /\ executor \in [Executors ->
          [step : {"idle", "record", "decided", "settled"}, at : 0..Len(log), last : 0..Len(log),
           fill : BOOLEAN, attempts : 0..(MaxAttempts - 1), outbox : Seq(TradeEvent)]]
    /\ topic \in Seq(TradeEvent)
    /\ dead \subseteq Orders \cup {Garbage}
    /\ faults \in 0..MaxFaults

\* The trade events that exist, on the broker or on their way to it.
Events == Range(topic) \cup UNION {Range(executor[e].outbox) : e \in Executors}

(* A delivery repeated by a rebalance, a crash, a retry or a replay never makes
   a second trade event, and none contradicts the order's row: the guarded
   UPDATE lets one settlement through and only that one publishes. *)
EventsTellTheTruth ==
    /\ \A v \in Events : status[v.order] = IF v.fill THEN "FILLED" ELSE "REJECTED"
    /\ \A s \in {topic} \cup {executor[e].outbox : e \in Executors} : IsInjective(s)
    /\ \A e \in Executors : Range(executor[e].outbox) \cap Range(topic) = {}
    /\ \A e, f \in Executors :
          e # f => Range(executor[e].outbox) \cap Range(executor[f].outbox) = {}

(* The committed offset never passes an order that still works, unless that
   order lies on orders.DLT: no crash, retry or reassignment skips a record. *)
NothingSkipped ==
    \A i \in 1..committed :
        log[i] # Garbage /\ log[i] \notin dead => status[log[i]] # "NEW"

Filled(S) == {o \in S : status[o] = "FILLED"}

\* The shares held are those of the fills.
PositionAddsUp ==
    position + Total(Filled(Sells), Quantity)
        = OpeningPosition + Total(Filled(Orders \ Sells), Quantity)

(* No SELL fills beyond the holding, although the holding is read before the
   settlement and nothing reserves it: the partition has one reader at a time
   whose view counts.  An order that was dead-lettered and filled all the same
   is the exception. *)
SoldOnlyHeld == (\A o \in dead \cap Orders : status[o] # "FILLED") => PositionAddsUp

Settled(o) == status[o] = "NEW" /\ status'[o] \in {"FILLED", "REJECTED"}

\* Where o first stands in the partition.
FirstAt(o) == CHOOSE i \in 1..Len(log) : log[i] = o /\ \A j \in 1..(i - 1) : log[j] # o

(* The orders of the account are settled in the order of the partition: when
   one is, every record before its first is resolved or on orders.DLT, also
   when the settlement comes from an executor that lost the partition. *)
SettledInTopicOrder ==
    [][\A o \in Orders : Settled(o) =>
          /\ o \in Range(log)
          /\ \A i \in 1..(FirstAt(o) - 1) :
                log[i] = Garbage \/ log[i] \in dead \/ status[log[i]] # "NEW"]_vars

(* An order on the topic is resolved or dead-lettered in the end, whatever
   record stands before it and whoever reads it. *)
EveryAnnouncedOrderEnds ==
    \A o \in Orders : o \in Range(log) ~> status[o] # "NEW" \/ o \in dead
-----------------------------------------------------------------------------
(* What the documentation says and the code does not do. *)

(* docs/architecture/kafka.md: two orders on one account must execute in the
   order they were accepted. *)
ExecutedAsAccepted ==
    [][\A i, j \in 1..Len(accepted) :
          i < j /\ status[accepted[i]] = "NEW" /\ accepted[i] \notin dead
            => ~Settled(accepted[j])]_vars
=============================================================================
