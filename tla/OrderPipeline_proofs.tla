------------------------ MODULE OrderPipeline_proofs ------------------------
(***************************************************************************)
(* One trade event per order, none of them false, no record skipped and no *)
(* SELL beyond the holding, for any orders, executors, batches and faults. *)
(* The heart of it: whoever stands at a record, owner of the partition or  *)
(* not, has only resolved or dead-lettered records behind it.  So of two   *)
(* executors in different places the one ahead works on an order the other *)
(* must leave alone, or on one that was dead-lettered.                     *)
(***************************************************************************)
EXTENDS OrderPipeline, Integers, FiniteSetTheorems, SequenceTheorems, WellFoundedInduction, Totals_proofs

Statuses == {"ABSENT", "NEW", "FILLED", "REJECTED", "CANCELLED"}

\* Where an executor may stand in a partition of n records.
Places(n) ==
    [step : {"idle", "record", "decided", "settled"}, at : 0..n, last : 0..n,
     fill : BOOLEAN, attempts : 0..(MaxAttempts - 1), outbox : Seq(TradeEvent)]

Outcome(fill) == IF fill THEN "FILLED" ELSE "REJECTED"

\* A record is done once nothing is left to do for it.
Done(i) == log[i] = Garbage \/ log[i] \in dead \/ status[log[i]] # "NEW"

\* An executor with a record in its hands has it from its batch.
InBatch(e) == executor[e].step # "idle" => executor[e].at < executor[e].last

\* What an executor knows of its record.
Holds(e) ==
    /\ executor[e].step \in {"decided", "settled"} => Record(e) # Garbage
    /\ executor[e].step = "settled" => status[Record(e)] = Outcome(executor[e].fill)

\* Only orders that were accepted are announced.
Announced ==
    /\ \A o \in unsent : status[o] # "ABSENT"
    /\ \A i \in 1..Len(log) : log[i] # Garbage => status[log[i]] # "ABSENT"

\* Nobody has passed a record that is not done.
Behind ==
    /\ \A i \in 1..committed : Done(i)
    /\ \A e \in Executors : \A i \in 1..executor[e].at : Done(i)

\* The event of a settlement not published yet is the order's only one.
Unpublished ==
    /\ \A e \in Executors : executor[e].step = "settled" => \A v \in Events : v.order # Record(e)
    /\ \A e, f \in Executors :
          executor[e].step = "settled" /\ executor[f].step = "settled" /\ Record(e) = Record(f) => e = f

\* The holding a decision was taken on is still there when its settlement matches.
DecisionsStand ==
    \A e \in Executors :
        executor[e].step = "decided" /\ executor[e].fill /\ Record(e) \notin dead /\ status[Record(e)] = "NEW"
            => HoldingCovers(Record(e))

NoDeadFilled == \A o \in dead \cap Orders : status[o] # "FILLED"

Inv ==
    /\ TypeOK /\ (\A e \in Executors : InBatch(e) /\ Holds(e))
    /\ Announced /\ Behind
    /\ EventsTellTheTruth /\ Unpublished
    /\ NoDeadFilled => PositionAddsUp /\ DecisionsStand
-----------------------------------------------------------------------------
(* Sequences *)

\* A queue that is given something new.
LEMMA RangeAppend ==
    ASSUME NEW S, NEW s \in Seq(S), NEW x \in S
    PROVE  /\ Range(Append(s, x)) = Range(s) \cup {x}
           /\ IsInjective(s) /\ x \notin Range(s) => IsInjective(Append(s, x))
<1> DEFINE t == Append(s, x)
           n == Len(s)
<1>1. /\ n \in Nat /\ DOMAIN s = 1..n
      /\ t \in Seq(S) /\ Len(t) = n + 1
      /\ \A i \in 1..n : t[i] = s[i]
      /\ t[n + 1] = x
    BY LenProperties, AppendProperties
<1>2. DOMAIN t = 1..(n + 1)
    BY <1>1, LenProperties
<1> HIDE DEF t, n
<1>3. \A i \in 1..(n + 1) : i \in 1..n \/ i = n + 1
    BY <1>1
<1>4. \A i \in 1..n : i \in 1..(n + 1)
    BY <1>1
<1>5. n + 1 \in 1..(n + 1)
    BY <1>1
<1>6. Range(t) = Range(s) \cup {x}
    BY <1>1, <1>2, <1>3, <1>4, <1>5 DEF Range
<1>7. ASSUME IsInjective(s), x \notin Range(s) PROVE IsInjective(t)
    BY <1>1, <1>2, <1>3, <1>7 DEF IsInjective, Range
<1> QED BY <1>6, <1>7 DEF t

\* A queue whose head is taken.
LEMMA RangeTail ==
    ASSUME NEW S, NEW s \in Seq(S), s # <<>>
    PROVE  /\ Head(s) \in S /\ Tail(s) \in Seq(S)
           /\ Range(s) = Range(Tail(s)) \cup {Head(s)}
           /\ IsInjective(s) => IsInjective(Tail(s)) /\ Head(s) \notin Range(Tail(s))
<1> DEFINE t == Tail(s)
           n == Len(t)
<1>1. /\ Head(s) \in S /\ t \in Seq(S) /\ n = Len(s) - 1
      /\ \A i \in 1..n : t[i] = s[i + 1]
    BY HeadTailProperties
<1>2. n \in Nat /\ DOMAIN t = 1..n /\ Len(s) = n + 1 /\ DOMAIN s = 1..(n + 1)
    BY <1>1, LenProperties
<1>3. Head(s) = s[1]
    OBVIOUS
<1> HIDE DEF t, n
<1>4. \A i \in 1..(n + 1) : i = 1 \/ (i - 1 \in 1..n /\ (i - 1) + 1 = i)
    BY <1>2
<1>5. 1 \in 1..(n + 1) /\ \A i \in 1..n : i + 1 \in 1..(n + 1) /\ i + 1 # 1
    BY <1>2
<1>6. Range(s) \subseteq Range(t) \cup {s[1]}
    <2> SUFFICES ASSUME NEW i \in 1..(n + 1) PROVE s[i] \in Range(t) \cup {s[1]}
        BY <1>2 DEF Range
    <2>1. CASE i = 1
        BY <2>1
    <2>2. CASE i - 1 \in 1..n /\ (i - 1) + 1 = i
        <3>1. PICK j \in 1..n : j + 1 = i
            BY <2>2
        <3>2. t[j] = s[i] /\ j \in DOMAIN t
            BY <1>1, <1>2, <3>1
        <3> QED BY <3>2 DEF Range
    <2> QED BY <1>4, <2>1, <2>2
<1>7. Range(t) \cup {s[1]} \subseteq Range(s)
    BY <1>1, <1>2, <1>5 DEF Range
<1>8. ASSUME IsInjective(s) PROVE IsInjective(t) /\ s[1] \notin Range(t)
    <2>1. ASSUME NEW i \in 1..n, NEW j \in 1..n, t[i] = t[j] PROVE i + 1 = j + 1
        <3>1. s[i + 1] = s[j + 1] /\ i + 1 \in 1..(n + 1) /\ j + 1 \in 1..(n + 1)
            BY <1>1, <1>5, <2>1
        <3> QED BY <1>2, <1>8, <3>1 DEF IsInjective
    <2>2. \A i, j \in 1..n : i + 1 = j + 1 => i = j
        BY <1>2
    <2>3. \A i \in 1..n : t[i] # s[1]
        BY <1>1, <1>2, <1>5, <1>8 DEF IsInjective
    <2> QED BY <1>2, <2>1, <2>2, <2>3 DEF IsInjective, Range
<1> QED BY <1>1, <1>3, <1>6, <1>7, <1>8 DEF t

LEMMA RangeEmpty == Range(<<>>) = {} /\ IsInjective(<<>>)
BY DEF Range, IsInjective
-----------------------------------------------------------------------------
(* Where the executors stand *)

LEMMA Standing ==
    ASSUME TypeOK, NEW e \in Executors
    PROVE  /\ Len(log) \in Nat /\ committed \in 0..Len(log)
           /\ executor \in [Executors -> Places(Len(log))]
           /\ executor[e] \in Places(Len(log))
           /\ executor[e].at \in 0..Len(log) /\ executor[e].last \in 0..Len(log)
           /\ executor[e].outbox \in Seq(TradeEvent)
<1>1. Len(log) \in Nat
    BY LenProperties DEF TypeOK
<1>2. executor \in [Executors -> Places(Len(log))] /\ committed \in 0..Len(log)
    BY DEF TypeOK, Places
<1>3. executor[e] \in Places(Len(log))
    BY <1>2
<1> QED BY <1>1, <1>2, <1>3 DEF Places

\* The record in somebody's hands stands in the partition.
LEMMA AtRecord ==
    ASSUME TypeOK, NEW e \in Executors, InBatch(e), executor[e].step # "idle"
    PROVE  /\ executor[e].at + 1 \in 1..Len(log) /\ executor[e].at + 1 \in 0..Len(log)
           /\ executor[e].at + 1 <= executor[e].last
           /\ Record(e) = log[executor[e].at + 1]
           /\ Record(e) \in Orders \cup {Garbage}
<1>1. /\ executor[e].at \in 0..Len(log) /\ executor[e].last \in 0..Len(log) /\ Len(log) \in Nat
      /\ executor[e].at < executor[e].last
    BY Standing DEF InBatch
<1>2. executor[e].at + 1 \in 1..Len(log) /\ executor[e].at + 1 \in 0..Len(log)
      /\ executor[e].at + 1 <= executor[e].last
    BY <1>1
<1>3. log[executor[e].at + 1] \in Orders \cup {Garbage}
    BY <1>2, ElementOfSeq DEF TypeOK
<1> QED BY <1>2, <1>3 DEF Record

Others(e) == \A f \in Executors \ {e} : executor'[f] = executor[f]

\* One executor moves.
LEMMA Moved ==
    ASSUME TypeOK, NEW e \in Executors, NEW place \in Places(Len(log)),
           executor' = [executor EXCEPT ![e] = place]
    PROVE  /\ executor' \in [Executors -> Places(Len(log))]
           /\ executor'[e] = place /\ Others(e)
<1>1. executor \in [Executors -> Places(Len(log))]
    BY DEF TypeOK, Places
<1> QED BY <1>1 DEF Others

\* A delivery that ends well: one record on, at rest at the end of the batch.
LEMMA Acknowledged ==
    ASSUME TypeOK, NEW e \in Executors, InBatch(e), executor[e].step # "idle",
           NEW out \in Seq(TradeEvent), Acknowledge(e, out)
    PROVE  /\ TypeOK' /\ InBatch(e)' /\ Others(e)
           /\ executor'[e].at = executor[e].at + 1 /\ executor'[e].outbox = out
           /\ executor'[e].step \in {"idle", "record"}
           /\ committed' \in {committed, executor[e].at + 1}
           /\ UNCHANGED <<status, position, orderService, log, owner, topic, dead, faults>>
<1> DEFINE n == executor[e].at + 1
           step == IF n = executor[e].last THEN "idle" ELSE "record"
           place == [executor[e] EXCEPT !.at = n, !.attempts = 0, !.fill = FALSE,
                                        !.step = step, !.outbox = out]
<1>1. /\ executor \in [Executors -> Places(Len(log))] /\ executor[e] \in Places(Len(log))
      /\ committed \in 0..Len(log) /\ executor[e].last \in 0..Len(log) /\ Len(log) \in Nat
    BY Standing
<1>2. n \in 0..Len(log) /\ n <= executor[e].last
    BY AtRecord
<1>3. 0 \in 0..(MaxAttempts - 1)
    BY PipelineAssumption
<1>4. place \in Places(Len(log))
    BY <1>1, <1>2, <1>3 DEF Places
<1>5. /\ place.at = n /\ place.outbox = out /\ place.step = step /\ place.last = executor[e].last
    BY <1>1 DEF Places
<1>6. executor' = [executor EXCEPT ![e] = place]
    BY <1>1 DEF Acknowledge
<1>7. /\ committed' \in {committed, n}
      /\ UNCHANGED <<status, position, orderService, log, owner, topic, dead, faults>>
    BY DEF Acknowledge, CommitUpTo
<1> HIDE DEF place
<1>8. executor' \in [Executors -> Places(Len(log))] /\ executor'[e] = place /\ Others(e)
    BY <1>4, <1>6, Moved
<1>9. step # "idle" => n < executor[e].last
    BY <1>1, <1>2
<1>10. TypeOK'
    BY <1>1, <1>2, <1>7, <1>8 DEF TypeOK, Places, orderService
<1>11. InBatch(e)'
    BY <1>5, <1>8, <1>9 DEF InBatch
<1> QED BY <1>5, <1>7, <1>8, <1>10, <1>11

\* At rest at record n, with no more in the producer's hands than before.
AtRest(place, n, out) ==
    /\ place \in Places(Len(log))
    /\ place.step = "idle" /\ place.at = n /\ place.outbox \in {out, <<>>}

LEMMA FreshIsAtRest ==
    ASSUME TypeOK, NEW n \in 0..Len(log), NEW tries \in 0..(MaxAttempts - 1), NEW out \in Seq(TradeEvent)
    PROVE  /\ AtRest(Fresh(n), n, out)
           /\ AtRest([Fresh(n) EXCEPT !.outbox = out], n, out)
           /\ AtRest([Fresh(n) EXCEPT !.attempts = tries, !.outbox = out], n, out)
<1>1. 0 \in 0..(MaxAttempts - 1) /\ <<>> \in Seq(TradeEvent)
    BY PipelineAssumption
<1>2. AtRest(Fresh(n), n, out)
    BY <1>1 DEF AtRest, Fresh, Places
<1>3. AtRest([Fresh(n) EXCEPT !.outbox = out], n, out)
    BY <1>1 DEF AtRest, Fresh, Places
<1>4. AtRest([Fresh(n) EXCEPT !.attempts = tries, !.outbox = out], n, out)
    BY <1>1 DEF AtRest, Fresh, Places
<1> QED BY <1>2, <1>3, <1>4

-----------------------------------------------------------------------------
(* Types, and the place in the batch *)

\* The partition only grows at its end.
LEMMA Announces ==
    ASSUME TypeOK, NEW r \in Orders \cup {Garbage}, log' = Append(log, r)
    PROVE  /\ log' \in Seq(Orders \cup {Garbage}) /\ Len(log') = Len(log) + 1 /\ Len(log) \in Nat
           /\ \A i \in 1..Len(log) : log'[i] = log[i]
           /\ log'[Len(log) + 1] = r
BY AppendProperties, LenProperties DEF TypeOK

LEMMA RoomGrows ==
    ASSUME NEW n \in Nat
    PROVE  0..n \subseteq 0..(n + 1) /\ Places(n) \subseteq Places(n + 1)
<1>1. 0..n \subseteq 0..(n + 1)
    OBVIOUS
<1> QED BY <1>1 DEF Places

\* Requests to the order service.
OrderServiceStep == (\E o \in Orders : Accept(o) \/ Send(o) \/ Cancel(o)) \/ LoseUnsent \/ Stray

LEMMA OrderServiceTypes ==
    ASSUME TypeOK, OrderServiceStep
    PROVE  TypeOK' /\ executor' = executor
<1>1. ASSUME NEW o \in Orders, Accept(o) PROVE TypeOK'
    BY <1>1, AppendProperties DEF Accept, TypeOK, kafka
<1>2. ASSUME NEW o \in Orders, Cancel(o) PROVE TypeOK'
    BY <1>2 DEF Cancel, TypeOK, kafka, orderService
<1>3. CASE LoseUnsent
    BY <1>3, PipelineAssumption DEF LoseUnsent, Fault, TypeOK, kafka
<1>4. ASSUME NEW r \in Orders \cup {Garbage}, log' = Append(log, r), unsent' \subseteq unsent,
             faults' \in 0..MaxFaults,
             UNCHANGED <<status, position, accepted, committed, owner, executor, topic, dead>>
      PROVE  TypeOK'
    <2>1. /\ log' \in Seq(Orders \cup {Garbage}) /\ Len(log') = Len(log) + 1 /\ Len(log) \in Nat
        BY <1>4, Announces
    <2>2. 0..Len(log) \subseteq 0..Len(log') /\ Places(Len(log)) \subseteq Places(Len(log'))
        BY <2>1, RoomGrows
    <2>3. executor \in [Executors -> Places(Len(log))]
        BY DEF TypeOK, Places
    <2>4. executor' \in [Executors -> Places(Len(log'))]
        BY <1>4, <2>2, <2>3
    <2>5. committed' \in 0..Len(log')
        BY <1>4, <2>2 DEF TypeOK
    <2> QED BY <1>4, <2>1, <2>4, <2>5 DEF TypeOK, Places
<1>5. ASSUME NEW o \in Orders, Send(o) PROVE TypeOK'
    BY <1>4, <1>5 DEF Send, TypeOK
<1>6. CASE Stray
    <2>1. faults' \in 0..MaxFaults
        BY <1>6, PipelineAssumption DEF Stray, Fault, TypeOK
    <2> QED BY <1>4, <1>6, <2>1 DEF Stray, orderService
<1>7. executor' = executor
    BY DEF OrderServiceStep, Accept, Send, Cancel, LoseUnsent, Stray
<1> QED BY <1>1, <1>2, <1>3, <1>5, <1>6, <1>7 DEF OrderServiceStep

\* Acknowledging a record, with or without an event.
Acknowledges(e) == SkipResolved(e) \/ AlreadySettled(e) \/ PublishTradeEvent(e)

EventOf(e) == [order |-> Record(e), fill |-> executor[e].fill]

LEMMA AcknowledgesWith ==
    ASSUME TypeOK, NEW e \in Executors, InBatch(e), Holds(e), Acknowledges(e)
    PROVE  /\ executor[e].step # "idle"
           /\ \E out \in Seq(TradeEvent) :
                 /\ Acknowledge(e, out)
                 /\ IF executor[e].step = "settled"
                    THEN EventOf(e) \in TradeEvent /\ out = Append(executor[e].outbox, EventOf(e))
                    ELSE out = executor[e].outbox /\ Done(executor[e].at + 1)
<1>1. executor[e].outbox \in Seq(TradeEvent)
    BY Standing
<1>2. CASE SkipResolved(e)
    BY <1>1, <1>2 DEF SkipResolved, NotWorking, Done, Record
<1>3. CASE AlreadySettled(e)
    BY <1>1, <1>3 DEF AlreadySettled, SettleMatches, Done, Record
<1>4. CASE PublishTradeEvent(e)
    <2>1. executor[e].step = "settled" /\ Record(e) \in Orders
        BY <1>4, AtRecord DEF PublishTradeEvent, Holds
    <2>2. executor[e].fill \in BOOLEAN
        BY Standing DEF Places
    <2>3. EventOf(e) \in TradeEvent
        BY <2>1, <2>2 DEF EventOf, TradeEvent
    <2>4. Append(executor[e].outbox, EventOf(e)) \in Seq(TradeEvent)
        BY <1>1, <2>3, AppendProperties
    <2> QED BY <1>4, <2>1, <2>3, <2>4 DEF PublishTradeEvent, EventOf
<1> QED BY <1>2, <1>3, <1>4 DEF Acknowledges

\* Coming to rest: at the next record, where one stands, or where the group stands.
ComesToRest(e) ==
    Poison(e) \/ Retry(e) \/ GiveUp(e) \/ Assign(e) \/ TakeOver(e) \/ Crash(e)

\* The records an executor at rest, or the group's offset, may have gone past: those it
\* had passed, those committed, and the record it dead-lettered.
Passed(e, n) ==
    n \in {0, executor[e].at, committed} \/ (n = executor[e].at + 1 /\ log[n] \in dead')

LEMMA RestsAt ==
    ASSUME TypeOK, NEW e \in Executors, InBatch(e), ComesToRest(e)
    PROVE  /\ TypeOK' /\ InBatch(e)' /\ Others(e)
           /\ executor'[e].step = "idle"
           /\ executor'[e].outbox \in {executor[e].outbox, <<>>}
           /\ Passed(e, executor'[e].at) /\ Passed(e, committed')
           /\ dead \subseteq dead'
           /\ UNCHANGED <<status, position, orderService, log, topic>>
<1>1. /\ Len(log) \in Nat /\ committed \in 0..Len(log)
      /\ executor[e].at \in 0..Len(log) /\ executor[e].outbox \in Seq(TradeEvent)
      /\ executor[e] \in Places(Len(log))
    BY Standing
<1> DEFINE out == executor[e].outbox
<1>2. 0 \in 0..Len(log) /\ 0 \in 0..(MaxAttempts - 1) /\ <<>> \in Seq(TradeEvent)
    BY <1>1, PipelineAssumption
<1>3. ASSUME NEW n, NEW place, AtRest(place, n, out), executor' = [executor EXCEPT ![e] = place],
             committed' \in 0..Len(log), owner' \in Executors \cup {NoOne},
             dead' \subseteq Orders \cup {Garbage}, faults' \in 0..MaxFaults,
             Passed(e, n), Passed(e, committed'),
             UNCHANGED <<status, position, orderService, log, topic>>
      PROVE  /\ TypeOK' /\ InBatch(e)' /\ Others(e)
             /\ executor'[e].step = "idle"
             /\ executor'[e].outbox \in {executor[e].outbox, <<>>}
             /\ Passed(e, executor'[e].at) /\ Passed(e, committed')
    <2>1. /\ executor' \in [Executors -> Places(Len(log))] /\ Others(e)
          /\ executor'[e].step = "idle" /\ executor'[e].at = n /\ executor'[e].outbox \in {out, <<>>}
        BY <1>3, Moved DEF AtRest
    <2>2. TypeOK'
        BY <1>3, <2>1 DEF TypeOK, Places, orderService
    <2> QED BY <1>3, <2>1, <2>2 DEF InBatch
<1>4. faults' \in 0..MaxFaults /\ owner' \in Executors \cup {NoOne}
    <2>1. faults' = faults \/ Fault
        BY DEF ComesToRest, Poison, Retry, GiveUp, DeadLetter, Assign, TakeOver, Crash
    <2>2. faults' \in 0..MaxFaults
        <3>1. faults \in 0..MaxFaults /\ MaxFaults \in Nat
            BY PipelineAssumption DEF TypeOK
        <3>2. faults' = faults \/ (faults < MaxFaults /\ faults' = faults + 1)
            BY <2>1 DEF Fault
        <3> QED BY <3>1, <3>2
    <2>3. owner' \in Executors \cup {NoOne}
        BY DEF ComesToRest, Poison, Retry, GiveUp, DeadLetter, Assign, Assigned, TakeOver, Crash, TypeOK
    <2> QED BY <2>2, <2>3
<1>5. CASE Poison(e) \/ GiveUp(e)
    <2> DEFINE n == executor[e].at + 1
               place == [Fresh(n) EXCEPT !.outbox = out]
    <2>1. executor[e].step # "idle" /\ DeadLetter(e)
        BY <1>5 DEF Poison, GiveUp, Fails
    <2>2. n \in 0..Len(log) /\ Record(e) = log[n] /\ Record(e) \in Orders \cup {Garbage}
        BY <2>1, AtRecord
    <2>3. /\ dead' = dead \cup {Record(e)} /\ executor' = [executor EXCEPT ![e] = place]
          /\ committed' \in {committed, n}
          /\ UNCHANGED <<status, position, orderService, log, owner, topic, faults>>
        BY <2>1 DEF DeadLetter, CommitUpTo
    <2>4. AtRest(place, n, out)
        BY <1>1, <1>2, <2>2, FreshIsAtRest
    <2>5. Passed(e, n) /\ Passed(e, committed')
        BY <2>2, <2>3 DEF Passed
    <2>6. dead' \subseteq Orders \cup {Garbage} /\ committed' \in 0..Len(log)
        BY <1>1, <2>2, <2>3 DEF TypeOK
    <2> HIDE DEF n, place
    <2> QED BY <1>3, <1>4, <2>3, <2>4, <2>5, <2>6
<1>6. CASE Retry(e)
    <2> DEFINE n == executor[e].at
               tries == executor[e].attempts + 1
               place == [Fresh(n) EXCEPT !.attempts = tries, !.outbox = out]
    <2>1. /\ executor' = [executor EXCEPT ![e] = place] /\ committed' \in {committed, n}
          /\ UNCHANGED <<status, position, orderService, log, owner, topic, dead, faults>>
        BY <1>6 DEF Retry, SeekBack, CommitUpTo
    <2>2. tries \in 0..(MaxAttempts - 1)
        <3>1. executor[e].attempts \in 0..(MaxAttempts - 1) /\ MaxAttempts \in Nat
            BY <1>1, PipelineAssumption DEF Places
        <3>2. tries < MaxAttempts
            BY <1>6 DEF Retry
        <3> QED BY <3>1, <3>2
    <2>3. AtRest(place, n, out)
        BY <1>1, <2>2, FreshIsAtRest
    <2>4. Passed(e, n) /\ Passed(e, committed')
        BY <2>1 DEF Passed
    <2>5. dead' \subseteq Orders \cup {Garbage} /\ committed' \in 0..Len(log)
        BY <1>1, <2>1 DEF TypeOK
    <2> HIDE DEF place
    <2> QED BY <1>3, <1>4, <2>1, <2>3, <2>4, <2>5
<1>7. CASE Assign(e) \/ TakeOver(e)
    <2> DEFINE place == [Fresh(committed) EXCEPT !.outbox = out]
    <2>1. /\ executor' = [executor EXCEPT ![e] = place]
          /\ UNCHANGED <<status, position, orderService, log, committed, topic, dead>>
        BY <1>7 DEF Assign, TakeOver, Assigned, StartsAt
    <2>2. AtRest(place, committed, out)
        BY <1>1, <1>2, FreshIsAtRest
    <2>3. Passed(e, committed) /\ dead' \subseteq Orders \cup {Garbage}
        BY <2>1 DEF Passed, TypeOK
    <2> HIDE DEF place
    <2> QED BY <1>1, <1>3, <1>4, <2>1, <2>2, <2>3
<1>8. CASE Crash(e)
    <2>1. /\ executor' = [executor EXCEPT ![e] = Fresh(0)]
          /\ UNCHANGED <<status, position, orderService, log, committed, topic, dead>>
        BY <1>8 DEF Crash
    <2>2. AtRest(Fresh(0), 0, out)
        BY <1>1, <1>2, FreshIsAtRest
    <2>3. Passed(e, 0) /\ Passed(e, committed) /\ dead' \subseteq Orders \cup {Garbage}
        BY <2>1 DEF Passed, TypeOK
    <2> QED BY <1>1, <1>3, <1>4, <2>1, <2>2, <2>3
<1>9. dead \subseteq dead' /\ UNCHANGED <<status, position, orderService, log, topic>>
    BY DEF ComesToRest, Poison, Retry, GiveUp, DeadLetter, Assign, TakeOver, Assigned, Crash, orderService
<1> QED BY <1>5, <1>6, <1>7, <1>8, <1>9 DEF ComesToRest
\* An executor takes the next batch.
LEMMA Polls ==
    ASSUME TypeOK, NEW e \in Executors, Poll(e)
    PROVE  /\ TypeOK' /\ InBatch(e)' /\ Others(e)
           /\ executor'[e].step = "record" /\ executor'[e].at = executor[e].at
           /\ executor'[e].outbox = executor[e].outbox
           /\ UNCHANGED <<status, position, orderService, kafka, topic, dead, faults>>
<1> DEFINE at == executor[e].at
           last == IF at + MaxPollRecords < Len(log) THEN at + MaxPollRecords ELSE Len(log)
           place == [executor[e] EXCEPT !.step = "record", !.last = last]
<1>1. /\ executor \in [Executors -> Places(Len(log))] /\ executor[e] \in Places(Len(log))
      /\ at \in 0..Len(log) /\ Len(log) \in Nat
    BY Standing
<1>2. at < Len(log) /\ UNCHANGED <<status, position, orderService, kafka, topic, dead, faults>>
    BY DEF Poll
<1>3. last \in 0..Len(log) /\ at < last
    BY <1>1, <1>2, PipelineAssumption
<1>4. /\ place \in Places(Len(log)) /\ place.step = "record" /\ place.at = at /\ place.last = last
      /\ place.outbox = executor[e].outbox
    BY <1>1, <1>3 DEF Places
<1>5. executor' = [executor EXCEPT ![e] = place]
    BY <1>1 DEF Poll
<1> HIDE DEF place, last
<1>6. executor' \in [Executors -> Places(Len(log))] /\ executor'[e] = place /\ Others(e)
    BY <1>4, <1>5, Moved
<1>7. TypeOK'
    BY <1>2, <1>6 DEF TypeOK, Places, orderService, kafka
<1> QED BY <1>2, <1>3, <1>4, <1>6, <1>7 DEF InBatch

\* An executor decides on the record in its hands.
LEMMA Decides ==
    ASSUME TypeOK, NEW e \in Executors, InBatch(e), Decide(e)
    PROVE  /\ TypeOK' /\ InBatch(e)' /\ Others(e)
           /\ executor[e].step # "idle" /\ Record(e) # Garbage
           /\ executor'[e].step = "decided" /\ executor'[e].at = executor[e].at
           /\ executor'[e].outbox = executor[e].outbox
           /\ executor'[e].fill => HoldingCovers(Record(e))
           /\ UNCHANGED <<status, position, orderService, kafka, topic, dead, faults>>
<1>1. /\ executor \in [Executors -> Places(Len(log))] /\ executor[e] \in Places(Len(log))
    BY Standing
<1>2. PICK fill \in BOOLEAN :
            /\ fill => HoldingCovers(Record(e))
            /\ executor' = [executor EXCEPT ![e].step = "decided", ![e].fill = fill]
    BY DEF Decide
<1>3. /\ UNCHANGED <<status, position, orderService, kafka, topic, dead, faults>>
      /\ executor[e].step = "record" /\ Record(e) # Garbage
    BY DEF Decide
<1> DEFINE place == [executor[e] EXCEPT !.step = "decided", !.fill = fill]
<1>4. /\ place \in Places(Len(log)) /\ place.step = "decided" /\ place.at = executor[e].at
      /\ place.last = executor[e].last /\ place.outbox = executor[e].outbox /\ place.fill = fill
    BY <1>1 DEF Places
<1>5. executor' = [executor EXCEPT ![e] = place]
    BY <1>1, <1>2
<1> HIDE DEF place
<1>6. executor' \in [Executors -> Places(Len(log))] /\ executor'[e] = place /\ Others(e)
    BY <1>4, <1>5, Moved
<1>7. TypeOK'
    BY <1>3, <1>6 DEF TypeOK, Places, orderService, kafka
<1>8. InBatch(e)'
    BY <1>3, <1>4, <1>6 DEF InBatch
<1> QED BY <1>2, <1>3, <1>4, <1>6, <1>7, <1>8

\* A settlement commits.
LEMMA Settles ==
    ASSUME TypeOK, NEW e \in Executors, InBatch(e), Holds(e), Settle(e)
    PROVE  /\ TypeOK' /\ InBatch(e)' /\ Others(e)
           /\ executor[e].step = "decided" /\ Record(e) \in Orders
           /\ status[Record(e)] = "NEW"
           /\ status' = [status EXCEPT ![Record(e)] = Outcome(executor[e].fill)]
           /\ position' = IF executor[e].fill THEN PositionAfterFill(Record(e)) ELSE position
           /\ executor'[e].step = "settled" /\ executor'[e].at = executor[e].at
           /\ executor'[e].fill = executor[e].fill
           /\ executor'[e].outbox = executor[e].outbox
           /\ UNCHANGED <<orderService, kafka, topic, dead, faults>>
<1>1. /\ executor \in [Executors -> Places(Len(log))] /\ executor[e] \in Places(Len(log))
    BY Standing
<1>2. /\ executor[e].step = "decided" /\ status[Record(e)] = "NEW"
      /\ status' = [status EXCEPT ![Record(e)] = Outcome(executor[e].fill)]
      /\ position' = IF executor[e].fill THEN PositionAfterFill(Record(e)) ELSE position
      /\ executor' = [executor EXCEPT ![e].step = "settled"]
      /\ UNCHANGED <<orderService, kafka, topic, dead, faults>>
    BY DEF Settle, SettleMatches, Outcome
<1>3. Record(e) \in Orders
    BY <1>2, AtRecord DEF Holds
<1> DEFINE place == [executor[e] EXCEPT !.step = "settled"]
<1>4. /\ place \in Places(Len(log)) /\ place.step = "settled" /\ place.at = executor[e].at
      /\ place.last = executor[e].last /\ place.outbox = executor[e].outbox
      /\ place.fill = executor[e].fill
    BY <1>1 DEF Places
<1>5. executor' = [executor EXCEPT ![e] = place]
    BY <1>1, <1>2
<1> HIDE DEF place
<1>6. executor' \in [Executors -> Places(Len(log))] /\ executor'[e] = place /\ Others(e)
    BY <1>4, <1>5, Moved
<1>7. position' \in Nat
    <2>1. position \in Nat /\ Quantity[Record(e)] \in Nat
        BY <1>3, PipelineAssumption DEF TypeOK
    <2>2. PositionAfterFill(Record(e)) \in Nat
        BY <2>1 DEF PositionAfterFill
    <2> QED BY <1>2, <2>1, <2>2
<1>8. status' \in [Orders -> Statuses]
    BY <1>2 DEF TypeOK, Statuses, Outcome
<1>9. TypeOK'
    BY <1>2, <1>6, <1>7, <1>8 DEF TypeOK, Places, Statuses, orderService, kafka
<1>10. InBatch(e)'
    BY <1>2, <1>4, <1>6 DEF InBatch
<1> QED BY <1>2, <1>3, <1>4, <1>6, <1>9, <1>10

\* The broker takes an event.
LEMMA Takes ==
    ASSUME TypeOK, NEW e \in Executors, InBatch(e), BrokerTakes(e)
    PROVE  /\ TypeOK' /\ InBatch(e)' /\ Others(e)
           /\ executor[e].outbox \in Seq(TradeEvent) /\ executor[e].outbox # <<>>
           /\ Head(executor[e].outbox) \in TradeEvent
           /\ executor'[e].step = executor[e].step /\ executor'[e].at = executor[e].at
           /\ executor'[e].fill = executor[e].fill
           /\ executor'[e].outbox = Tail(executor[e].outbox)
           /\ topic' = Append(topic, Head(executor[e].outbox))
           /\ UNCHANGED <<status, position, orderService, kafka, dead, faults>>
<1> DEFINE out == executor[e].outbox
           place == [executor[e] EXCEPT !.outbox = Tail(out)]
<1>1. /\ executor \in [Executors -> Places(Len(log))] /\ executor[e] \in Places(Len(log))
      /\ out \in Seq(TradeEvent)
    BY Standing
<1>2. /\ out # <<>> /\ topic' = Append(topic, Head(out))
      /\ executor' = [executor EXCEPT ![e] = place]
      /\ UNCHANGED <<status, position, orderService, kafka, dead, faults>>
    BY <1>1 DEF BrokerTakes
<1>3. Head(out) \in TradeEvent /\ Tail(out) \in Seq(TradeEvent)
    BY <1>1, <1>2, RangeTail
<1>4. /\ place \in Places(Len(log)) /\ place.step = executor[e].step /\ place.at = executor[e].at
      /\ place.last = executor[e].last /\ place.fill = executor[e].fill /\ place.outbox = Tail(out)
    BY <1>1, <1>3 DEF Places
<1> HIDE DEF place
<1>5. executor' \in [Executors -> Places(Len(log))] /\ executor'[e] = place /\ Others(e)
    BY <1>2, <1>4, Moved
<1>6. topic' \in Seq(TradeEvent)
    BY <1>2, <1>3, AppendProperties DEF TypeOK
<1>7. TypeOK'
    BY <1>2, <1>5, <1>6 DEF TypeOK, Places, orderService, kafka
<1>8. InBatch(e)'
    BY <1>4, <1>5 DEF InBatch
<1> QED BY <1>1, <1>2, <1>3, <1>4, <1>5, <1>7, <1>8

\* What an executor may do.
ExecutorStep(e) ==
    Acknowledges(e) \/ ComesToRest(e) \/ Poll(e) \/ Decide(e) \/ Settle(e) \/ BrokerTakes(e)

LEMMA NextStep ==
    ASSUME Next
    PROVE  OrderServiceStep \/ \E e \in Executors : ExecutorStep(e)
BY DEF Next, OrderServiceStep, ExecutorStep, Acknowledges, ComesToRest

\* An executor's step is its own, and leaves the order service and the partition alone.
LEMMA ExecutorTypes ==
    ASSUME TypeOK, NEW e \in Executors, InBatch(e), Holds(e), ExecutorStep(e)
    PROVE  TypeOK' /\ InBatch(e)' /\ Others(e) /\ UNCHANGED <<accepted, unsent, log>>
<1>1. CASE Acknowledges(e)
    <2>1. PICK out \in Seq(TradeEvent) : executor[e].step # "idle" /\ Acknowledge(e, out)
        BY <1>1, AcknowledgesWith
    <2> QED BY <2>1, Acknowledged DEF orderService
<1>2. CASE ComesToRest(e)
    BY <1>2, RestsAt DEF orderService
<1>3. CASE Poll(e)
    BY <1>3, Polls DEF orderService, kafka
<1>4. CASE Decide(e)
    BY <1>4, Decides DEF orderService, kafka
<1>5. CASE Settle(e)
    BY <1>5, Settles DEF orderService, kafka
<1>6. CASE BrokerTakes(e)
    BY <1>6, Takes DEF orderService, kafka
<1> QED BY <1>1, <1>2, <1>3, <1>4, <1>5, <1>6 DEF ExecutorStep
-----------------------------------------------------------------------------
(* What a step never takes back *)

\* Orders only move on, the partition only grows, orders.DLT keeps what it has.
Onwards ==
    /\ Len(log) <= Len(log') /\ \A i \in 1..Len(log) : log'[i] = log[i]
    /\ dead \subseteq dead'
    /\ \A o \in Orders : /\ status[o] # "ABSENT" => status'[o] # "ABSENT"
                         /\ status[o] \notin {"ABSENT", "NEW"} => status'[o] = status[o]

LEMMA OrderServiceOnwards ==
    ASSUME TypeOK, OrderServiceStep
    PROVE  /\ Onwards /\ UNCHANGED <<position, topic, dead, committed>>
           /\ \A o \in Orders : status'[o] = "FILLED" => status[o] = "FILLED"
           /\ \A o \in Orders : status[o] # "ABSENT" /\ status'[o] = "NEW" => status[o] = "NEW"
<1>1. Len(log) \in Nat
    BY LenProperties DEF TypeOK
<1>2. ASSUME NEW o \in Orders, Accept(o) \/ Cancel(o)
      PROVE  /\ UNCHANGED <<log, position, topic, dead, committed>>
             /\ status[o] \in {"ABSENT", "NEW"}
             /\ \A p \in Orders : p # o => status'[p] = status[p]
             /\ status'[o] \in {"NEW", "CANCELLED"}
             /\ status[o] = "NEW" => status'[o] = "CANCELLED"
    BY <1>2 DEF Accept, Cancel, TypeOK, kafka
<1>3. ASSUME NEW r \in Orders \cup {Garbage}, log' = Append(log, r),
             UNCHANGED <<status, position, topic, dead, committed>>
      PROVE  Onwards
    BY <1>1, <1>3, Announces DEF Onwards
<1>4. CASE \E o \in Orders : Accept(o) \/ Cancel(o)
    BY <1>1, <1>2, <1>4 DEF Onwards
<1>5. CASE LoseUnsent
    BY <1>1, <1>5 DEF LoseUnsent, Onwards, kafka
<1>6. CASE \E o \in Orders : Send(o)
    BY <1>3, <1>6 DEF Send
<1>7. CASE Stray
    BY <1>3, <1>7 DEF Stray, orderService
<1> QED BY <1>4, <1>5, <1>6, <1>7 DEF OrderServiceStep

LEMMA ExecutorOnwards ==
    ASSUME TypeOK, NEW e \in Executors, InBatch(e), Holds(e), ExecutorStep(e)
    PROVE  Onwards
<1>1. Len(log) \in Nat
    BY Standing
<1>2. log' = log
    BY ExecutorTypes
<1>3. CASE Acknowledges(e)
    <2>1. PICK out \in Seq(TradeEvent) : executor[e].step # "idle" /\ Acknowledge(e, out)
        BY <1>3, AcknowledgesWith
    <2> QED BY <1>1, <1>2, <2>1, Acknowledged DEF Onwards
<1>4. CASE ComesToRest(e)
    BY <1>1, <1>2, <1>4, RestsAt DEF Onwards
<1>5. CASE Poll(e)
    BY <1>1, <1>2, <1>5, Polls DEF Onwards
<1>6. CASE Decide(e)
    BY <1>1, <1>2, <1>6, Decides DEF Onwards
<1>7. CASE Settle(e)
    <2>1. /\ status[Record(e)] = "NEW" /\ dead' = dead
          /\ status' = [status EXCEPT ![Record(e)] = Outcome(executor[e].fill)]
        BY <1>7, Settles
    <2>2. \A o \in Orders : /\ status[o] # "ABSENT" => status'[o] # "ABSENT"
                            /\ status[o] \notin {"ABSENT", "NEW"} => status'[o] = status[o]
        BY <2>1 DEF TypeOK, Outcome
    <2> QED BY <1>1, <1>2, <2>1, <2>2 DEF Onwards
<1>8. CASE BrokerTakes(e)
    BY <1>1, <1>2, <1>8, Takes DEF Onwards
<1> QED BY <1>3, <1>4, <1>5, <1>6, <1>7, <1>8 DEF ExecutorStep

\* A record that is done stays done, and a record in somebody's hands stays the same.
LEMMA DoneStays ==
    ASSUME TypeOK, Announced, Onwards
    PROVE  /\ \A i \in 1..Len(log) : Done(i) => Done(i)'
           /\ \A e \in Executors : InBatch(e) /\ executor[e].step # "idle" /\ executor'[e].at = executor[e].at
                => Record(e)' = Record(e)
<1>1. ASSUME NEW i \in 1..Len(log), Done(i) PROVE Done(i)'
    <2>1. log[i] \in Orders \cup {Garbage} /\ log'[i] = log[i]
        BY ElementOfSeq DEF TypeOK, Onwards
    <2> QED BY <1>1, <2>1 DEF Done, Announced, Onwards, TypeOK
<1>2. ASSUME NEW e \in Executors, InBatch(e), executor[e].step # "idle", executor'[e].at = executor[e].at
      PROVE  Record(e)' = Record(e)
    BY <1>2, AtRecord DEF Record, Onwards
<1> QED BY <1>1, <1>2

LEMMA AnnouncedStep ==
    ASSUME TypeOK, \A e \in Executors : InBatch(e) /\ Holds(e), Announced, Next
    PROVE  Announced'
<1>1. CASE \E e \in Executors : ExecutorStep(e)
    <2>1. Onwards /\ UNCHANGED <<unsent, log>>
        BY <1>1, ExecutorTypes, ExecutorOnwards
    <2>2. \A i \in 1..Len(log) : log[i] \in Orders \cup {Garbage}
        BY ElementOfSeq DEF TypeOK
    <2> QED BY <2>1, <2>2 DEF Announced, Onwards, TypeOK
<1>2. CASE OrderServiceStep
    <2>1. Onwards
        BY <1>2, OrderServiceOnwards
    <2>2. \A i \in 1..Len(log) : log[i] \in Orders \cup {Garbage}
        BY ElementOfSeq DEF TypeOK
    <2>3. \A i \in 1..Len(log) : log'[i] # Garbage => status'[log'[i]] # "ABSENT"
        BY <2>1, <2>2 DEF Announced, Onwards
    <2>4. \A o \in unsent : status'[o] # "ABSENT"
        BY <2>1 DEF Announced, Onwards, TypeOK
    <2>5. ASSUME NEW o \in Orders, Accept(o) PROVE Announced'
        BY <2>3, <2>4, <2>5 DEF Announced, Accept, kafka, TypeOK
    <2>6. ASSUME NEW r \in Orders \cup {Garbage}, log' = Append(log, r), unsent' \subseteq unsent,
                 status' = status, r # Garbage => status[r] # "ABSENT"
          PROVE  Announced'
        <3>1. Len(log') = Len(log) + 1 /\ Len(log) \in Nat /\ log'[Len(log) + 1] = r
            BY <2>6, Announces
        <3>2. \A i \in 1..Len(log') : i \in 1..Len(log) \/ i = Len(log) + 1
            BY <3>1
        <3>3. ASSUME NEW i \in 1..Len(log'), log'[i] # Garbage PROVE status'[log'[i]] # "ABSENT"
            BY <2>3, <2>6, <3>1, <3>2, <3>3
        <3> QED BY <2>4, <2>6, <3>3 DEF Announced
    <2>7. ASSUME NEW o \in Orders, Send(o) PROVE Announced'
        BY <2>6, <2>7 DEF Send, Announced
    <2>8. CASE Stray
        <3>1. PICK r \in {o \in Orders : status[o] # "ABSENT"} \cup {Garbage} : log' = Append(log, r)
            BY <2>8 DEF Stray
        <3> QED BY <2>6, <2>8, <3>1 DEF Stray, orderService
    <2>9. CASE LoseUnsent \/ \E o \in Orders : Cancel(o)
        BY <2>3, <2>4, <2>9 DEF Announced, LoseUnsent, Cancel, kafka, orderService
    <2> QED BY <1>2, <2>5, <2>7, <2>8, <2>9 DEF OrderServiceStep
<1> QED BY <1>1, <1>2, NextStep
-----------------------------------------------------------------------------
(* What lies behind an executor, and what it knows of its record *)

LEMMA HoldsKept ==
    ASSUME TypeOK, Announced, Onwards, NEW f \in Executors, InBatch(f), Holds(f),
           executor'[f].step = executor[f].step, executor'[f].at = executor[f].at,
           executor'[f].fill = executor[f].fill
    PROVE  Holds(f)'
<1>1. CASE executor[f].step \in {"decided", "settled"}
    <2>1. Record(f)' = Record(f) /\ Record(f) # Garbage
        BY <1>1, DoneStays DEF Holds
    <2>2. Record(f) \in Orders
        BY <1>1, <2>1, AtRecord
    <2>3. status[Record(f)] = Outcome(executor[f].fill) => status'[Record(f)] = status[Record(f)]
        BY <2>2 DEF Onwards, Outcome
    <2> QED BY <2>1, <2>3 DEF Holds
<1>2. CASE executor[f].step \notin {"decided", "settled"}
    BY <1>2 DEF Holds
<1> QED BY <1>1, <1>2

LEMMA HoldsStep ==
    ASSUME TypeOK, \A e \in Executors : InBatch(e) /\ Holds(e), Announced, Next
    PROVE  \A f \in Executors : InBatch(f)' /\ Holds(f)'
<1>1. CASE OrderServiceStep
    <2>1. Onwards /\ executor' = executor
        BY <1>1, OrderServiceOnwards, OrderServiceTypes
    <2> QED BY <2>1, HoldsKept DEF InBatch
<1>2. ASSUME NEW e \in Executors, ExecutorStep(e)
      PROVE  \A f \in Executors : InBatch(f)' /\ Holds(f)'
    <2>1. Onwards /\ InBatch(e)' /\ Others(e) /\ log' = log
        BY <1>2, ExecutorOnwards, ExecutorTypes
    <2>2. \A f \in Executors \ {e} : InBatch(f)' /\ Holds(f)'
        BY <2>1, HoldsKept DEF Others, InBatch
    <2>3. CASE Acknowledges(e) \/ ComesToRest(e) \/ Poll(e)
        <3>1. executor'[e].step \in {"idle", "record"}
            <4>1. CASE Acknowledges(e)
                BY <4>1, AcknowledgesWith, Acknowledged
            <4>2. CASE ComesToRest(e)
                BY <4>2, RestsAt
            <4>3. CASE Poll(e)
                BY <4>3, Polls
            <4> QED BY <2>3, <4>1, <4>2, <4>3
        <3> QED BY <2>1, <2>2, <3>1 DEF Holds
    <2>4. CASE Decide(e)
        <3>1. /\ executor[e].step # "idle" /\ Record(e) # Garbage
              /\ executor'[e].step = "decided" /\ executor'[e].at = executor[e].at
            BY <2>4, Decides
        <3>2. Record(e)' = Record(e)
            BY <2>1, <3>1, DoneStays
        <3> QED BY <2>1, <2>2, <3>1, <3>2 DEF Holds
    <2>5. CASE Settle(e)
        <3>1. /\ executor[e].step = "decided" /\ Record(e) \in Orders
              /\ status' = [status EXCEPT ![Record(e)] = Outcome(executor[e].fill)]
              /\ executor'[e].step = "settled" /\ executor'[e].at = executor[e].at
              /\ executor'[e].fill = executor[e].fill
            BY <2>5, Settles
        <3>2. Record(e)' = Record(e)
            BY <2>1, <3>1, DoneStays
        <3>3. status'[Record(e)] = Outcome(executor[e].fill)
            BY <3>1 DEF TypeOK
        <3>4. Record(e) # Garbage
            BY <3>1, PipelineAssumption
        <3> QED BY <2>1, <2>2, <3>1, <3>2, <3>3, <3>4 DEF Holds
    <2>6. CASE BrokerTakes(e)
        <3>1. /\ executor'[e].step = executor[e].step /\ executor'[e].at = executor[e].at
              /\ executor'[e].fill = executor[e].fill
            BY <2>6, Takes
        <3> QED BY <2>1, <2>2, <3>1, HoldsKept
    <2> QED BY <1>2, <2>3, <2>4, <2>5, <2>6 DEF ExecutorStep
<1> QED BY <1>1, <1>2, NextStep

\* A record passed before the step is still done after it.
LEMMA BehindKept ==
    ASSUME TypeOK, Announced, Onwards, Behind
    PROVE  /\ \A i \in 1..committed : Done(i)'
           /\ \A e \in Executors : \A i \in 1..executor[e].at : Done(i)'
<1>1. \A i \in 1..Len(log) : Done(i) => Done(i)'
    BY DoneStays
<1>2. Len(log) \in Nat /\ committed \in 0..Len(log)
    BY LenProperties DEF TypeOK
<1>3. 1..committed \subseteq 1..Len(log)
    BY <1>2
<1>4. ASSUME NEW e \in Executors PROVE 1..executor[e].at \subseteq 1..Len(log)
    <2>1. executor[e].at \in 0..Len(log)
        BY Standing
    <2> QED BY <1>2, <2>1
<1> QED BY <1>1, <1>3, <1>4 DEF Behind

LEMMA BehindStep ==
    ASSUME TypeOK, \A e \in Executors : InBatch(e) /\ Holds(e), Announced, Behind, Next
    PROVE  Behind'
<1>1. CASE OrderServiceStep
    <2>1. Onwards /\ executor' = executor /\ committed' = committed
        BY <1>1, OrderServiceOnwards, OrderServiceTypes
    <2> QED BY <2>1, BehindKept DEF Behind
<1>2. ASSUME NEW e \in Executors, ExecutorStep(e)
      PROVE  Behind'
    <2>1. Onwards /\ Others(e) /\ log' = log
        BY <1>2, ExecutorOnwards, ExecutorTypes
    <2>2. /\ \A i \in 1..committed : Done(i)'
          /\ \A f \in Executors : \A i \in 1..executor[f].at : Done(i)'
        BY <2>1, BehindKept
    <2>3. /\ Len(log) \in Nat /\ executor[e].at \in 0..Len(log) /\ committed \in 0..Len(log)
        BY Standing
    <2>4. SUFFICES /\ \A i \in 1..committed' : Done(i)'
                   /\ \A i \in 1..executor'[e].at : Done(i)'
        BY <2>1, <2>2 DEF Behind, Others
    <2>5. CASE Acknowledges(e)
        <3>1. executor[e].step # "idle"
            BY <2>5, AcknowledgesWith
        <3>2. PICK n \in 1..Len(log) : n = executor[e].at + 1
            BY <3>1, AtRecord
        <3>3. PICK out \in Seq(TradeEvent) :
                 /\ Acknowledge(e, out)
                 /\ executor[e].step # "settled" => Done(n)
            BY <2>5, <3>2, AcknowledgesWith
        <3>4. executor[e].step = "settled" => Done(n)
            BY <3>1, <3>2, AtRecord DEF Holds, Outcome, Done
        <3>5. Done(n)'
            BY <2>1, <3>3, <3>4, DoneStays
        <3>6. \A i \in 1..n : i \in 1..executor[e].at \/ i = n
            BY <2>3, <3>2
        <3>7. executor'[e].at = n /\ committed' \in {committed, n}
            BY <3>1, <3>2, <3>3, Acknowledged
        <3>8. \A i \in 1..n : Done(i)'
            BY <2>2, <3>5, <3>6
        <3> QED BY <2>2, <3>7, <3>8
    <2>6. CASE ComesToRest(e)
        <3>1. Passed(e, executor'[e].at) /\ Passed(e, committed')
            BY <2>6, RestsAt
        <3>2. ASSUME NEW n, Passed(e, n) PROVE \A i \in 1..n : Done(i)'
            <4>1. CASE n \in {0, executor[e].at, committed}
                BY <2>2, <4>1
            <4>2. CASE n = executor[e].at + 1 /\ log[n] \in dead'
                <5>1. \A i \in 1..n : i \in 1..executor[e].at \/ i = n
                    BY <2>3, <4>2
                <5>2. Done(n)'
                    BY <2>1, <4>2 DEF Done
                <5> QED BY <2>2, <5>1, <5>2
            <4> QED BY <3>2, <4>1, <4>2 DEF Passed
        <3> QED BY <3>1, <3>2
    <2>7. CASE Poll(e)
        BY <2>2, <2>7, Polls DEF kafka
    <2>8. CASE Decide(e)
        BY <2>2, <2>8, Decides DEF kafka
    <2>9. CASE Settle(e)
        BY <2>2, <2>9, Settles DEF kafka
    <2>10. CASE BrokerTakes(e)
        BY <2>2, <2>10, Takes DEF kafka
    <2> QED BY <1>2, <2>5, <2>6, <2>7, <2>8, <2>9, <2>10 DEF ExecutorStep
<1> QED BY <1>1, <1>2, NextStep
-----------------------------------------------------------------------------
(* The trade events *)

LEMMA InEvents ==
    ASSUME TypeOK
    PROVE  /\ Range(topic) \subseteq Events
           /\ \A e \in Executors : Range(executor[e].outbox) \subseteq Events
           /\ \A v \in Events : v \in Range(topic) \/ \E e \in Executors : v \in Range(executor[e].outbox)
           /\ \A v \in Events : v \in TradeEvent /\ v.order \in Orders /\ v.fill \in BOOLEAN
<1>1. \A e \in Executors : executor[e].outbox \in Seq(TradeEvent)
    BY Standing
<1>2. \A s \in Seq(TradeEvent) : Range(s) \subseteq TradeEvent
    BY LenProperties, ElementOfSeq DEF Range
<1>3. topic \in Seq(TradeEvent)
    BY DEF TypeOK
<1>4. /\ Range(topic) \subseteq Events
      /\ \A e \in Executors : Range(executor[e].outbox) \subseteq Events
      /\ \A v \in Events : v \in Range(topic) \/ \E e \in Executors : v \in Range(executor[e].outbox)
    BY DEF Events
<1>5. \A v \in Events : v \in TradeEvent
    BY <1>1, <1>2, <1>3, <1>4
<1> QED BY <1>4, <1>5 DEF TradeEvent

Told == EventsTellTheTruth /\ Unpublished

Known == TypeOK /\ (\A e \in Executors : InBatch(e) /\ Holds(e)) /\ Announced

\* An event keeps its truth.
LEMMA TruthStays ==
    ASSUME Known, Told, Onwards, NEW v \in Events
    PROVE  status'[v.order] = status[v.order] /\ status'[v.order] = Outcome(v.fill)
<1>1. v.order \in Orders /\ status[v.order] = Outcome(v.fill)
    BY InEvents DEF Known, Told, EventsTellTheTruth, Outcome
<1> QED BY <1>1 DEF Onwards, Outcome

\* Nobody publishes, and nobody settles: events may only be lost.
LEMMA EventsKept ==
    ASSUME Known, Told, Onwards, topic' = topic,
           \A f \in Executors :
              /\ executor'[f].outbox \in {executor[f].outbox, <<>>}
              /\ executor'[f].step = "settled" =>
                    executor[f].step = "settled" /\ executor'[f].at = executor[f].at
    PROVE  Told'
<1>1. \A f \in Executors : Range(executor'[f].outbox) \subseteq Range(executor[f].outbox)
    BY RangeEmpty
<1>2. Events' \subseteq Events
    BY <1>1 DEF Events
<1>3. \A v \in Events' : status'[v.order] = Outcome(v.fill)
    BY <1>2, TruthStays
<1>4. \A f \in Executors : IsInjective(executor'[f].outbox)
    BY RangeEmpty DEF Told, EventsTellTheTruth
<1>5. \A f \in Executors : executor'[f].step = "settled" =>
          executor[f].step = "settled" /\ Record(f)' = Record(f)
    BY DoneStays DEF Known
<1>6. EventsTellTheTruth'
    <2>1. IsInjective(topic')
        BY DEF Told, EventsTellTheTruth
    <2>2. \A f \in Executors : Range(executor'[f].outbox) \cap Range(topic') = {}
        BY <1>1 DEF Told, EventsTellTheTruth
    <2>3. \A e, f \in Executors : e # f => Range(executor'[e].outbox) \cap Range(executor'[f].outbox) = {}
        BY <1>1 DEF Told, EventsTellTheTruth
    <2> QED BY <1>3, <1>4, <2>1, <2>2, <2>3 DEF EventsTellTheTruth, Outcome
<1>7. Unpublished'
    BY <1>2, <1>5 DEF Told, Unpublished
<1> QED BY <1>6, <1>7 DEF Told

\* The event of a settlement is handed over: it is new.
LEMMA EventPublished ==
    ASSUME Known, Told, Onwards, NEW e \in Executors,
           executor[e].step = "settled", EventOf(e) \in TradeEvent,
           executor'[e].outbox = Append(executor[e].outbox, EventOf(e)),
           executor'[e].step # "settled", Others(e), UNCHANGED <<status, topic, log>>
    PROVE  Told'
<1>1. PICK v \in TradeEvent : v = EventOf(e)
    OBVIOUS
<1>2. v.order = Record(e) /\ v.fill = executor[e].fill
    BY <1>1 DEF EventOf
<1>3. v \notin Events
    BY <1>2 DEF Told, Unpublished
<1>4. /\ executor[e].outbox \in Seq(TradeEvent)
      /\ v \notin Range(executor[e].outbox) /\ v \notin Range(topic)
      /\ \A f \in Executors : v \notin Range(executor[f].outbox)
    BY <1>3, InEvents, Standing DEF Known
<1>5. /\ Range(executor'[e].outbox) = Range(executor[e].outbox) \cup {v}
      /\ IsInjective(executor'[e].outbox)
    BY <1>1, <1>4, RangeAppend DEF Told, EventsTellTheTruth
<1>6. \A f \in Executors \ {e} : executor'[f] = executor[f]
    BY DEF Others
<1>7. Events' \subseteq Events \cup {v}
    BY <1>5, <1>6 DEF Events
<1>8. status[v.order] = Outcome(v.fill)
    BY <1>2 DEF Known, Holds
<1>9. \A w \in Events' : status'[w.order] = Outcome(w.fill)
    BY <1>7, <1>8 DEF Told, EventsTellTheTruth, Outcome
<1>10. EventsTellTheTruth'
    <2>1. IsInjective(topic') /\ \A f \in Executors : IsInjective(executor'[f].outbox)
        BY <1>5, <1>6 DEF Told, EventsTellTheTruth
    <2>2. \A f \in Executors : Range(executor'[f].outbox) \cap Range(topic') = {}
        <3> TAKE f \in Executors
        <3>1. Range(executor[f].outbox) \cap Range(topic) = {} /\ topic' = topic
            BY DEF Told, EventsTellTheTruth
        <3>2. CASE f = e
            BY <1>4, <1>5, <3>1, <3>2
        <3>3. CASE f # e
            BY <1>6, <3>1, <3>3
        <3> QED BY <3>2, <3>3
    <2>3. ASSUME NEW f \in Executors, NEW g \in Executors, f # g
          PROVE  Range(executor'[f].outbox) \cap Range(executor'[g].outbox) = {}
        <3>1. Range(executor[f].outbox) \cap Range(executor[g].outbox) = {}
            BY <2>3 DEF Told, EventsTellTheTruth
        <3> QED BY <1>4, <1>5, <1>6, <2>3, <3>1
    <2> QED BY <1>9, <2>1, <2>2, <2>3 DEF EventsTellTheTruth, Outcome
<1>11. \A f \in Executors : executor'[f].step = "settled" =>
          f # e /\ executor[f].step = "settled" /\ Record(f)' = Record(f)
    BY <1>6 DEF Record
<1>12. Unpublished'
    <2>1. \A f \in Executors : executor'[f].step = "settled" => Record(f) # v.order
        BY <1>2, <1>11 DEF Told, Unpublished
    <2> QED BY <1>7, <1>11, <2>1 DEF Told, Unpublished
<1> QED BY <1>10, <1>12 DEF Told

\* An order settles: no event of it exists, and nobody else settled it.
LEMMA EventOwed ==
    ASSUME Known, Told, NEW e \in Executors, Settle(e)
    PROVE  Told'
<1>1. /\ Others(e) /\ Record(e) \in Orders /\ status[Record(e)] = "NEW"
      /\ executor[e].step = "decided"
      /\ executor'[e].step = "settled" /\ executor'[e].at = executor[e].at
      /\ executor'[e].outbox = executor[e].outbox
      /\ topic' = topic /\ log' = log
    BY Settles DEF Known, kafka
<1>2. Onwards
    BY ExecutorOnwards DEF Known, ExecutorStep
<1>3. \A f \in Executors : executor'[f].outbox = executor[f].outbox /\ executor'[f].at = executor[f].at
    BY <1>1 DEF Others
<1>4. Events' = Events
    BY <1>1, <1>3 DEF Events
<1>5. \A f \in Executors : Record(f)' = Record(f)
    BY <1>1, <1>3 DEF Record
<1>6. \A v \in Events : v.order # Record(e)
    BY <1>1 DEF Told, EventsTellTheTruth
<1>7. \A f \in Executors : executor[f].step = "settled" => Record(f) # Record(e)
    BY <1>1 DEF Known, Holds, Outcome
<1>8. \A f \in Executors : executor'[f].step = "settled" => f = e \/ executor[f].step = "settled"
    BY <1>1 DEF Others
<1>9. EventsTellTheTruth'
    <2>1. \A v \in Events' : status'[v.order] = Outcome(v.fill)
        BY <1>2, <1>4, TruthStays
    <2> QED BY <1>1, <1>3, <2>1 DEF Told, EventsTellTheTruth, Outcome
<1>10. Unpublished'
    BY <1>4, <1>5, <1>6, <1>7, <1>8 DEF Told, Unpublished
<1> QED BY <1>9, <1>10 DEF Told

\* The broker takes an event: it is where it was not, and no longer where it was.
LEMMA EventTaken ==
    ASSUME Known, Told, NEW e \in Executors, BrokerTakes(e)
    PROVE  Told'
<1>1. PICK v \in TradeEvent : v = Head(executor[e].outbox)
    BY Takes DEF Known
<1>2. /\ Others(e) /\ executor[e].outbox \in Seq(TradeEvent) /\ executor[e].outbox # <<>>
      /\ executor'[e].step = executor[e].step /\ executor'[e].at = executor[e].at
      /\ executor'[e].outbox = Tail(executor[e].outbox)
      /\ topic' = Append(topic, v)
      /\ status' = status /\ log' = log
    BY <1>1, Takes DEF Known, kafka
<1>3. /\ Range(executor[e].outbox) = Range(executor'[e].outbox) \cup {v}
      /\ IsInjective(executor'[e].outbox) /\ v \notin Range(executor'[e].outbox)
    BY <1>1, <1>2, RangeTail DEF Told, EventsTellTheTruth
<1>4. v \notin Range(topic) /\ \A f \in Executors \ {e} : v \notin Range(executor[f].outbox)
    BY <1>3 DEF Told, EventsTellTheTruth
<1>5. Range(topic') = Range(topic) \cup {v} /\ IsInjective(topic')
    BY <1>2, <1>4, RangeAppend DEF Told, EventsTellTheTruth, Known, TypeOK
<1>6. \A f \in Executors \ {e} : executor'[f] = executor[f]
    BY <1>2 DEF Others
<1>7. Events' \subseteq Events
    BY <1>3, <1>5, <1>6 DEF Events
<1>8. EventsTellTheTruth'
    <2>1. \A f \in Executors : IsInjective(executor'[f].outbox)
        BY <1>3, <1>6 DEF Told, EventsTellTheTruth
    <2>2. \A f \in Executors : Range(executor'[f].outbox) \cap Range(topic') = {}
        <3> TAKE f \in Executors
        <3>1. Range(executor[f].outbox) \cap Range(topic) = {}
            BY DEF Told, EventsTellTheTruth
        <3>2. Range(executor'[f].outbox) \subseteq Range(executor[f].outbox) \ {v}
            <4>1. CASE f = e
                BY <1>3, <4>1
            <4>2. CASE f # e
                BY <1>4, <1>6, <4>2
            <4> QED BY <4>1, <4>2
        <3> QED BY <1>5, <3>1, <3>2
    <2>3. ASSUME NEW f \in Executors, NEW g \in Executors, f # g
          PROVE  Range(executor'[f].outbox) \cap Range(executor'[g].outbox) = {}
        <3>1. Range(executor[f].outbox) \cap Range(executor[g].outbox) = {}
            BY <2>3 DEF Told, EventsTellTheTruth
        <3> QED BY <1>3, <1>6, <2>3, <3>1
    <2>4. \A w \in Events' : status'[w.order] = Outcome(w.fill)
        BY <1>2, <1>7 DEF Told, EventsTellTheTruth, Outcome
    <2> QED BY <1>5, <2>1, <2>2, <2>3, <2>4 DEF EventsTellTheTruth, Outcome
<1>9. \A f \in Executors : executor'[f].step = executor[f].step /\ Record(f)' = Record(f)
    BY <1>2, <1>6 DEF Record
<1>10. Unpublished'
    BY <1>7, <1>9 DEF Told, Unpublished
<1> QED BY <1>8, <1>10 DEF Told

LEMMA ToldStep ==
    ASSUME Known, Told, Next
    PROVE  Told'
<1>1. CASE OrderServiceStep
    <2>1. Onwards /\ executor' = executor /\ topic' = topic
        BY <1>1, OrderServiceOnwards, OrderServiceTypes DEF Known
    <2> QED BY <2>1, EventsKept
<1>2. ASSUME NEW e \in Executors, ExecutorStep(e)
      PROVE  Told'
    <2>1. Onwards /\ Others(e) /\ log' = log
        BY <1>2, ExecutorOnwards, ExecutorTypes DEF Known
    <2>2. ASSUME topic' = topic, executor'[e].outbox \in {executor[e].outbox, <<>>},
                 executor'[e].step # "settled"
          PROVE  Told'
        BY <2>1, <2>2, EventsKept DEF Others
    <2>3. CASE Acknowledges(e)
        <3>1. PICK out \in Seq(TradeEvent) :
                 /\ executor[e].step # "idle" /\ Acknowledge(e, out)
                 /\ IF executor[e].step = "settled"
                    THEN EventOf(e) \in TradeEvent /\ out = Append(executor[e].outbox, EventOf(e))
                    ELSE out = executor[e].outbox
            BY <2>3, AcknowledgesWith DEF Known
        <3>2. /\ executor'[e].outbox = out /\ executor'[e].step \in {"idle", "record"}
              /\ UNCHANGED <<status, topic>>
            BY <3>1, Acknowledged DEF Known
        <3>3. CASE executor[e].step = "settled"
            BY <2>1, <3>1, <3>2, <3>3, EventPublished
        <3>4. CASE executor[e].step # "settled"
            BY <2>2, <3>1, <3>2, <3>4
        <3> QED BY <3>3, <3>4
    <2>4. CASE ComesToRest(e)
        BY <2>2, <2>4, RestsAt DEF Known
    <2>5. CASE Poll(e)
        BY <2>2, <2>5, Polls DEF Known
    <2>6. CASE Decide(e)
        BY <2>2, <2>6, Decides DEF Known
    <2>7. CASE Settle(e)
        BY <2>7, EventOwed
    <2>8. CASE BrokerTakes(e)
        BY <2>8, EventTaken
    <2> QED BY <1>2, <2>3, <2>4, <2>5, <2>6, <2>7, <2>8 DEF ExecutorStep
<1> QED BY <1>1, <1>2, NextStep
-----------------------------------------------------------------------------
(* The holding *)

\* The promise holds until an order that was dead-lettered fills all the same.
Covered == NoDeadFilled => PositionAddsUp /\ DecisionsStand

LEMMA FilledFinite ==
    /\ \A S \in SUBSET Orders : IsFiniteSet(Filled(S)) /\ Filled(S) \subseteq Orders
    /\ \A o \in Orders : Quantity[o] \in Nat /\ Quantity[o] \in Nat \ {0}
    /\ Sells \in SUBSET Orders /\ Orders \ Sells \in SUBSET Orders /\ OpeningPosition \in Nat
<1>1. ASSUME NEW S \in SUBSET Orders PROVE IsFiniteSet(Filled(S)) /\ Filled(S) \subseteq Orders
    <2>1. Filled(S) \in SUBSET Orders
        BY DEF Filled
    <2> QED BY <2>1, FS_Subset, PipelineAssumption
<1> QED BY <1>1, PipelineAssumption

\* A dead-lettered order that filled stays so.
LEMMA DeadFilledStays ==
    ASSUME TypeOK, Onwards, NoDeadFilled'
    PROVE  NoDeadFilled
BY DEF NoDeadFilled, Onwards

\* Nothing fills, and every decision is an old one or was checked just now.
LEMMA CoveredKept ==
    ASSUME Known, Covered, Onwards, position' = position,
           \A o \in Orders : status'[o] = "FILLED" => status[o] = "FILLED",
           \A o \in Orders : status[o] # "ABSENT" /\ status'[o] = "NEW" => status[o] = "NEW",
           \A f \in Executors : executor'[f].step = "decided" /\ executor'[f].fill =>
              /\ executor[f].step # "idle" /\ Record(f) # Garbage
              /\ executor'[f].at = executor[f].at
              /\ HoldingCovers(Record(f)) \/ (executor[f].step = "decided" /\ executor[f].fill)
    PROVE  Covered'
<1> SUFFICES ASSUME NoDeadFilled' PROVE PositionAddsUp' /\ DecisionsStand'
    BY DEF Covered
<1>1. PositionAddsUp /\ DecisionsStand
    BY DeadFilledStays DEF Covered, Known
<1>2. PositionAddsUp'
    <2>1. \A o \in Orders : status'[o] = "FILLED" <=> status[o] = "FILLED"
        BY DEF Onwards
    <2>2. \A S \in SUBSET Orders : Filled(S)' = Filled(S)
        BY <2>1 DEF Filled
    <2>3. Filled(Sells)' = Filled(Sells) /\ Filled(Orders \ Sells)' = Filled(Orders \ Sells)
        BY <2>2, FilledFinite
    <2> QED BY <1>1, <2>3 DEF PositionAddsUp
<1>3. ASSUME NEW f \in Executors,
             executor'[f].step = "decided", executor'[f].fill,
             Record(f)' \notin dead', status'[Record(f)'] = "NEW"
      PROVE  HoldingCovers(Record(f))'
    <2>1. /\ executor[f].step # "idle" /\ Record(f) # Garbage /\ executor'[f].at = executor[f].at
          /\ HoldingCovers(Record(f)) \/ (executor[f].step = "decided" /\ executor[f].fill)
        BY <1>3
    <2>2. Record(f)' = Record(f) /\ Record(f) \in Orders
        BY <2>1, DoneStays, AtRecord DEF Known
    <2>3. status[Record(f)] # "ABSENT"
        BY <2>1, AtRecord DEF Known, Announced
    <2>4. Record(f) \notin dead /\ status[Record(f)] = "NEW"
        BY <1>3, <2>2, <2>3 DEF Onwards
    <2>5. HoldingCovers(Record(f))
        BY <1>1, <2>1, <2>4 DEF DecisionsStand
    <2> QED BY <2>2, <2>5 DEF HoldingCovers
<1>4. DecisionsStand'
    BY <1>3 DEF DecisionsStand
<1> QED BY <1>2, <1>4

\* A fill moves the holding by its order's shares.
LEMMA FillAddsUp ==
    ASSUME TypeOK, PositionAddsUp, NEW o \in Orders, status[o] = "NEW", HoldingCovers(o),
           status' = [status EXCEPT ![o] = "FILLED"], position' = PositionAfterFill(o)
    PROVE  PositionAddsUp'
<1> DEFINE sold == Filled(Sells)
           bought == Filled(Orders \ Sells)
<1>1. /\ IsFiniteSet(sold) /\ sold \subseteq Orders /\ IsFiniteSet(bought) /\ bought \subseteq Orders
      /\ \A p \in Orders : Quantity[p] \in Nat
      /\ OpeningPosition \in Nat /\ Sells \subseteq Orders
    BY FilledFinite
<1>2. o \notin sold /\ o \notin bought /\ position \in Nat
    BY DEF Filled, TypeOK
<1>3. Total(sold, Quantity) \in Nat /\ Total(bought, Quantity) \in Nat
    BY <1>1, TotalNat
<1>4. position + Total(sold, Quantity) = OpeningPosition + Total(bought, Quantity)
    BY DEF PositionAddsUp
<1>5. CASE o \in Sells
    <2>1. Filled(Sells)' = sold \cup {o} /\ Filled(Orders \ Sells)' = bought
        BY <1>1, <1>5 DEF Filled, TypeOK
    <2>2. Total(sold \cup {o}, Quantity) = Total(sold, Quantity) + Quantity[o]
        <3> HIDE DEF sold
        <3> QED BY <1>1, <1>2, TotalAdd
    <2>3. position >= Quantity[o] /\ position' = IF position > Quantity[o] THEN position - Quantity[o] ELSE 0
        BY <1>5 DEF HoldingCovers, PositionAfterFill
    <2>4. position' = position - Quantity[o] /\ position' \in Nat
        BY <1>1, <1>2, <2>3
    <2>5. position' + (Total(sold, Quantity) + Quantity[o]) = OpeningPosition + Total(bought, Quantity)
        BY <1>1, <1>2, <1>3, <1>4, <2>4
    <2> QED BY <2>1, <2>2, <2>5 DEF PositionAddsUp
<1>6. CASE o \notin Sells
    <2>1. Filled(Sells)' = sold /\ Filled(Orders \ Sells)' = bought \cup {o}
        BY <1>1, <1>6 DEF Filled, TypeOK
    <2>2. Total(bought \cup {o}, Quantity) = Total(bought, Quantity) + Quantity[o]
        <3> HIDE DEF bought
        <3> QED BY <1>1, <1>2, TotalAdd
    <2>3. position' = position + Quantity[o]
        BY <1>6 DEF PositionAfterFill
    <2>4. position' + Total(sold, Quantity) = OpeningPosition + (Total(bought, Quantity) + Quantity[o])
        BY <1>1, <1>2, <1>3, <1>4, <2>3
    <2> QED BY <2>1, <2>2, <2>4 DEF PositionAddsUp
<1> QED BY <1>5, <1>6

\* Of two decisions that may both still settle, one is of a dead-lettered order.
LEMMA OneDecision ==
    ASSUME Known, Behind, NEW e \in Executors, NEW f \in Executors,
           executor[e].step = "decided", executor[f].step = "decided", Record(e) # Record(f),
           status[Record(e)] = "NEW", status[Record(f)] = "NEW"
    PROVE  Record(e) \in dead \/ Record(f) \in dead
<1>1. /\ executor[e].at + 1 \in 1..Len(log) /\ Record(e) = log[executor[e].at + 1] /\ Record(e) # Garbage
      /\ executor[f].at + 1 \in 1..Len(log) /\ Record(f) = log[executor[f].at + 1] /\ Record(f) # Garbage
    BY AtRecord DEF Known, Holds
<1>2. executor[e].at \in Nat /\ executor[f].at \in Nat
    BY Standing DEF Known
<1>3. executor[e].at # executor[f].at
    BY <1>1
<1>4. CASE executor[e].at < executor[f].at
    <2>1. executor[e].at + 1 \in 1..executor[f].at
        BY <1>2, <1>4
    <2> QED BY <1>1, <2>1 DEF Behind, Done
<1>5. CASE executor[f].at < executor[e].at
    <2>1. executor[f].at + 1 \in 1..executor[e].at
        BY <1>2, <1>5
    <2> QED BY <1>1, <2>1 DEF Behind, Done
<1> QED BY <1>2, <1>3, <1>4, <1>5

LEMMA SettleCovered ==
    ASSUME Known, Behind, Covered, NEW e \in Executors, Settle(e)
    PROVE  Covered'
<1>1. Onwards
    BY ExecutorOnwards DEF Known, ExecutorStep
<1>2. /\ Others(e) /\ executor[e].step = "decided" /\ Record(e) \in Orders /\ status[Record(e)] = "NEW"
      /\ status' = [status EXCEPT ![Record(e)] = Outcome(executor[e].fill)]
      /\ position' = IF executor[e].fill THEN PositionAfterFill(Record(e)) ELSE position
      /\ executor'[e].step = "settled" /\ dead' = dead
    BY Settles DEF Known
<1>3. PICK o \in Orders : o = Record(e)
    BY <1>2
<1>4. CASE ~executor[e].fill
    <2>1. \A p \in Orders : /\ status'[p] = "FILLED" => status[p] = "FILLED"
                            /\ status'[p] = "NEW" => status[p] = "NEW"
        BY <1>2, <1>3, <1>4 DEF Known, TypeOK, Outcome
    <2>2. \A f \in Executors : executor'[f].step = "decided" =>
              /\ f # e /\ executor'[f] = executor[f] /\ executor[f].step = "decided"
              /\ Record(f) # Garbage
        BY <1>2 DEF Others, Known, Holds
    <2> QED BY <1>1, <1>2, <1>4, <2>1, <2>2, CoveredKept
<1>5. CASE executor[e].fill
    <2> SUFFICES ASSUME NoDeadFilled' PROVE PositionAddsUp' /\ DecisionsStand'
        BY DEF Covered
    <2>1. PositionAddsUp /\ DecisionsStand
        BY <1>1, DeadFilledStays DEF Covered, Known
    <2>2. status' = [status EXCEPT ![o] = "FILLED"] /\ status'[o] = "FILLED"
        BY <1>2, <1>3, <1>5 DEF Outcome, Known, TypeOK
    <2>3. o \notin dead
        BY <1>2, <2>2 DEF NoDeadFilled
    <2>4. HoldingCovers(o)
        BY <1>2, <1>3, <1>5, <2>1, <2>3 DEF DecisionsStand
    <2>5. PositionAddsUp'
        BY <1>2, <1>3, <1>5, <2>1, <2>2, <2>4, FillAddsUp DEF Known
    <2>6. ASSUME NEW f \in Executors,
                 executor'[f].step = "decided", executor'[f].fill,
                 Record(f)' \notin dead', status'[Record(f)'] = "NEW"
          PROVE  HoldingCovers(Record(f))'
        <3>1. f # e /\ executor'[f] = executor[f] /\ executor[f].step = "decided" /\ executor[f].fill
            BY <1>2, <2>6 DEF Others
        <3>2. Record(f)' = Record(f) /\ Record(f) # Garbage /\ Record(f) \in Orders
            BY <1>1, <3>1, DoneStays, AtRecord DEF Known, Holds
        <3>3. Record(f) # o /\ Record(f) \notin dead /\ status[Record(f)] = "NEW"
            BY <1>2, <2>2, <2>6, <3>2 DEF Known, TypeOK
        <3>4. FALSE
            BY <1>2, <1>3, <2>3, <3>1, <3>3, OneDecision
        <3> QED BY <3>4
    <2> QED BY <2>5, <2>6 DEF DecisionsStand
<1> QED BY <1>4, <1>5

LEMMA CoveredStep ==
    ASSUME Known, Behind, Covered, Next
    PROVE  Covered'
<1>1. CASE OrderServiceStep
    <2>1. /\ Onwards /\ executor' = executor /\ position' = position
          /\ \A o \in Orders : status'[o] = "FILLED" => status[o] = "FILLED"
          /\ \A o \in Orders : status[o] # "ABSENT" /\ status'[o] = "NEW" => status[o] = "NEW"
        BY <1>1, OrderServiceOnwards, OrderServiceTypes DEF Known
    <2>2. \A f \in Executors : executor[f].step = "decided" => Record(f) # Garbage
        BY DEF Known, Holds
    <2> QED BY <2>1, <2>2, CoveredKept
<1>2. ASSUME NEW e \in Executors, ExecutorStep(e)
      PROVE  Covered'
    <2>1. Onwards /\ Others(e)
        BY <1>2, ExecutorOnwards, ExecutorTypes DEF Known
    <2>2. ASSUME UNCHANGED <<status, position>>,
                 executor'[e].step = "decided" /\ executor'[e].fill =>
                    /\ executor[e].step # "idle" /\ Record(e) # Garbage
                    /\ executor'[e].at = executor[e].at
                    /\ HoldingCovers(Record(e)) \/ (executor[e].step = "decided" /\ executor[e].fill)
          PROVE  Covered'
        <3>1. ASSUME NEW f \in Executors, f # e, executor'[f].step = "decided", executor'[f].fill
              PROVE  /\ executor[f].step = "decided" /\ executor[f].fill /\ Record(f) # Garbage
                     /\ executor'[f].at = executor[f].at
            BY <2>1, <3>1 DEF Others, Known, Holds
        <3>2. \A f \in Executors : executor'[f].step = "decided" /\ executor'[f].fill =>
                  /\ executor[f].step # "idle" /\ Record(f) # Garbage
                  /\ executor'[f].at = executor[f].at
                  /\ HoldingCovers(Record(f)) \/ (executor[f].step = "decided" /\ executor[f].fill)
            BY <2>2, <3>1
        <3> QED BY <2>1, <2>2, <3>2, CoveredKept
    <2>3. CASE Acknowledges(e)
        <3>1. PICK out \in Seq(TradeEvent) : executor[e].step # "idle" /\ Acknowledge(e, out)
            BY <2>3, AcknowledgesWith DEF Known
        <3>2. executor'[e].step \in {"idle", "record"} /\ UNCHANGED <<status, position>>
            BY <3>1, Acknowledged DEF Known
        <3> QED BY <2>2, <3>2
    <2>4. CASE ComesToRest(e)
        BY <2>2, <2>4, RestsAt DEF Known
    <2>5. CASE Poll(e)
        BY <2>2, <2>5, Polls DEF Known
    <2>6. CASE Decide(e)
        BY <2>2, <2>6, Decides DEF Known
    <2>7. CASE Settle(e)
        BY <2>7, SettleCovered
    <2>8. CASE BrokerTakes(e)
        <3>1. /\ executor'[e].step = executor[e].step /\ executor'[e].at = executor[e].at
              /\ executor'[e].fill = executor[e].fill /\ UNCHANGED <<status, position>>
            BY <2>8, Takes DEF Known
        <3>2. executor[e].step = "decided" => Record(e) # Garbage
            BY DEF Known, Holds
        <3> QED BY <2>2, <3>1, <3>2
    <2> QED BY <1>2, <2>3, <2>4, <2>5, <2>6, <2>7, <2>8 DEF ExecutorStep
<1> QED BY <1>1, <1>2, NextStep

-----------------------------------------------------------------------------
(* The invariant *)

LEMMA InitInv == Init => Inv
<1> SUFFICES ASSUME Init PROVE Inv
    OBVIOUS
<1>1. /\ status = [o \in Orders |-> "ABSENT"] /\ position = OpeningPosition
      /\ accepted = <<>> /\ unsent = {} /\ log = <<>> /\ committed = 0 /\ owner = NoOne
      /\ executor = [e \in Executors |-> Fresh(0)]
      /\ topic = <<>> /\ dead = {} /\ faults = 0
    BY DEF Init
<1>2. \A e \in Executors : /\ executor[e].step = "idle" /\ executor[e].at = 0
                           /\ executor[e].outbox = <<>>
    BY <1>1 DEF Fresh
<1>3. Len(log) = 0 /\ 0 \in 0..(MaxAttempts - 1) /\ 0 \in 0..MaxFaults
    BY <1>1, PipelineAssumption
<1>4. Fresh(0) \in Places(0)
    BY <1>3 DEF Fresh, Places
<1>5. TypeOK
    <2>1. executor \in [Executors -> Places(Len(log))]
        BY <1>1, <1>3, <1>4
    <2> QED BY <1>1, <1>3, <2>1, PipelineAssumption DEF TypeOK, Places
<1>6. \A e \in Executors : InBatch(e) /\ Holds(e)
    BY <1>2 DEF InBatch, Holds
<1>7. Announced /\ Behind
    BY <1>1, <1>2, <1>3 DEF Announced, Behind
<1>8. Events = {}
    BY <1>1, <1>2, RangeEmpty DEF Events
<1>9. EventsTellTheTruth /\ Unpublished
    BY <1>1, <1>2, <1>8, RangeEmpty DEF EventsTellTheTruth, Unpublished
<1>10. PositionAddsUp
    <2>1. Filled(Sells) = {} /\ Filled(Orders \ Sells) = {}
        BY <1>1, PipelineAssumption DEF Filled
    <2> QED BY <1>1, <2>1, TotalEmpty DEF PositionAddsUp
<1>11. DecisionsStand
    BY <1>2 DEF DecisionsStand
<1> QED BY <1>5, <1>6, <1>7, <1>9, <1>10, <1>11 DEF Inv

LEMMA StepInv == Inv /\ [Next]_vars => Inv'
<1> SUFFICES ASSUME Inv, [Next]_vars PROVE Inv'
    OBVIOUS
<1>1. Known /\ Told /\ Behind /\ Covered
    BY DEF Inv, Known, Told, Covered
<1>2. CASE Next
    <2>1. TypeOK'
        BY <1>1, <1>2, NextStep, OrderServiceTypes, ExecutorTypes DEF Known
    <2>2. (\A e \in Executors : InBatch(e)' /\ Holds(e)') /\ Announced' /\ Behind'
        BY <1>1, <1>2, HoldsStep, AnnouncedStep, BehindStep DEF Known
    <2>3. Told' /\ Covered'
        BY <1>1, <1>2, ToldStep, CoveredStep
    <2> QED BY <2>1, <2>2, <2>3 DEF Inv, Told, Covered
<1>3. CASE UNCHANGED vars
    <2>1. UNCHANGED <<status, position, accepted, unsent, log, committed, owner, executor, topic, dead, faults>>
        BY <1>3 DEF vars, orderService, kafka
    <2>2. TypeOK' /\ \A e \in Executors : InBatch(e)' /\ Holds(e)'
        BY <1>1, <2>1 DEF Known, TypeOK, InBatch, Holds, Record
    <2>3. Announced' /\ Behind'
        BY <1>1, <2>1 DEF Known, Announced, Behind, Done
    <2>4. Told'
        BY <1>1, <2>1 DEF Told, EventsTellTheTruth, Unpublished, Events, Record
    <2>5. Covered'
        BY <1>1, <2>1 DEF Covered, NoDeadFilled, PositionAddsUp, Filled, DecisionsStand, HoldingCovers, Record
    <2> QED BY <2>2, <2>3, <2>4, <2>5 DEF Inv, Told, Covered
<1> QED BY <1>2, <1>3

\* An order stands somewhere first.
LEMMA FirstStands ==
    ASSUME TypeOK, NEW n \in 1..Len(log)
    PROVE  FirstAt(log[n]) \in 1..n
<1> DEFINE o == log[n]
           places == {i \in 1..Len(log) : log[i] = o}
<1>1. Len(log) \in Nat /\ n \in places /\ places \subseteq Nat
    BY LenProperties DEF TypeOK
<1>2. PICK first \in places : \A i \in places : first <= i
    <2> DEFINE before == OpToRel(<, Nat)
    <2>1. \A i, j \in Nat : <<i, j>> \in before <=> i < j
        BY DEF OpToRel
    <2>2. IsWellFoundedOn(before, Nat)
        BY NatLessThanWellFounded
    <2> HIDE DEF before, places
    <2>3. PICK first \in places : \A i \in places : ~(<<i, first>> \in before)
        BY <1>1, <2>2, WFMin
    <2>4. first \in Nat /\ \A i \in places : i \in Nat /\ ~(i < first)
        BY <1>1, <2>1, <2>3
    <2>5. \A i \in places : first <= i
        BY <2>4
    <2> QED BY <2>3, <2>5
<1>3. \A j \in 1..(first - 1) : log[j] # o
    BY <1>1, <1>2
<1>4. \E i \in 1..Len(log) : log[i] = o /\ \A j \in 1..(i - 1) : log[j] # o
    BY <1>2, <1>3
<1>5. /\ FirstAt(o) \in 1..Len(log)
      /\ \A j \in 1..(FirstAt(o) - 1) : log[j] # o
    BY <1>4 DEF FirstAt
<1>6. n \notin 1..(FirstAt(o) - 1)
    BY <1>5
<1> QED BY <1>1, <1>5, <1>6

-----------------------------------------------------------------------------
\* Every variable has its type; nobody stands past the end of the partition.
THEOREM TypeCorrect == Spec => []TypeOK
<1>1. Inv => TypeOK
    BY DEF Inv
<1> QED BY <1>1, InitInv, StepInv, PTL DEF Spec

\* Whatever is delivered again, and to whomever, an order has at most one trade event and
\* it says what became of the order's row (GuardedSettlement, ExecutionMapper.settleIfNew).
THEOREM EventsTrue == Spec => []EventsTellTheTruth
<1>1. Inv => EventsTellTheTruth
    BY DEF Inv
<1> QED BY <1>1, InitInv, StepInv, PTL DEF Spec

\* No crash, retry or reassignment commits an offset past an order that still works and is
\* not on orders.DLT.
THEOREM NoneSkipped == Spec => []NothingSkipped
<1>1. Inv => NothingSkipped
    BY DEF Inv, Behind, Done, NothingSkipped
<1> QED BY <1>1, InitInv, StepInv, PTL DEF Spec

\* The shares held are those of the fills, although the holding is read before the
\* settlement and nothing reserves it, until an order that was dead-lettered fills.
THEOREM HoldingAddsUp == Spec => []SoldOnlyHeld
<1>1. Inv => SoldOnlyHeld
    BY DEF Inv, SoldOnlyHeld, NoDeadFilled
<1> QED BY <1>1, InitInv, StepInv, PTL DEF Spec

\* Also an executor that lost the partition settles an order only after every record
\* before it is done.
THEOREM SettlesInOrder == Spec => SettledInTopicOrder
<1> DEFINE InOrder ==
        \A o \in Orders : Settled(o) =>
            /\ o \in Range(log)
            /\ \A i \in 1..(FirstAt(o) - 1) :
                  log[i] = Garbage \/ log[i] \in dead \/ status[log[i]] # "NEW"
<1>1. Inv /\ [Next]_vars => [InOrder]_vars
    <2> SUFFICES ASSUME Inv, Next, NEW o \in Orders, Settled(o)
                 PROVE  /\ o \in Range(log)
                        /\ \A i \in 1..(FirstAt(o) - 1) : Done(i)
        BY DEF Done
    <2>1. Known /\ Behind
        BY DEF Inv, Known
    <2>2. status[o] = "NEW" /\ status'[o] \in {"FILLED", "REJECTED"}
        BY DEF Settled
    <2>3. PICK e \in Executors : Settle(e) /\ Record(e) = o
        <3>1. CASE OrderServiceStep
            BY <2>1, <2>2, <3>1 DEF OrderServiceStep, Accept, Send, Cancel, LoseUnsent, Stray, Known, TypeOK
        <3>2. ASSUME NEW e \in Executors, ExecutorStep(e) PROVE Settle(e) /\ Record(e) = o
            <4>1. CASE Acknowledges(e)
                <5>1. PICK out \in Seq(TradeEvent) : executor[e].step # "idle" /\ Acknowledge(e, out)
                    BY <2>1, <4>1, AcknowledgesWith DEF Known
                <5> QED BY <2>2, <5>1 DEF Acknowledge
            <4>2. CASE ComesToRest(e)
                BY <2>1, <2>2, <4>2, RestsAt DEF Known
            <4>3. CASE Poll(e) \/ Decide(e) \/ BrokerTakes(e)
                BY <2>2, <4>3 DEF Poll, Decide, BrokerTakes
            <4>4. CASE Settle(e)
                BY <2>1, <2>2, <4>4, Settles DEF Known, TypeOK
            <4> QED BY <3>2, <4>1, <4>2, <4>3, <4>4 DEF ExecutorStep
        <3> QED BY <3>1, <3>2, NextStep
    <2>4. executor[e].step = "decided"
        BY <2>3 DEF Settle
    <2>5. PICK n \in 1..Len(log) : n = executor[e].at + 1 /\ log[n] = o
        BY <2>1, <2>3, <2>4, AtRecord DEF Known
    <2>6. o \in Range(log)
        BY <2>1, <2>5, LenProperties DEF Known, TypeOK, Range
    <2>7. FirstAt(o) \in 1..n
        BY <2>1, <2>5, FirstStands DEF Known
    <2>8. \A i \in 1..(FirstAt(o) - 1) : i \in 1..executor[e].at
        <3>1. executor[e].at \in Nat
            BY <2>1, Standing DEF Known
        <3> QED BY <2>5, <2>7, <3>1
    <2> QED BY <2>1, <2>6, <2>8 DEF Behind
<1> QED BY <1>1, InitInv, StepInv, PTL DEF Spec, SettledInTopicOrder
=============================================================================
