----------------------------- MODULE Strategies -----------------------------
(***************************************************************************)
(* One trading strategy: a rule a customer switches on, which places an    *)
(* order when a quote meets it.                                            *)
(*                                                                         *)
(* A firing is one transaction that keeps the strategy's row locked while  *)
(* it calls the order route over HTTP; the route commits the order on its  *)
(* own, and its answer may come too late or find nobody.  What became of   *)
(* the order comes back later as a trade event.  Quotes and trade events   *)
(* may be delivered to any instance of the service, again, and in any      *)
(* order between the two topics.                                           *)
(*                                                                         *)
(* Only quotes that meet the rule are modelled.  Whether a BUY stays       *)
(* within its spend and position is left open: a firing may be refused.    *)
(***************************************************************************)
EXTENDS Naturals, FiniteSets

CONSTANTS
    Quotes,      \* the quotes that meet the rule
    Instances,   \* of the service, each with one listener thread
    Nobody,      \* who waits for the answer to an abandoned call
    MaxFailures, \* the failure that stops a strategy: the third
    MaxCrashes   \* bound: firings lost with their process

ASSUME StrategiesAssumption ==
    /\ IsFiniteSet(Quotes)
    /\ Nobody \notin Instances
    /\ MaxFailures \in Nat \ {0} /\ MaxCrashes \in Nat

VARIABLES
    strategy,   \* the row of strat_strategy: enabled, status, failures
    runs,       \* the rows of strat_run
    order,      \* quote -> the status of the order placed under its key
    firing,     \* each instance's open firing
    calls,      \* calls of the order route that are not answered
    sent,       \* the quotes the route was called for since the customer armed it
    crashes

rows == <<strategy, runs>>
vars == <<rows, order, firing, calls, sent, crashes>>

\* A run is keyed by what caused it: a quote, the trade event of the order placed
\* for a quote, or the third failure at either.
Run(cause, quote, outcome) == [cause |-> cause, quote |-> quote, outcome |-> outcome]

Idle == [step |-> "idle", quote |-> Nobody]

Init ==
    /\ strategy = [enabled |-> FALSE, status |-> "ARMED", failures |-> 0]
    /\ runs = {}
    /\ order = [q \in Quotes |-> "ABSENT"]
    /\ firing = [i \in Instances |-> Idle]
    /\ calls = {} /\ sent = {} /\ crashes = 0

\* Broken variant: lockFireable without FOR UPDATE.
NeverLocked == TRUE

\* No firing holds the strategy's row.
Unlocked == \A i \in Instances : firing[i].step = "idle"

\* Broken variant: strat_run without uq_strat_run_source.
NeverRecorded(cause, q) == FALSE

\* uq_strat_run_source: this cause has its run.
Recorded(cause, q) == \E r \in runs : r.cause = cause /\ r.quote = q
-----------------------------------------------------------------------------
(* The customer. *)

\* On, and armed again without failures if it had fired or stopped.
Enable ==
    /\ strategy.status # "DELETED" /\ Unlocked
    /\ IF strategy.status = "ARMED"
       THEN /\ strategy' = [strategy EXCEPT !.enabled = TRUE]
            /\ UNCHANGED sent
       ELSE /\ strategy' = [enabled |-> TRUE, status |-> "ARMED", failures |-> 0]
            /\ sent' = {}
    /\ UNCHANGED <<runs, order, firing, calls, crashes>>

Disable ==
    /\ strategy.status # "DELETED" /\ Unlocked
    /\ strategy' = [strategy EXCEPT !.enabled = FALSE]
    /\ UNCHANGED <<runs, order, firing, calls, sent, crashes>>

\* Its runs go with it.
Delete ==
    /\ strategy.status # "DELETED" /\ Unlocked
    /\ strategy' = [enabled |-> FALSE, status |-> "DELETED", failures |-> 0]
    /\ runs' = {}
    /\ UNCHANGED <<order, firing, calls, sent, crashes>>
-----------------------------------------------------------------------------
(* Firing. *)

Goes(i, step) == firing' = [firing EXCEPT ![i].step = step]
Ends(i) == firing' = [firing EXCEPT ![i] = Idle]

\* lockFireable: enabled and armed, read under the lock.
LockFireable(i, q) ==
    /\ firing[i] = Idle /\ Unlocked
    /\ strategy.enabled /\ strategy.status = "ARMED"
    /\ firing' = [firing EXCEPT ![i] = [step |-> "locked", quote |-> q]]
    /\ UNCHANGED <<rows, order, calls, sent, crashes>>

\* Past its spend or its position: refused, recorded and stopped; on a replayed
\* quote, nothing.
Refuse(i) ==
    LET q == firing[i].quote IN
    /\ firing[i].step = "locked"
    /\ IF Recorded("quote", q)
       THEN UNCHANGED rows
       ELSE /\ runs' = runs \cup {Run("quote", q, "REFUSED_LIMIT")}
            /\ strategy' = [strategy EXCEPT !.status = "STOPPED"]
    /\ Ends(i)
    /\ UNCHANGED <<order, calls, sent, crashes>>

\* insertRun finds the quote's run.
AlreadyRan(i) ==
    /\ firing[i].step = "locked" /\ Recorded("quote", firing[i].quote)
    /\ Ends(i)
    /\ UNCHANGED <<rows, order, calls, sent, crashes>>

\* The run is inserted, not committed, and the order route is called.
Call(i) ==
    LET q == firing[i].quote IN
    /\ firing[i].step = "locked" /\ ~Recorded("quote", q)
    /\ Goes(i, "calling")
    /\ calls' = calls \cup {[quote |-> q, caller |-> i]}
    /\ sent' = sent \cup {q}
    /\ UNCHANGED <<rows, order, crashes>>

\* The auth service gives no token: a failure before any call.
NoToken(i) ==
    /\ firing[i].step = "locked" /\ ~Recorded("quote", firing[i].quote)
    /\ Goes(i, "failed")
    /\ UNCHANGED <<rows, order, calls, sent, crashes>>

\* The route hands its answer to whoever still waits for it.
Answered(c, step) ==
    /\ calls' = calls \ {c}
    /\ IF c.caller = Nobody THEN UNCHANGED firing ELSE Goes(c.caller, step)
    /\ UNCHANGED <<rows, sent, crashes>>

\* The idempotency key strategy-{id}-{quote} is new: the order is accepted.
RouteAccepts(c) ==
    /\ order[c.quote] = "ABSENT"
    /\ order' = [order EXCEPT ![c.quote] = "NEW"]
    /\ Answered(c, "placed")

\* The order is refused; a key that was used before is refused too (ORD-409).
RouteRefuses(c) == Answered(c, "failed") /\ UNCHANGED order

\* Broken variant: no answer taken for an order placed.
SilenceIsConsent(c) ==
    /\ c.caller # Nobody
    /\ Goes(c.caller, "placed")
    /\ calls' = (calls \ {c}) \cup {[c EXCEPT !.caller = Nobody]}
    /\ UNCHANGED <<rows, order, sent, crashes>>

\* Ten seconds without an answer, or a broken connection.
TimeOut(c) ==
    /\ c.caller # Nobody
    /\ Goes(c.caller, "failed")
    /\ calls' = (calls \ {c}) \cup {[c EXCEPT !.caller = Nobody]}
    /\ UNCHANGED <<rows, order, sent, crashes>>

RecordPlaced(i) ==
    /\ firing[i].step = "placed"
    /\ runs' = runs \cup {Run("quote", firing[i].quote, "PLACED")}
    /\ strategy' = [strategy EXCEPT !.status = "FIRED"]
    /\ Ends(i)
    /\ UNCHANGED <<order, calls, sent, crashes>>

\* Broken variant: the counter runs past the failure that stops.
Uncapped == strategy.failures + 1

\* recordFailure: LEAST(failures + 1, 3).
FailuresNow == IF strategy.failures < MaxFailures THEN strategy.failures + 1 ELSE MaxFailures

\* Broken variant: the status is decided on the failures counted before.
StopsOneLate == strategy.failures >= MaxFailures

Stops == strategy.failures + 1 >= MaxFailures

\* One more failure: armed again, or stopped at the last one, which has a run too.
CountFailure(run, stopCause) ==
    /\ strategy' = [strategy EXCEPT !.failures = FailuresNow,
                                    !.status = IF Stops THEN "STOPPED" ELSE "ARMED"]
    /\ runs' = runs \cup {run} \cup
         (IF FailuresNow >= MaxFailures THEN {Run(stopCause, run.quote, "STOPPED")} ELSE {})

RecordFailed(i) ==
    /\ firing[i].step = "failed"
    /\ CountFailure(Run("quote", firing[i].quote, "FAILED"), "stopped at quote")
    /\ Ends(i)
    /\ UNCHANGED <<order, calls, sent, crashes>>

\* The transaction rolls back; a call it made goes on without it.
Crash(i) ==
    /\ firing[i].step # "idle" /\ crashes < MaxCrashes
    /\ crashes' = crashes + 1
    /\ Ends(i)
    /\ calls' = {[c EXCEPT !.caller = IF @ = i THEN Nobody ELSE @] : c \in calls}
    /\ UNCHANGED <<rows, order, sent>>
-----------------------------------------------------------------------------
(* What becomes of the order. *)

\* The executor or the customer ends it; from now on its trade event may arrive.
OrderEnds(q, final) ==
    /\ order[q] = "NEW"
    /\ order' = [order EXCEPT ![q] = final]
    /\ UNCHANGED <<rows, firing, calls, sent, crashes>>

\* StrategyOutcomes.apply: the event of an order that a committed run placed, and
\* that has no run of its own yet.  The insert waits for the strategy's row.
Outcome(i, q) ==
    /\ firing[i] = Idle /\ Unlocked
    /\ \E r \in runs : r.cause = "quote" /\ r.quote = q /\ r.outcome = "PLACED"
    /\ ~Recorded("event", q)
    /\ \/ /\ order[q] = "REJECTED"
          /\ CountFailure(Run("event", q, "REJECTED"), "stopped at event")
       \/ /\ order[q] = "FILLED"
          /\ runs' = runs \cup {Run("event", q, "FILLED")}
          /\ UNCHANGED strategy
       \/ /\ order[q] = "CANCELLED"
          /\ runs' = runs \cup {Run("event", q, "REJECTED")}
          /\ UNCHANGED strategy
    /\ UNCHANGED <<order, firing, calls, sent, crashes>>
-----------------------------------------------------------------------------
Next ==
    \/ Enable \/ Disable \/ Delete
    \/ \E i \in Instances :
          \/ \E q \in Quotes : LockFireable(i, q) \/ Outcome(i, q)
          \/ Refuse(i) \/ AlreadyRan(i) \/ Call(i) \/ NoToken(i)
          \/ RecordPlaced(i) \/ RecordFailed(i) \/ Crash(i)
    \/ \E c \in calls : RouteAccepts(c) \/ RouteRefuses(c) \/ TimeOut(c)
    \/ \E q \in Quotes, final \in {"FILLED", "REJECTED", "CANCELLED"} : OrderEnds(q, final)

Spec == Init /\ [][Next]_vars
-----------------------------------------------------------------------------
(* Properties. *)

Causes == {"quote", "event", "stopped at quote", "stopped at event"}
Outcomes == {"PLACED", "FILLED", "REJECTED", "REFUSED_LIMIT", "FAILED", "STOPPED"}

\* Every variable has its type; ck_strat_failures is the range of failures.
TypeOK ==
    /\ strategy \in [enabled : BOOLEAN, status : {"ARMED", "FIRED", "STOPPED", "DELETED"},
                     failures : 0..MaxFailures]
    /\ runs \subseteq [cause : Causes, quote : Quotes, outcome : Outcomes]
    /\ order \in [Quotes -> {"ABSENT", "NEW", "FILLED", "REJECTED", "CANCELLED"}]
    /\ firing \in [Instances -> [step : {"idle", "locked", "calling", "placed", "failed"},
                                 quote : Quotes \cup {Nobody}]]
    /\ calls \subseteq [quote : Quotes, caller : Instances \cup {Nobody}]
    /\ sent \subseteq Quotes
    /\ crashes \in 0..MaxCrashes

(* A strategy that was switched off, has fired or was stopped sends nothing:
   StrategyFirer reads the flag under the lock it holds until it has called,
   so a customer's change waits for the call or comes before it. *)
CallsOnlyWhileArmed ==
    [][\A i \in Instances :
          firing[i].step # "calling" /\ firing'[i].step = "calling"
            => strategy.enabled /\ strategy.status = "ARMED"]_vars

(* At the third failure the strategy is stopped and stays so until its
   customer acts, whichever of StrategyFirer and StrategyOutcomes counted it,
   and however late the rejections of its earlier orders arrive. *)
LastFailureStops == strategy.failures = MaxFailures => strategy.status = "STOPPED"

(* A strategy does not spend without end: between two armings by the customer
   the route is called for at most three quotes, and one more for each firing
   that was lost in a crash, although a call that timed out may have placed
   its order and is only counted as a failure. *)
FiringsBounded == Cardinality(sent) <= MaxFailures + crashes

(* A failure is counted once, however often its quote or its trade event is
   delivered: there are at least as many failed runs as failures. *)
FailuresHaveRuns ==
    strategy.failures <= Cardinality({r \in runs :
        \/ r.cause = "quote" /\ r.outcome = "FAILED"
        \/ r.cause = "event" /\ order[r.quote] = "REJECTED"})

(* A strategy that says it has fired placed an order since its customer last
   armed it, and has the run that finds its outcome: neither a call without an
   answer nor the replay of a quote that fired before makes it FIRED. *)
FiredHasOrder ==
    strategy.status = "FIRED" =>
        \E r \in runs : /\ r.cause = "quote" /\ r.outcome = "PLACED"
                       /\ r.quote \in sent /\ order[r.quote] # "ABSENT"
-----------------------------------------------------------------------------
(* What the documentation says and the code does not do. *)

(* StrategyFirerTest: past the spend, stopped until the customer looks.  Only
   enable, which forgets the failures, arms a stopped strategy.  It is the late
   rejection of an earlier order that arms it again. *)
StoppedUntilEnabled ==
    [][strategy.status = "STOPPED" /\ strategy'.status = "ARMED" => strategy'.failures = 0]_vars
=============================================================================
