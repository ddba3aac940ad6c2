-------------------------- MODULE Strategies_proofs --------------------------
(***************************************************************************)
(* A strategy spends within bounds and only while it is switched on,       *)
(* whatever the quotes, the instances of the service and the failure that  *)
(* stops it.  The heart of it: a firing that is under way keeps the        *)
(* strategy ARMED, and every call of the order route is paid for by a      *)
(* counted failure, by FIRED, by the one firing under way, or by a crash.  *)
(***************************************************************************)
EXTENDS Strategies, FiniteSetTheorems, TLAPS

Statuses == {"ARMED", "FIRED", "STOPPED", "DELETED"}
Steps == {"idle", "locked", "calling", "placed", "failed"}

\* The row lock: one firing at a time, and nobody moves the row under it.
LockInv ==
    /\ \A i, j \in Instances :
          firing[i].step # "idle" /\ firing[j].step # "idle" => i = j
    /\ \A i \in Instances : firing[i].step # "idle" =>
          /\ strategy.enabled /\ strategy.status = "ARMED"
          /\ firing[i].quote \in Quotes

\* A call that somebody waits for is the call of that firing.
CallsInv ==
    \A c \in calls : c.caller # Nobody =>
        firing[c.caller].step = "calling" /\ firing[c.caller].quote = c.quote

\* A firing that has called, and whose failure is not counted yet.
Spending == \E i \in Instances : firing[i].step \in {"calling", "placed", "failed"}

\* Every call is accounted for.
Spent ==
    Cardinality(sent) <= strategy.failures + crashes
                           + (IF strategy.status = "FIRED" \/ Spending THEN 1 ELSE 0)

\* The runs of a deleted strategy are gone.
RunsGone == strategy.status = "DELETED" => runs = {}

\* The inductive invariant.
Inv ==
    /\ TypeOK
    /\ LockInv
    /\ CallsInv
    /\ RunsGone
    /\ LastFailureStops
    /\ FiringsBounded
    /\ strategy.status # "DELETED" => Spent
-----------------------------------------------------------------------------
LEMMA InitInv == Init => Inv
BY FS_EmptySet, StrategiesAssumption
   DEF Init, Inv, TypeOK, LockInv, CallsInv, RunsGone, LastFailureStops, FiringsBounded, Spent,
       Spending, Idle

\* sent is finite, and one call adds at most one to it.
LEMMA SentCounted ==
    ASSUME TypeOK
    PROVE  /\ Cardinality(sent) \in Nat
           /\ \A q \in Quotes : /\ Cardinality(sent \cup {q}) \in Nat
                                /\ Cardinality(sent \cup {q}) <= Cardinality(sent) + 1
<1>1. IsFiniteSet(sent)
  BY FS_Subset, StrategiesAssumption DEF TypeOK
<1>2. Cardinality(sent) \in Nat
  BY <1>1, FS_CardinalityType
<1>3. ASSUME NEW q \in Quotes
      PROVE  /\ Cardinality(sent \cup {q}) \in Nat
             /\ Cardinality(sent \cup {q}) <= Cardinality(sent) + 1
  <2>1. Cardinality(sent \cup {q}) = IF q \in sent THEN Cardinality(sent) ELSE Cardinality(sent) + 1
    BY <1>1, FS_AddElement
  <2> QED BY <2>1, <1>2
<1> QED
  BY <1>2, <1>3

StrategyRows == [enabled : BOOLEAN, status : Statuses, failures : 0..MaxFailures]
RunRows == [cause : Causes, quote : Quotes, outcome : Outcomes]

\* A run is a row of strat_run.
LEMMA RunTyped ==
    ASSUME NEW cause \in Causes, NEW q \in Quotes, NEW outcome \in Outcomes
    PROVE  Run(cause, q, outcome) \in RunRows
BY DEF Run, RunRows

\* A counted failure: one more, short of the last, or the strategy is stopped.
LEMMA FailureCounted ==
    ASSUME NEW run \in RunRows, NEW cause \in Causes, TypeOK, CountFailure(run, cause)
    PROVE  /\ strategy' \in StrategyRows /\ runs' \subseteq RunRows
           /\ strategy'.enabled = strategy.enabled
           /\ strategy'.status \in {"ARMED", "STOPPED"}
           /\ strategy'.failures = MaxFailures => strategy'.status = "STOPPED"
           /\ strategy.failures < MaxFailures => strategy'.failures = strategy.failures + 1
           /\ strategy.failures = MaxFailures => strategy'.failures = MaxFailures
<1>1. /\ MaxFailures \in Nat \ {0}
      /\ strategy \in StrategyRows /\ strategy.failures \in 0..MaxFailures
      /\ runs \subseteq RunRows
  BY StrategiesAssumption DEF TypeOK, StrategyRows, Statuses, RunRows
<1>2. FailuresNow \in 0..MaxFailures
  BY <1>1 DEF FailuresNow
<1>3. strategy' = [strategy EXCEPT !.failures = FailuresNow,
                                   !.status = IF Stops THEN "STOPPED" ELSE "ARMED"]
  BY DEF CountFailure
<1>4. /\ strategy' \in StrategyRows
      /\ strategy'.enabled = strategy.enabled
      /\ strategy'.failures = FailuresNow
      /\ strategy'.status = IF Stops THEN "STOPPED" ELSE "ARMED"
  BY <1>1, <1>2, <1>3 DEF StrategyRows, Statuses
<1>5. runs' \subseteq RunRows
  <2>1. run.quote \in Quotes /\ "STOPPED" \in Outcomes
    BY DEF RunRows, Outcomes
  <2>2. Run(cause, run.quote, "STOPPED") \in RunRows
    BY <2>1, RunTyped
  <2> QED BY <1>1, <2>2 DEF CountFailure
<1> QED
  BY <1>1, <1>4, <1>5 DEF FailuresNow, Stops

\* Types by part, so that each action is checked for what it changes.
LEMMA TypeParts ==
    TypeOK <=>
      /\ strategy \in StrategyRows /\ runs \subseteq RunRows
      /\ order \in [Quotes -> {"ABSENT", "NEW", "FILLED", "REJECTED", "CANCELLED"}]
      /\ firing \in [Instances -> [step : Steps, quote : Quotes \cup {Nobody}]]
      /\ calls \subseteq [quote : Quotes, caller : Instances \cup {Nobody}]
      /\ sent \subseteq Quotes
      /\ crashes \in 0..MaxCrashes
BY DEF TypeOK, StrategyRows, RunRows, Statuses, Steps

LEMMA TypeStep == ASSUME TypeOK, LockInv, [Next]_vars PROVE TypeOK'
<1> USE StrategiesAssumption
<1>1. CASE Enable
  <2>1. strategy' \in StrategyRows
    <3>1. CASE strategy.status = "ARMED"
      BY <1>1, <3>1, TypeParts DEF Enable, StrategyRows, Statuses
    <3>2. CASE strategy.status # "ARMED"
      <4>1. 0 \in 0..MaxFailures
        OBVIOUS
      <4>2. strategy' = [enabled |-> TRUE, status |-> "ARMED", failures |-> 0]
        BY <1>1, <3>2 DEF Enable
      <4> QED BY <4>1, <4>2 DEF StrategyRows, Statuses
    <3> QED BY <3>1, <3>2
  <2>2. sent' \subseteq Quotes
    BY <1>1 DEF Enable, TypeOK
  <2> QED BY <1>1, <2>1, <2>2 DEF Enable, TypeOK, StrategyRows, Statuses
<1>2. CASE Disable BY <1>2 DEF Disable, TypeOK
<1>3. CASE Delete BY <1>3 DEF Delete, TypeOK
<1>4. ASSUME NEW i \in Instances, NEW q \in Quotes, LockFireable(i, q) PROVE TypeOK'
  BY <1>4 DEF LockFireable, TypeOK, rows
<1>5. ASSUME NEW i \in Instances, NEW q \in Quotes, Outcome(i, q) PROVE TypeOK'
  <2>1. /\ Run("event", q, "REJECTED") \in RunRows /\ Run("event", q, "FILLED") \in RunRows
        /\ "stopped at event" \in Causes
    BY RunTyped DEF Causes, Outcomes
  <2>2. strategy' \in StrategyRows /\ runs' \subseteq RunRows
    <3>1. CASE CountFailure(Run("event", q, "REJECTED"), "stopped at event")
      BY <2>1, <3>1, FailureCounted
    <3>2. CASE UNCHANGED strategy /\ runs' = runs \cup {Run("event", q, "REJECTED")}
      BY <2>1, <3>2, TypeParts
    <3>3. CASE UNCHANGED strategy /\ runs' = runs \cup {Run("event", q, "FILLED")}
      BY <2>1, <3>3, TypeParts
    <3> QED BY <1>5, <3>1, <3>2, <3>3 DEF Outcome
  <2> QED BY <1>5, <2>2 DEF Outcome, TypeOK, StrategyRows, RunRows, Statuses
<1>6. ASSUME NEW i \in Instances, Refuse(i) PROVE TypeOK'
  <2>1. Run("quote", firing[i].quote, "REFUSED_LIMIT") \in RunRows
    BY <1>6, RunTyped DEF Refuse, LockInv, Causes, Outcomes
  <2>2. strategy' \in StrategyRows /\ runs' \subseteq RunRows
    <3>1. CASE UNCHANGED rows
      BY <3>1, TypeParts DEF rows
    <3>2. CASE /\ runs' = runs \cup {Run("quote", firing[i].quote, "REFUSED_LIMIT")}
               /\ strategy' = [strategy EXCEPT !.status = "STOPPED"]
      BY <3>2, <2>1, TypeParts DEF StrategyRows, Statuses
    <3> QED BY <1>6, <3>1, <3>2 DEF Refuse
  <2> QED
    BY <1>6, <2>2 DEF Refuse, Ends, Idle, TypeOK, StrategyRows, RunRows, Statuses
<1>7. ASSUME NEW i \in Instances, AlreadyRan(i) PROVE TypeOK'
  BY <1>7 DEF AlreadyRan, TypeOK, Ends, Idle, rows
<1>8. ASSUME NEW i \in Instances, Call(i) PROVE TypeOK'
  BY <1>8 DEF Call, TypeOK, LockInv, Goes, rows
<1>9. ASSUME NEW i \in Instances, NoToken(i) PROVE TypeOK'
  BY <1>9 DEF NoToken, TypeOK, Goes, rows
<1>10. ASSUME NEW i \in Instances, RecordPlaced(i) PROVE TypeOK'
  <2>1. Run("quote", firing[i].quote, "PLACED") \in RunRows
    BY <1>10, RunTyped DEF RecordPlaced, LockInv, Causes, Outcomes
  <2>2. strategy' \in StrategyRows /\ runs' \subseteq RunRows
    BY <1>10, <2>1, TypeParts DEF RecordPlaced, StrategyRows, Statuses
  <2> QED
    BY <1>10, <2>2 DEF RecordPlaced, Ends, Idle, TypeOK, StrategyRows, RunRows, Statuses
<1>11. ASSUME NEW i \in Instances, RecordFailed(i) PROVE TypeOK'
  <2>1. Run("quote", firing[i].quote, "FAILED") \in RunRows /\ "stopped at quote" \in Causes
    BY <1>11, RunTyped DEF RecordFailed, LockInv, Causes, Outcomes
  <2>2. strategy' \in StrategyRows /\ runs' \subseteq RunRows
    BY <1>11, <2>1, FailureCounted DEF RecordFailed
  <2> QED
    BY <1>11, <2>2 DEF RecordFailed, Ends, Idle, TypeOK, StrategyRows, RunRows, Statuses
<1>12. ASSUME NEW i \in Instances, Crash(i) PROVE TypeOK'
  BY <1>12 DEF Crash, TypeOK, Ends, Idle, rows
<1>13. ASSUME NEW c \in calls, RouteAccepts(c) PROVE TypeOK'
  BY <1>13 DEF RouteAccepts, Answered, Goes, TypeOK, rows
<1>14. ASSUME NEW c \in calls, RouteRefuses(c) PROVE TypeOK'
  BY <1>14 DEF RouteRefuses, Answered, Goes, TypeOK, rows
<1>15. ASSUME NEW c \in calls, TimeOut(c) PROVE TypeOK'
  BY <1>15 DEF TimeOut, Goes, TypeOK, rows
<1>16. ASSUME NEW q \in Quotes, NEW final \in {"FILLED", "REJECTED", "CANCELLED"}, OrderEnds(q, final)
       PROVE  TypeOK'
  BY <1>16 DEF OrderEnds, TypeOK, rows
<1>17. CASE UNCHANGED vars BY <1>17 DEF vars, rows, TypeOK
<1> QED
  BY <1>1, <1>2, <1>3, <1>4, <1>5, <1>6, <1>7, <1>8, <1>9, <1>10, <1>11, <1>12, <1>13, <1>14,
     <1>15, <1>16, <1>17 DEF Next

\* What a counted failure leaves of the rest of the invariant: at the last
\* failure the strategy is stopped, and an earlier one pays for one call.
LEMMA FailurePays ==
    ASSUME Inv, TypeOK', strategy.status # "DELETED", sent' = sent, crashes' = crashes,
           NEW run \in RunRows, NEW cause \in Causes, CountFailure(run, cause)
    PROVE  LastFailureStops' /\ Spent'
<1>1. /\ MaxFailures \in Nat \ {0} /\ crashes \in Nat /\ Cardinality(sent) \in Nat
      /\ strategy.failures \in 0..MaxFailures
  BY SentCounted, StrategiesAssumption DEF Inv, TypeOK
<1>2. /\ strategy'.status \in {"ARMED", "STOPPED"}
      /\ strategy'.failures = MaxFailures => strategy'.status = "STOPPED"
      /\ strategy.failures < MaxFailures => strategy'.failures = strategy.failures + 1
      /\ strategy.failures = MaxFailures => strategy'.failures = MaxFailures
  BY FailureCounted DEF Inv
<1>3. CASE strategy.failures < MaxFailures
  <2>1. Cardinality(sent) <= strategy.failures + crashes + 1
    BY <1>1 DEF Inv, Spent
  <2> QED BY <1>1, <1>2, <1>3, <2>1 DEF Spent, LastFailureStops
<1>4. CASE strategy.failures = MaxFailures
  <2>1. strategy.status = "STOPPED" /\ ~Spending
    BY <1>4 DEF Inv, LastFailureStops, LockInv, Spending
  <2>2. Cardinality(sent) <= strategy.failures + crashes
    BY <1>1, <2>1 DEF Inv, Spent
  <2> QED BY <1>1, <1>2, <1>4, <2>2 DEF Spent, LastFailureStops
<1> QED BY <1>1, <1>3, <1>4

\* Locks and calls, for every action.
LEMMA LockStep == ASSUME TypeOK, LockInv, CallsInv, [Next]_vars PROVE LockInv' /\ CallsInv'
<1> USE StrategiesAssumption
<1> DEFINE FiringRows == [step : Steps, quote : Quotes \cup {Nobody}]
<1>0. /\ firing \in [Instances -> FiringRows]
      /\ calls \subseteq [quote : Quotes, caller : Instances \cup {Nobody}]
  BY TypeParts
<1>1. CASE Enable \/ Disable \/ Delete
  BY <1>1, <1>0 DEF Enable, Disable, Delete, Unlocked, LockInv, CallsInv
<1>2. ASSUME NEW i \in Instances, NEW q \in Quotes, LockFireable(i, q) PROVE LockInv' /\ CallsInv'
  BY <1>2, <1>0 DEF LockFireable, Unlocked, Idle, LockInv, CallsInv, rows
<1>3. ASSUME NEW i \in Instances, NEW q \in Quotes, Outcome(i, q) PROVE LockInv' /\ CallsInv'
  BY <1>3, <1>0 DEF Outcome, Unlocked, Idle, LockInv, CallsInv
<1>4. ASSUME NEW i \in Instances, firing[i].step \in {"locked", "placed", "failed"}, Ends(i),
             calls' = calls
      PROVE  LockInv' /\ CallsInv'
  BY <1>4, <1>0 DEF Ends, Idle, LockInv, CallsInv
<1>5. ASSUME NEW i \in Instances, Refuse(i) \/ AlreadyRan(i) \/ RecordPlaced(i) \/ RecordFailed(i)
      PROVE  LockInv' /\ CallsInv'
  BY <1>4, <1>5 DEF Refuse, AlreadyRan, RecordPlaced, RecordFailed
<1>6. ASSUME NEW i \in Instances, Call(i) PROVE LockInv' /\ CallsInv'
  BY <1>6, <1>0 DEF Call, Goes, LockInv, CallsInv, rows
<1>7. ASSUME NEW i \in Instances, NoToken(i) PROVE LockInv' /\ CallsInv'
  BY <1>7, <1>0 DEF NoToken, Goes, LockInv, CallsInv, rows
<1>8. ASSUME NEW i \in Instances, Crash(i) PROVE LockInv' /\ CallsInv'
  BY <1>8, <1>0 DEF Crash, Ends, Idle, LockInv, CallsInv, rows
<1>9. ASSUME NEW c \in calls, RouteAccepts(c) \/ RouteRefuses(c) PROVE LockInv' /\ CallsInv'
  BY <1>9, <1>0 DEF RouteAccepts, RouteRefuses, Answered, Goes, LockInv, CallsInv, rows
<1>10. ASSUME NEW c \in calls, TimeOut(c) PROVE LockInv' /\ CallsInv'
  BY <1>10, <1>0 DEF TimeOut, Goes, LockInv, CallsInv, rows
<1>11. ASSUME NEW q \in Quotes, NEW final \in {"FILLED", "REJECTED", "CANCELLED"}, OrderEnds(q, final)
       PROVE  LockInv' /\ CallsInv'
  BY <1>11 DEF OrderEnds, LockInv, CallsInv, rows
<1>12. CASE UNCHANGED vars
  BY <1>12 DEF vars, rows, LockInv, CallsInv
<1> QED
  BY <1>1, <1>2, <1>3, <1>5, <1>6, <1>7, <1>8, <1>9, <1>10, <1>11, <1>12 DEF Next

\* Counted failures and what they pay for, for every action.
LEMMA SpentStep ==
    ASSUME Inv, TypeOK', LockInv', [Next]_vars
    PROVE  /\ RunsGone' /\ LastFailureStops' /\ FiringsBounded'
           /\ strategy'.status # "DELETED" => Spent'
<1> USE StrategiesAssumption
<1> DEFINE Goal == /\ RunsGone' /\ LastFailureStops' /\ FiringsBounded'
                   /\ strategy'.status # "DELETED" => Spent'
<1>0. /\ TypeOK /\ LockInv /\ CallsInv /\ RunsGone /\ LastFailureStops /\ FiringsBounded
      /\ strategy.status # "DELETED" => Spent
      /\ MaxFailures \in Nat \ {0} /\ crashes \in Nat /\ Cardinality(sent) \in Nat
      /\ strategy.failures \in 0..MaxFailures /\ strategy.failures \in Nat
      /\ strategy \in StrategyRows
      /\ firing \in [Instances -> [step : Steps, quote : Quotes \cup {Nobody}]]
  BY SentCounted, TypeParts DEF Inv, TypeOK
\* Spent is enough: it implies the bound.
<1>a. ASSUME LastFailureStops', Spent', strategy'.status # "DELETED" PROVE Goal
  <2>1. FiringsBounded'
    <3>1. /\ crashes' \in Nat /\ Cardinality(sent') \in Nat
          /\ strategy'.failures \in 0..MaxFailures
      <4>1. IsFiniteSet(sent')
        BY FS_Subset DEF TypeOK
      <4> QED BY <4>1, FS_CardinalityType DEF TypeOK
    <3>2. CASE strategy'.failures = MaxFailures
      <4>1. strategy'.status = "STOPPED" /\ ~Spending'
        BY <1>a, <3>2 DEF LastFailureStops, LockInv, Spending
      <4> QED BY <1>a, <3>1, <3>2, <4>1 DEF Spent, FiringsBounded
    <3>3. CASE strategy'.failures < MaxFailures
      BY <1>a, <3>1, <3>3 DEF Spent, FiringsBounded
    <3> QED BY <3>1, <3>2, <3>3
  <2> QED BY <1>a, <2>1 DEF RunsGone
\* A firing under way is a firing of an armed strategy that is still there.
<1>b. ASSUME NEW i \in Instances, firing[i].step # "idle"
      PROVE  /\ strategy.status = "ARMED" /\ Spent /\ firing[i].quote \in Quotes
             /\ \A j \in Instances : firing[j].step # "idle" => j = i
             /\ strategy.failures < MaxFailures
  BY <1>b, <1>0 DEF LockInv, LastFailureStops
\* Whatever leaves the row and the calls alone, and ends no firing that has called.
<1>c. ASSUME strategy' = strategy, runs' = runs, sent' = sent, crashes' = crashes,
             Spending => Spending'
      PROVE  Goal
  <2>1. strategy.status # "DELETED" => Spent'
    BY <1>0, <1>c DEF Spent
  <2> QED BY <1>0, <1>c, <2>1 DEF RunsGone, LastFailureStops, FiringsBounded
<1>1. CASE Enable
  <2>1. CASE strategy.status = "ARMED"
    BY <1>1, <2>1, <1>0, <1>a DEF Enable, StrategyRows, Spent, Spending, LastFailureStops
  <2>2. CASE strategy.status # "ARMED"
    <3>1. strategy'.failures = 0 /\ strategy'.status = "ARMED" /\ sent' = {} /\ crashes' = crashes
      BY <1>1, <2>2 DEF Enable
    <3> QED BY <3>1, <1>0, <1>a, FS_EmptySet DEF Spent, LastFailureStops
  <2> QED BY <2>1, <2>2
<1>2. CASE Disable
  BY <1>2, <1>0, <1>a DEF Disable, StrategyRows, Spent, Spending, LastFailureStops
<1>3. CASE Delete
  BY <1>3, <1>0 DEF Delete, RunsGone, LastFailureStops, FiringsBounded
<1>4. ASSUME NEW i \in Instances, NEW q \in Quotes, LockFireable(i, q) PROVE Goal
  BY <1>4, <1>0, <1>c DEF LockFireable, Unlocked, rows, Spending
<1>5. ASSUME NEW i \in Instances, NEW q \in Quotes, Outcome(i, q) PROVE Goal
  <2>1. strategy.status # "DELETED" /\ sent' = sent /\ crashes' = crashes /\ firing' = firing
    BY <1>5, <1>0 DEF Outcome, RunsGone
  <2>2. CASE CountFailure(Run("event", q, "REJECTED"), "stopped at event")
    <3>1. Run("event", q, "REJECTED") \in RunRows /\ "stopped at event" \in Causes
      BY RunTyped DEF Causes, Outcomes
    <3>2. strategy'.status # "DELETED"
      BY <1>0, <2>2, <3>1, FailureCounted
    <3> QED BY <1>a, <2>1, <2>2, <3>1, <3>2, FailurePays
  <2>3. CASE UNCHANGED strategy
    <3>1. Spent' /\ LastFailureStops' /\ strategy'.status # "DELETED"
      BY <1>0, <2>1, <2>3 DEF Spent, Spending, LastFailureStops
    <3> QED BY <1>a, <3>1
  <2> QED BY <1>5, <2>2, <2>3 DEF Outcome
<1>6. ASSUME NEW i \in Instances, Refuse(i) PROVE Goal
  <2>1. ~Spending /\ strategy.status = "ARMED" /\ Spent /\ strategy.failures < MaxFailures
    BY <1>6, <1>b DEF Refuse, Spending
  <2>2. /\ sent' = sent /\ crashes' = crashes /\ strategy'.failures = strategy.failures
        /\ strategy'.status \in {"ARMED", "STOPPED"}
    BY <1>6, <1>0, <2>1 DEF Refuse, rows, StrategyRows
  <2>3. Cardinality(sent) <= strategy.failures + crashes
    BY <1>0, <2>1 DEF Spent
  <2> QED BY <1>0, <1>a, <2>1, <2>2, <2>3 DEF Spent, LastFailureStops
<1>7. ASSUME NEW i \in Instances, AlreadyRan(i) PROVE Goal
  <2>1. ~Spending
    BY <1>7, <1>b DEF AlreadyRan, Spending
  <2> QED BY <1>7, <1>c, <2>1 DEF AlreadyRan, rows
<1>8. ASSUME NEW i \in Instances, Call(i) PROVE Goal
  <2>1. /\ firing[i].step = "locked" /\ firing[i].quote \in Quotes
        /\ sent' = sent \cup {firing[i].quote}
        /\ strategy' = strategy /\ crashes' = crashes /\ strategy.status = "ARMED" /\ Spent
    BY <1>8, <1>b DEF Call, rows
  <2>2. ~Spending
    BY <2>1, <1>b DEF Spending
  <2>3. Spending'
    BY <1>8, <1>0 DEF Call, Goes, Spending
  <2>4. Cardinality(sent) <= strategy.failures + crashes
    BY <1>0, <2>1, <2>2 DEF Spent
  <2>5. /\ Cardinality(sent') \in Nat
        /\ Cardinality(sent') <= strategy.failures + crashes + 1
    <3>1. /\ Cardinality(sent \cup {firing[i].quote}) \in Nat
          /\ Cardinality(sent \cup {firing[i].quote}) <= Cardinality(sent) + 1
      BY <1>0, <2>1, SentCounted
    <3> QED BY <1>0, <2>1, <2>4, <3>1
  <2> QED BY <1>0, <1>a, <2>1, <2>3, <2>5 DEF Spent, LastFailureStops
<1>9. ASSUME NEW i \in Instances, NoToken(i) PROVE Goal
  <2>1. Spending'
    BY <1>9, <1>0 DEF NoToken, Goes, Spending
  <2> QED BY <1>9, <1>c, <2>1 DEF NoToken, rows
<1>10. ASSUME NEW i \in Instances, RecordPlaced(i) PROVE Goal
  <2>1. /\ Spent /\ strategy.failures < MaxFailures /\ strategy.status = "ARMED"
        /\ strategy'.failures = strategy.failures /\ strategy'.status = "FIRED"
        /\ sent' = sent /\ crashes' = crashes
    BY <1>10, <1>0, <1>b DEF RecordPlaced, StrategyRows
  <2> QED BY <1>0, <1>a, <2>1 DEF Spent, LastFailureStops
<1>11. ASSUME NEW i \in Instances, RecordFailed(i) PROVE Goal
  <2>1. /\ firing[i].quote \in Quotes /\ strategy.status # "DELETED"
        /\ sent' = sent /\ crashes' = crashes
        /\ CountFailure(Run("quote", firing[i].quote, "FAILED"), "stopped at quote")
    BY <1>11, <1>b DEF RecordFailed
  <2>2. Run("quote", firing[i].quote, "FAILED") \in RunRows /\ "stopped at quote" \in Causes
    BY <2>1, RunTyped DEF Causes, Outcomes
  <2>3. strategy'.status # "DELETED"
    BY <1>0, <2>1, <2>2, FailureCounted
  <2> QED BY <1>a, <2>1, <2>2, <2>3, FailurePays
<1>12. ASSUME NEW i \in Instances, Crash(i) PROVE Goal
  <2>1. /\ Spent /\ strategy.status = "ARMED" /\ strategy.failures < MaxFailures
        /\ strategy' = strategy /\ sent' = sent /\ crashes' = crashes + 1
    BY <1>12, <1>b DEF Crash, rows
  <2> QED BY <1>0, <1>a, <2>1 DEF Spent, LastFailureStops
<1>13. ASSUME NEW c \in calls, RouteAccepts(c) \/ RouteRefuses(c) \/ TimeOut(c) PROVE Goal
  <2>1. strategy' = strategy /\ runs' = runs /\ sent' = sent /\ crashes' = crashes
    BY <1>13 DEF RouteAccepts, RouteRefuses, TimeOut, Answered, rows
  <2>2. firing' = firing \/ Goes(c.caller, "placed") \/ Goes(c.caller, "failed")
    BY <1>13 DEF RouteAccepts, RouteRefuses, TimeOut, Answered
  <2>3. Spending => Spending'
    BY <1>0, <2>2 DEF Goes, Spending
  <2> QED BY <1>c, <2>1, <2>3
<1>14. ASSUME NEW q \in Quotes, NEW final \in {"FILLED", "REJECTED", "CANCELLED"}, OrderEnds(q, final)
       PROVE  Goal
  BY <1>14, <1>c DEF OrderEnds, rows, Spending
<1>15. CASE UNCHANGED vars
  BY <1>15, <1>c DEF vars, rows, Spending
<1> QED
  BY <1>1, <1>2, <1>3, <1>4, <1>5, <1>6, <1>7, <1>8, <1>9, <1>10, <1>11, <1>12, <1>13, <1>14,
     <1>15 DEF Next
-----------------------------------------------------------------------------
(* Runs and orders: what is recorded of a firing is recorded once.         *)

\* A firing that has called had no run yet, and one that was told its order is placed
\* has its order.
FiringInv ==
    \A i \in Instances :
        /\ firing[i].step \in {"calling", "placed"} => firing[i].quote \in sent
        /\ firing[i].step \in {"calling", "placed", "failed"} => ~Recorded("quote", firing[i].quote)
        /\ firing[i].step = "placed" => order[firing[i].quote] # "ABSENT"

\* The failed ones among the runs rs, the orders standing as in ord.
Failed(rs, ord) ==
    {r \in rs : \/ r.cause = "quote" /\ r.outcome = "FAILED"
                \/ r.cause = "event" /\ ord[r.quote] = "REJECTED"}

Records == IsFiniteSet(runs) /\ FiringInv /\ FailuresHaveRuns /\ FiredHasOrder

\* An order that was refused or placed stays so.
OrdersKept ==
    \A q \in Quotes : /\ order[q] = "REJECTED" => order'[q] = "REJECTED"
                      /\ order[q] # "ABSENT" => order'[q] # "ABSENT"

LEMMA InitRecords == Init => Records
<1> SUFFICES ASSUME Init PROVE Records
  OBVIOUS
<1>1. runs = {} /\ strategy.failures = 0 /\ strategy.status = "ARMED" /\ \A i \in Instances : firing[i].step = "idle"
  BY DEF Init, Idle
<1>2. {r \in runs : \/ r.cause = "quote" /\ r.outcome = "FAILED"
                    \/ r.cause = "event" /\ order[r.quote] = "REJECTED"} = {}
  BY <1>1
<1> QED BY <1>1, <1>2, FS_EmptySet DEF Records, FiringInv, FailuresHaveRuns, FiredHasOrder

\* Orders only move on.
LEMMA OrdersStep == ASSUME TypeOK, [Next]_vars PROVE OrdersKept
<1>1. order \in [Quotes -> {"ABSENT", "NEW", "FILLED", "REJECTED", "CANCELLED"}] /\ \A c \in calls : c.quote \in Quotes
  BY DEF TypeOK
<1>2. CASE UNCHANGED order
  BY <1>2 DEF OrdersKept
<1>3. ASSUME NEW c \in calls, RouteAccepts(c) PROVE OrdersKept
  BY <1>1, <1>3 DEF RouteAccepts, OrdersKept
<1>4. ASSUME NEW q \in Quotes, NEW final \in {"FILLED", "REJECTED", "CANCELLED"}, OrderEnds(q, final)
      PROVE  OrdersKept
  BY <1>1, <1>4 DEF OrderEnds, OrdersKept
<1> QED
  BY <1>2, <1>3, <1>4 DEF Next, Enable, Disable, Delete, LockFireable, Outcome, Refuse, AlreadyRan, Call,
     NoToken, RecordPlaced, RecordFailed, Crash, RouteRefuses, TimeOut, vars

\* Runs that are kept, and orders that only move on, leave no fewer failed runs.
LEMMA FailedGrow ==
    ASSUME TypeOK, Records, OrdersKept, runs \subseteq runs', IsFiniteSet(runs'), runs \subseteq RunRows
    PROVE  /\ Cardinality(Failed(runs, order)) \in Nat /\ Cardinality(Failed(runs', order')) \in Nat
           /\ Cardinality(Failed(runs, order)) <= Cardinality(Failed(runs', order'))
           /\ \A r \in runs' \ runs : r \in Failed(runs', order') =>
                 Cardinality(Failed(runs, order)) + 1 <= Cardinality(Failed(runs', order'))
<1> DEFINE now == Failed(runs, order)
           then == Failed(runs', order')
<1>1. now \subseteq then /\ now \subseteq runs
  BY DEF Failed, OrdersKept, RunRows
<1>2. then \subseteq runs'
  BY DEF Failed
<1> HIDE DEF now, then
<1>3. IsFiniteSet(then) /\ IsFiniteSet(now)
  BY <1>1, <1>2, FS_Subset
<1>4. Cardinality(now) \in Nat /\ Cardinality(then) \in Nat /\ Cardinality(now) <= Cardinality(then)
  BY <1>1, <1>3, FS_Subset, FS_CardinalityType
<1>5. ASSUME NEW r \in runs' \ runs, r \in then
      PROVE  Cardinality(now) + 1 <= Cardinality(then)
  <2>1. now \cup {r} \subseteq then /\ r \notin now
    BY <1>1, <1>5
  <2>2. Cardinality(now \cup {r}) = Cardinality(now) + 1
    BY <1>3, <2>1, FS_AddElement
  <2>3. Cardinality(now \cup {r}) <= Cardinality(then)
    BY <1>3, <2>1, FS_Subset
  <2> QED BY <2>2, <2>3
<1> QED BY <1>4, <1>5 DEF now, then

LEMMA FailuresAsSet ==
    /\ FailuresHaveRuns <=> strategy.failures <= Cardinality(Failed(runs, order))
    /\ FailuresHaveRuns' <=> strategy'.failures <= Cardinality(Failed(runs', order'))
BY DEF FailuresHaveRuns, Failed

\* Steps that count no failure.
LEMMA NoFailureCounted ==
    ASSUME TypeOK, Records, OrdersKept, runs \subseteq runs', IsFiniteSet(runs'),
           strategy'.failures \in {0, strategy.failures}
    PROVE  FailuresHaveRuns'
<1>1. strategy.failures \in Nat /\ runs \subseteq RunRows
  BY StrategiesAssumption, TypeParts DEF TypeOK
<1>2. /\ Cardinality(Failed(runs, order)) \in Nat /\ Cardinality(Failed(runs', order')) \in Nat
      /\ Cardinality(Failed(runs, order)) <= Cardinality(Failed(runs', order'))
  BY <1>1, FailedGrow
<1>3. strategy.failures <= Cardinality(Failed(runs, order))
  BY FailuresAsSet DEF Records
<1> QED BY <1>1, <1>2, <1>3, FailuresAsSet

\* A failure is counted with a run that was not there.
LEMMA FailureHasRun ==
    ASSUME TypeOK, Records, OrdersKept, NEW run \in RunRows, NEW cause \in Causes, CountFailure(run, cause),
           ~Recorded(run.cause, run.quote),
           \/ run.cause = "quote" /\ run.outcome = "FAILED"
           \/ run.cause = "event" /\ order[run.quote] = "REJECTED"
    PROVE  runs \subseteq runs' /\ IsFiniteSet(runs') /\ FailuresHaveRuns' /\ strategy'.status # "FIRED"
<1>1. runs \subseteq RunRows /\ MaxFailures \in Nat \ {0} /\ strategy.failures \in 0..MaxFailures
  BY StrategiesAssumption, TypeParts DEF TypeOK
<1>2. PICK stop : runs' = runs \cup {run} \cup stop /\ IsFiniteSet(stop)
  <2>1. PICK last \in {{}, {Run(cause, run.quote, "STOPPED")}} : runs' = runs \cup {run} \cup last
    BY DEF CountFailure
  <2>2. IsFiniteSet({}) /\ IsFiniteSet({Run(cause, run.quote, "STOPPED")})
    BY FS_EmptySet, FS_Singleton
  <2> QED BY <2>1, <2>2
<1>3. IsFiniteSet(runs')
  BY <1>2, FS_Singleton, FS_Union DEF Records
<1>4. run \in runs' \ runs
  BY <1>2 DEF Recorded
<1>5. run \in Failed(runs', order')
  BY <1>4 DEF Failed, OrdersKept, RunRows
<1>6. /\ Cardinality(Failed(runs, order)) \in Nat /\ Cardinality(Failed(runs', order')) \in Nat
      /\ Cardinality(Failed(runs, order)) + 1 <= Cardinality(Failed(runs', order'))
  <2>1. runs \subseteq runs'
    BY <1>2
  <2> QED BY <1>1, <1>3, <1>4, <1>5, <2>1, FailedGrow
<1>7. /\ strategy'.status \in {"ARMED", "STOPPED"}
      /\ strategy'.failures \in {strategy.failures, strategy.failures + 1}
  BY <1>1, FailureCounted
<1>8. strategy.failures <= Cardinality(Failed(runs, order))
  BY FailuresAsSet DEF Records
<1> QED BY <1>1, <1>2, <1>3, <1>6, <1>7, <1>8, FailuresAsSet

\* Steps that come from no other status to FIRED.
LEMMA FiredKept ==
    ASSUME TypeOK, Records, OrdersKept, runs \subseteq runs', sent \subseteq sent',
           strategy'.status = "FIRED" => strategy.status = "FIRED"
    PROVE  FiredHasOrder'
BY DEF TypeOK, Records, FiredHasOrder, OrdersKept
\* A firing's facts, for every action.
LEMMA FiringStep ==
    ASSUME TypeOK, LockInv, CallsInv, Records, OrdersKept, [Next]_vars
    PROVE  FiringInv'
<1> DEFINE FiringRows == [step : Steps, quote : Quotes \cup {Nobody}]
<1>0. /\ firing \in [Instances -> FiringRows] /\ FiringInv /\ calls \subseteq [quote : Quotes, caller : Instances \cup {Nobody}]
      /\ order \in [Quotes -> {"ABSENT", "NEW", "FILLED", "REJECTED", "CANCELLED"}]
  BY TypeParts DEF Records
\* While nobody fires, there is nothing to know.
<1>1. ASSUME \A i \in Instances : firing'[i].step \in {"idle", "locked"} PROVE FiringInv'
  BY <1>1 DEF FiringInv
<1>2. CASE Enable \/ Disable \/ Delete
  BY <1>1, <1>2 DEF Enable, Disable, Delete, Unlocked
<1>3. ASSUME NEW i \in Instances, NEW q \in Quotes, LockFireable(i, q) PROVE FiringInv'
  BY <1>0, <1>1, <1>3 DEF LockFireable, Unlocked
<1>4. ASSUME NEW i \in Instances, NEW q \in Quotes, Outcome(i, q) PROVE FiringInv'
  BY <1>1, <1>4 DEF Outcome, Unlocked
\* The firing that ends was the only one.
<1>5. ASSUME NEW i \in Instances, firing[i].step # "idle", Ends(i) PROVE FiringInv'
  BY <1>0, <1>1, <1>5 DEF Ends, Idle, LockInv
<1>6. ASSUME NEW i \in Instances,
             Refuse(i) \/ AlreadyRan(i) \/ RecordPlaced(i) \/ RecordFailed(i) \/ Crash(i)
      PROVE  FiringInv'
  BY <1>5, <1>6 DEF Refuse, AlreadyRan, RecordPlaced, RecordFailed, Crash
<1>7. ASSUME NEW i \in Instances, Call(i) PROVE FiringInv'
  <2>1. \A j \in Instances : j # i => firing'[j].step = "idle"
    BY <1>0, <1>7 DEF Call, Goes, LockInv
  <2>2. /\ firing'[i].step = "calling" /\ firing'[i].quote = firing[i].quote /\ sent' = sent \cup {firing[i].quote}
        /\ ~Recorded("quote", firing[i].quote) /\ runs' = runs
    BY <1>0, <1>7 DEF Call, Goes, rows
  <2> QED BY <2>1, <2>2 DEF FiringInv, Recorded
<1>8. ASSUME NEW i \in Instances, NoToken(i) PROVE FiringInv'
  <2>1. \A j \in Instances : j # i => firing'[j].step = "idle"
    BY <1>0, <1>8 DEF NoToken, Goes, LockInv
  <2>2. /\ firing'[i].step = "failed" /\ firing'[i].quote = firing[i].quote
        /\ ~Recorded("quote", firing[i].quote) /\ runs' = runs
    BY <1>0, <1>8 DEF NoToken, Goes, rows
  <2> QED BY <2>1, <2>2 DEF FiringInv, Recorded
\* What the route, or its silence, tells the firing that waits.
<1>9. ASSUME NEW c \in calls, RouteAccepts(c) \/ RouteRefuses(c) \/ TimeOut(c) PROVE FiringInv'
  <2>1. runs' = runs /\ sent' = sent
    BY <1>9 DEF RouteAccepts, RouteRefuses, TimeOut, Answered, rows
  <2>2. ASSUME firing' = firing PROVE FiringInv'
    <3>1. \A i \in Instances : firing[i].step = "placed" => firing[i].quote \in Quotes
      BY DEF LockInv
    <3> QED BY <2>1, <2>2, <3>1, <1>0 DEF FiringInv, Recorded, OrdersKept
  <2>3. ASSUME c.caller # Nobody, NEW step \in {"placed", "failed"}, Goes(c.caller, step),
               step = "placed" => order'[c.quote] # "ABSENT"
        PROVE  FiringInv'
    <3>1. /\ c.caller \in Instances /\ firing[c.caller].step = "calling" /\ firing[c.caller].quote = c.quote
          /\ c.quote \in sent /\ ~Recorded("quote", c.quote)
      BY <1>0, <2>3 DEF CallsInv, FiringInv
    <3>2. /\ firing'[c.caller].step = step /\ firing'[c.caller].quote = c.quote
          /\ \A j \in Instances : j # c.caller => firing'[j].step = "idle"
      BY <1>0, <2>3, <3>1 DEF Goes, LockInv
    <3> QED BY <2>1, <2>3, <3>1, <3>2 DEF FiringInv, Recorded
  <2>4. CASE RouteAccepts(c)
    <3>1. order'[c.quote] # "ABSENT"
      BY <1>0, <2>4 DEF RouteAccepts
    <3> QED BY <2>2, <2>3, <2>4, <3>1 DEF RouteAccepts, Answered
  <2>5. CASE RouteRefuses(c) \/ TimeOut(c)
    BY <2>2, <2>3, <2>5 DEF RouteRefuses, TimeOut, Answered
  <2> QED BY <1>9, <2>4, <2>5
<1>10. ASSUME firing' = firing, runs' = runs, sent' = sent PROVE FiringInv'
  <2>1. \A i \in Instances : firing[i].step = "placed" => firing[i].quote \in Quotes
    BY DEF LockInv
  <2> QED BY <1>0, <1>10, <2>1 DEF FiringInv, Recorded, OrdersKept
<1>11. ASSUME NEW q \in Quotes, NEW final \in {"FILLED", "REJECTED", "CANCELLED"}, OrderEnds(q, final)
       PROVE  FiringInv'
  BY <1>10, <1>11 DEF OrderEnds, rows
<1>12. CASE UNCHANGED vars
  BY <1>10, <1>12 DEF vars, rows
<1> QED BY <1>2, <1>3, <1>4, <1>6, <1>7, <1>8, <1>9, <1>11, <1>12 DEF Next

\* Runs, failures and orders, for every action.
LEMMA RecordsStep ==
    ASSUME TypeOK, LockInv, CallsInv, Records, [Next]_vars
    PROVE  Records'
<1> USE StrategiesAssumption
<1>0. /\ OrdersKept /\ FiringInv' /\ FiringInv /\ IsFiniteSet(runs) /\ FiredHasOrder /\ strategy \in StrategyRows
  BY OrdersStep, FiringStep, TypeParts DEF Records
<1> SUFFICES IsFiniteSet(runs') /\ FailuresHaveRuns' /\ FiredHasOrder'
  BY <1>0 DEF Records
<1> DEFINE Goal == IsFiniteSet(runs') /\ FailuresHaveRuns' /\ FiredHasOrder'
<1>1. ASSUME runs \subseteq runs', IsFiniteSet(runs'), sent \subseteq sent',
             strategy'.failures = strategy.failures, strategy'.status = "FIRED" => strategy.status = "FIRED"
      PROVE  Goal
  BY <1>0, <1>1, NoFailureCounted, FiredKept
<1>2. ASSUME strategy' = strategy, runs' = runs, sent' = sent \/ sent \subseteq sent' PROVE Goal
  BY <1>0, <1>1, <1>2
\* A run more, and no failure.
<1>3. ASSUME NEW run, runs' = runs \cup {run}, sent' = sent, strategy'.failures = strategy.failures,
             strategy'.status = "FIRED" => strategy.status = "FIRED"
      PROVE  Goal
  <2>1. IsFiniteSet(runs')
    BY <1>0, <1>3, FS_AddElement
  <2> QED BY <1>1, <1>3, <2>1
<1>4. ASSUME NEW run \in RunRows, NEW cause \in Causes, CountFailure(run, cause),
             ~Recorded(run.cause, run.quote), sent' = sent,
             \/ run.cause = "quote" /\ run.outcome = "FAILED"
             \/ run.cause = "event" /\ order[run.quote] = "REJECTED"
      PROVE  Goal
  BY <1>0, <1>4, FailureHasRun, FiredKept
<1>5. CASE Enable
  <2>1. CASE strategy.status = "ARMED"
    BY <1>0, <1>1, <1>5, <2>1 DEF Enable, StrategyRows
  <2>2. CASE strategy.status # "ARMED"
    <3>1. runs' = runs /\ strategy'.failures = 0 /\ strategy'.status = "ARMED"
      BY <1>5, <2>2 DEF Enable
    <3>2. FailuresHaveRuns'
      BY <1>0, <3>1, NoFailureCounted
    <3> QED BY <1>0, <3>1, <3>2 DEF FiredHasOrder
  <2> QED BY <2>1, <2>2
<1>6. CASE Disable
  BY <1>0, <1>1, <1>6 DEF Disable, StrategyRows
<1>7. CASE Delete
  <2>1. runs' = {} /\ strategy'.failures = 0 /\ strategy'.status = "DELETED"
    BY <1>7 DEF Delete
  <2>2. Failed(runs', order') = {}
    BY <2>1 DEF Failed
  <2> QED BY <2>1, <2>2, FailuresAsSet, FS_EmptySet DEF FiredHasOrder
<1>8. ASSUME NEW i \in Instances, NEW q \in Quotes, LockFireable(i, q) PROVE Goal
  BY <1>2, <1>8 DEF LockFireable, rows
<1>9. ASSUME NEW i \in Instances, NEW q \in Quotes, Outcome(i, q) PROVE Goal
  <2>1. CASE order[q] = "REJECTED" /\ CountFailure(Run("event", q, "REJECTED"), "stopped at event")
    <3>1. Run("event", q, "REJECTED") \in RunRows /\ "stopped at event" \in Causes
      BY RunTyped DEF Causes, Outcomes
    <3>2. /\ Run("event", q, "REJECTED").cause = "event" /\ Run("event", q, "REJECTED").quote = q
          /\ sent' = sent /\ ~Recorded("event", q)
      BY <1>9 DEF Outcome, Run
    <3> QED BY <1>4, <2>1, <3>1, <3>2
  <2>2. CASE UNCHANGED strategy /\ \E run : runs' = runs \cup {run}
    <3>1. sent' = sent
      BY <1>9 DEF Outcome
    <3> QED BY <1>3, <2>2, <3>1
  <2> QED BY <1>9, <2>1, <2>2 DEF Outcome
<1>10. ASSUME NEW i \in Instances, Refuse(i) PROVE Goal
  <2>1. CASE UNCHANGED rows
    BY <1>2, <1>10, <2>1 DEF Refuse, rows
  <2>2. CASE /\ runs' = runs \cup {Run("quote", firing[i].quote, "REFUSED_LIMIT")}
             /\ strategy' = [strategy EXCEPT !.status = "STOPPED"]
    BY <1>0, <1>3, <1>10, <2>2 DEF Refuse, StrategyRows
  <2> QED BY <1>10, <2>1, <2>2 DEF Refuse
<1>11. ASSUME NEW i \in Instances, AlreadyRan(i) \/ NoToken(i) \/ Call(i) \/ Crash(i) PROVE Goal
  BY <1>2, <1>11 DEF AlreadyRan, NoToken, Call, Crash, rows
<1>12. ASSUME NEW i \in Instances, RecordPlaced(i) PROVE Goal
  <2> DEFINE run == Run("quote", firing[i].quote, "PLACED")
  <2>1. /\ runs' = runs \cup {run} /\ strategy'.failures = strategy.failures
        /\ sent' = sent /\ order' = order
    BY <1>0, <1>12 DEF RecordPlaced, StrategyRows
  <2>2. /\ run.cause = "quote" /\ run.outcome = "PLACED"
        /\ run.quote \in sent /\ order[run.quote] # "ABSENT"
    BY <1>0, <1>12 DEF RecordPlaced, FiringInv, Run
  <2> HIDE DEF run
  <2>3. IsFiniteSet(runs')
    BY <1>0, <2>1, FS_AddElement
  <2>4. FailuresHaveRuns'
    BY <1>0, <2>1, <2>3, NoFailureCounted
  <2>5. FiredHasOrder'
    BY <2>1, <2>2 DEF FiredHasOrder
  <2> QED BY <2>3, <2>4, <2>5
<1>13. ASSUME NEW i \in Instances, RecordFailed(i) PROVE Goal
  <2> DEFINE run == Run("quote", firing[i].quote, "FAILED")
  <2>1. run \in RunRows /\ "stopped at quote" \in Causes
    BY <1>13, RunTyped DEF RecordFailed, LockInv, Causes, Outcomes
  <2>2. /\ run.cause = "quote" /\ run.outcome = "FAILED" /\ ~Recorded(run.cause, run.quote)
        /\ CountFailure(run, "stopped at quote") /\ sent' = sent
    BY <1>0, <1>13 DEF RecordFailed, FiringInv, Run
  <2> HIDE DEF run
  <2> QED BY <1>4, <2>1, <2>2
<1>14. ASSUME NEW c \in calls, RouteAccepts(c) \/ RouteRefuses(c) \/ TimeOut(c) PROVE Goal
  BY <1>2, <1>14 DEF RouteAccepts, RouteRefuses, TimeOut, Answered, rows
<1>15. ASSUME NEW q \in Quotes, NEW final \in {"FILLED", "REJECTED", "CANCELLED"}, OrderEnds(q, final)
       PROVE  Goal
  BY <1>2, <1>15 DEF OrderEnds, rows
<1>16. CASE UNCHANGED vars
  BY <1>2, <1>16 DEF vars, rows
<1> QED
  BY <1>5, <1>6, <1>7, <1>8, <1>9, <1>10, <1>11, <1>12, <1>13, <1>14, <1>15, <1>16 DEF Next
-----------------------------------------------------------------------------
LEMMA StepInv == Inv /\ [Next]_vars => Inv'
<1> SUFFICES ASSUME Inv, [Next]_vars PROVE Inv'
  OBVIOUS
<1>1. TypeOK'
  BY TypeStep DEF Inv
<1>2. LockInv' /\ CallsInv'
  BY LockStep DEF Inv
<1> QED
  BY <1>1, <1>2, SpentStep DEF Inv

\* The rows and the memory of a firing keep their types; failures stay within
\* the CHECK of strat_strategy.
THEOREM TypeCorrect == Spec => []TypeOK
BY InitInv, StepInv, PTL DEF Spec, Inv

\* A strategy whose last allowed failure was counted is stopped.
THEOREM StopsAtLastFailure == Spec => []LastFailureStops
BY InitInv, StepInv, PTL DEF Spec, Inv

\* Between two armings a strategy calls the order route for at most as many
\* quotes as it is allowed failures, and one for each firing lost in a crash.
THEOREM SpendingBounded == Spec => []FiringsBounded
BY InitInv, StepInv, PTL DEF Spec, Inv

\* A strategy that is off, has fired or was stopped calls nobody.
THEOREM OnlyArmedCall == Spec => CallsOnlyWhileArmed
<1>1. Inv /\ [Next]_vars =>
        [\A i \in Instances :
           firing[i].step # "calling" /\ firing'[i].step = "calling"
             => strategy.enabled /\ strategy.status = "ARMED"]_vars
  <2> SUFFICES ASSUME Inv, [Next]_vars, NEW i \in Instances,
                      firing[i].step # "calling", firing'[i].step = "calling"
               PROVE  strategy.enabled /\ strategy.status = "ARMED"
    OBVIOUS
  <2>0. /\ firing \in [Instances -> [step : Steps, quote : Quotes \cup {Nobody}]]
        /\ calls \subseteq [quote : Quotes, caller : Instances \cup {Nobody}]
        /\ CallsInv /\ LockInv
    BY TypeParts DEF Inv
  <2>1. SUFFICES ASSUME firing[i].step = "idle" PROVE firing'[i].step \in {"idle", "locked"}
    BY <2>0 DEF LockInv
  <2>2. CASE \/ Enable \/ Disable \/ Delete \/ UNCHANGED vars
             \/ \E j \in Instances, q \in Quotes : Outcome(j, q)
             \/ \E q \in Quotes, final \in {"FILLED", "REJECTED", "CANCELLED"} : OrderEnds(q, final)
    BY <2>1, <2>2 DEF Enable, Disable, Delete, Outcome, OrderEnds, vars
  <2>3. ASSUME NEW j \in Instances, NEW q \in Quotes, LockFireable(j, q)
        PROVE  firing'[i].step \in {"idle", "locked"}
    BY <2>0, <2>1, <2>3 DEF LockFireable
  <2>4. ASSUME NEW j \in Instances,
               Refuse(j) \/ AlreadyRan(j) \/ RecordPlaced(j) \/ RecordFailed(j) \/ Crash(j)
        PROVE  firing'[i].step \in {"idle", "locked"}
    BY <2>0, <2>1, <2>4 DEF Refuse, AlreadyRan, RecordPlaced, RecordFailed, Crash, Ends, Idle
  <2>5. ASSUME NEW j \in Instances, Call(j) \/ NoToken(j)
        PROVE  firing'[i].step \in {"idle", "locked"}
    BY <2>0, <2>1, <2>5 DEF Call, NoToken, Goes
  <2>6. ASSUME NEW c \in calls, RouteAccepts(c) \/ RouteRefuses(c) \/ TimeOut(c)
        PROVE  firing'[i].step \in {"idle", "locked"}
    <3>1. \/ firing' = firing
          \/ c.caller # Nobody /\ (Goes(c.caller, "placed") \/ Goes(c.caller, "failed"))
      BY <2>6 DEF RouteAccepts, RouteRefuses, TimeOut, Answered
    <3>2. c.caller # Nobody => c.caller # i
      BY <2>0, <2>1 DEF CallsInv
    <3> QED BY <2>0, <2>1, <3>1, <3>2 DEF Goes
  <2> QED BY <2>2, <2>3, <2>4, <2>5, <2>6 DEF Next
<1> QED BY <1>1, InitInv, StepInv, PTL DEF Spec, CallsOnlyWhileArmed

\* For every failure a strategy counts there is a run of its own that failed: no quote
\* and no trade event is counted twice, however often it is delivered.
THEOREM FailuresAccounted == Spec => []FailuresHaveRuns
<1>1. Inv /\ Records /\ [Next]_vars => (Inv /\ Records)'
  BY StepInv, RecordsStep DEF Inv
<1>2. Records => FailuresHaveRuns
  BY DEF Records
<1> QED BY <1>1, <1>2, InitInv, InitRecords, PTL DEF Spec

\* A strategy that says it fired has the order, and the run that finds its outcome.
THEOREM FiredForAnOrder == Spec => []FiredHasOrder
<1>1. Inv /\ Records /\ [Next]_vars => (Inv /\ Records)'
  BY StepInv, RecordsStep DEF Inv
<1>2. Records => FiredHasOrder
  BY DEF Records
<1> QED BY <1>1, <1>2, InitInv, InitRecords, PTL DEF Spec
=============================================================================
