---------------------------- MODULE LoginThrottle ----------------------------
(***************************************************************************)
(* The throttle of the login route, for one caller's address.              *)
(*                                                                         *)
(* A login reads the count of failures before the password is checked and  *)
(* adds to it after, so logins that overlap are let in together.  Every    *)
(* instance of the service counts in Redis; a command that fails, or times *)
(* out after Redis carried it out, is done in the instance's memory        *)
(* instead, and nothing is copied back.                                    *)
(*                                                                         *)
(* The throttle stands beside Sessions, in the same service: the           *)
(* specification, its variables and its faults have names of their own.    *)
(***************************************************************************)
EXTENDS Integers, FiniteSets

CONSTANTS
    Instances,       \* of the Auth service
    MaxAttempts,     \* failures after which the caller is refused: 5
    Window,          \* ticks from the first failure to its being forgotten: 60 seconds
    Parallel,        \* bound: logins of this caller under way at once
    MaxCommandFaults \* bound: Redis commands that fail or time out

ASSUME LoginThrottleAssumption ==
    /\ Instances # {}
    /\ MaxAttempts \in Nat \ {0} /\ Window \in Nat \ {0}
    /\ Parallel \in Nat \ {0} /\ MaxCommandFaults \in Nat

Logins == 1..Parallel

VARIABLES
    redis,  \* the shared counter: failures, and ticks until its key expires
    memory, \* each instance's own counter
    login,  \* each login under way
    commandFaults

throttleVars == <<redis, memory, login, commandFaults>>

NoWindow == [count |-> 0, left |-> 0]
Idle(l) == login[l].step = "idle"

ThrottleInit ==
    /\ redis = NoWindow
    /\ memory = [i \in Instances |-> NoWindow]
    /\ login = [l \in Logins |-> [at |-> CHOOSE i \in Instances : TRUE, step |-> "idle"]]
    /\ commandFaults = 0

\* Broken variant: INCR, and the process dies before PEXPIRE: a key that stays.
NeverExpiring(counter) == [counter EXCEPT !.count = @ + 1]

\* One more failure; the first opens the window, later ones do not extend it.
Incremented(counter) ==
    IF counter.count = 0 THEN [count |-> 1, left |-> Window]
    ELSE [counter EXCEPT !.count = @ + 1]

\* A Redis command of instance i fails: without effect, or after it was carried out.
CommandFault == commandFaults < MaxCommandFaults /\ commandFaults' = commandFaults + 1

\* What count(caller) answers at instance i.
Counted(i, n) ==
    \/ n = redis.count /\ UNCHANGED commandFaults
    \/ n = memory[i].count /\ CommandFault

\* Broken variant: the caller is refused only after the limit, not at it.
ArriveOneMore(l, i) ==
    /\ Idle(l)
    /\ \E n \in {redis.count, memory[i].count} :
          /\ Counted(i, n)
          /\ login' = [login EXCEPT ![l] = [at |-> i, step |-> IF n > MaxAttempts THEN "idle" ELSE "verify"]]
    /\ UNCHANGED <<redis, memory>>

\* The guard refuses with 429, which leaves the login idle, or lets it in.
Arrive(l, i) ==
    /\ Idle(l)
    /\ \E n \in {redis.count, memory[i].count} :
          /\ Counted(i, n)
          /\ login' = [login EXCEPT ![l] = [at |-> i, step |-> IF n >= MaxAttempts THEN "idle" ELSE "verify"]]
    /\ UNCHANGED <<redis, memory>>

\* The password is right or wrong, the username unknown, or the database fails:
\* everything but a success is counted as a failure.
Verify(l) ==
    /\ login[l].step = "verify"
    /\ \E outcome \in {"success", "failure"} : login' = [login EXCEPT ![l].step = outcome]
    /\ UNCHANGED <<redis, memory, commandFaults>>

\* The counter becomes `shared` in Redis; when the command fails, Redis may have
\* carried it out, and the instance's own counter becomes `own`.
Store(i, shared, own) ==
    \/ redis' = shared /\ UNCHANGED <<memory, commandFaults>>
    \/ redis' \in {redis, shared} /\ memory' = [memory EXCEPT ![i] = own] /\ CommandFault

RecordFailure(l) ==
    LET i == login[l].at IN
    /\ login[l].step = "failure"
    /\ Store(i, Incremented(redis), Incremented(memory[i]))
    /\ login' = [login EXCEPT ![l].step = "idle"]

RecordSuccess(l) ==
    /\ login[l].step = "success"
    /\ Store(login[l].at, NoWindow, NoWindow)
    /\ login' = [login EXCEPT ![l].step = "idle"]

\* A counter one tick later: Redis drops the key, the in-memory store the entry.
Aged(counter) ==
    IF counter.left = 1 THEN NoWindow
    ELSE IF counter.left > 1 THEN [counter EXCEPT !.left = @ - 1] ELSE counter

Tick ==
    /\ redis' = Aged(redis)
    /\ memory' = [i \in Instances |-> Aged(memory[i])]
    /\ UNCHANGED <<login, commandFaults>>

ThrottleNext ==
    \/ \E l \in Logins : \/ \E i \in Instances : Arrive(l, i)
                         \/ Verify(l) \/ RecordFailure(l) \/ RecordSuccess(l)
    \/ Tick

\* Time passes; the caller may do what it likes.
ThrottleSpec == ThrottleInit /\ [][ThrottleNext]_throttleVars
ThrottleFairSpec == ThrottleSpec /\ WF_throttleVars(Tick)

-----------------------------------------------------------------------------
Counters == [count : Nat, left : 0..Window]

\* Types; a counter that counts has a window that will close.
ThrottleTypeOK ==
    /\ redis \in Counters /\ (redis.count > 0 => redis.left > 0)
    /\ memory \in [Instances -> Counters]
    /\ \A i \in Instances : memory[i].count > 0 => memory[i].left > 0
    /\ login \in [Logins -> [at : Instances, step : {"idle", "verify", "success", "failure"}]]
    /\ commandFaults \in 0..MaxCommandFaults

\* Logins let in whose outcome is not recorded yet.
UnderWay == {l \in Logins : ~Idle(l)}

\* The failures counted in one window, with those that may still be added, exceed the
\* limit only by logins that overlapped at its edge and by commands that Redis did not
\* answer: the limit is not five, it is four and as many as are checked together.
FailuresBounded == redis.count + Cardinality(UnderWay) <= MaxAttempts - 1 + Parallel + commandFaults

\* Nobody is locked out for ever: whatever is counted is forgotten, by a success or at
\* the end of the window, however the caller keeps trying.
Forgotten == redis.count > 0 ~> redis.count = 0
=============================================================================
