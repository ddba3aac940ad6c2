----------------------------- MODULE Onboarding -----------------------------
(***************************************************************************)
(* From a verified identity to a login: the Auth service's consumer of     *)
(* kyc-events, its outbox and relays, the Order service's activation       *)
(* mailer, and the Auth service's activation tokens and registrations.     *)
(*                                                                         *)
(* Every hop is delivered at least once.  The mailer asks the Auth service *)
(* for a token over HTTP and stops waiting after five seconds, while the   *)
(* request may go on; a mint locks the account and then its tokens, a      *)
(* registration its token and then the account.  Each transaction is one   *)
(* action per statement and commits with its last one, under PostgreSQL's  *)
(* READ COMMITTED: a statement waits for a locked row and then reads it as *)
(* committed.                                                              *)
(*                                                                         *)
(* Every profile has an address, every request the right secret and every  *)
(* announced account a row, so the mailer's poison paths do not occur.     *)
(***************************************************************************)
EXTENDS Integers, Sequences, FiniteSets

CONSTANTS
    Accounts, NoAccount, OthersAccount, \* trading accounts, none, and one outside the model
    Backlog,      \* kyc-events: its messages, oldest first
    Relays,       \* instances of the outbox relay
    Attempts,     \* of the mailer at one record before it is dead-lettered: 4
    Names, Taken, \* usernames, and those other customers registered before
    MaxMints,     \* bound: mint requests the Auth service works on at once
    MaxVisitors,  \* bound: registrations it works on at once
    MaxFaults     \* bound: faults of all kinds

ASSUME OnboardingAssumption ==
    /\ NoAccount \notin Accounts /\ OthersAccount \notin Accounts /\ NoAccount # OthersAccount
    /\ Backlog \in Seq([type : {"KYC_VERIFIED", "other", "unreadable"}, clientId : Accounts])
    /\ IsFiniteSet(Accounts)
    /\ Attempts \in Nat \ {0} /\ Taken \subseteq Names /\ Names # {}
    /\ MaxMints \in Nat /\ MaxVisitors \in Nat /\ MaxFaults \in Nat

Mints == 1..MaxMints
Visitors == 1..MaxVisitors
Tokens == 1..(Cardinality(Accounts) + MaxFaults) \* a second token of an account takes a fault
NoToken == 0
FaultKinds == {"relay", "late", "mailer", "auth", "expiry"}

VARIABLES
    kycOffset,   \* how many messages of kyc-events the consumer is done with
    kycDead,     \* those it sent to kyc-events.DLT, by position
    provisioned, \* provisioned_account: its rows
    outbox,      \* the account each outbox row announces; its position is its eventId
    published,   \* the rows marked published
    relay,       \* what each relay's transaction has locked, and marked so far
    topic,       \* account-provisioning: eventIds in the order they were sent
    offset,      \* how many of them the mailer is done with
    mailer,      \* its work on the next one
    sentFor,     \* activation_email: the eventIds recorded as mailed
    dead,        \* the eventIds in account-provisioning.DLT
    mailed,      \* the tokens mailed, in order
    token,       \* activation_token: its rows
    mint,        \* mint requests in the Auth service
    visit,       \* registrations in the Auth service
    login,       \* credential: the account of each username
    faults       \* how often each kind of fault happened

kycVars == <<kycOffset, kycDead, provisioned, outbox>>
relayVars == <<published, relay>>
mailerVars == <<offset, mailer, sentFor, dead, mailed>>
authVars == <<token, mint, visit, login>>
vars == <<kycVars, relayVars, topic, mailerVars, authVars, faults>>

Unminted == [clientId |-> NoAccount, state |-> "none", expired |-> FALSE]
NoBatch == [locked |-> {}, marked |-> {}]
Resting == [step |-> "idle", token |-> NoToken, failed |-> 0]
NoMint == [step |-> "idle", clientId |-> NoAccount, awaited |-> FALSE, revoking |-> {}]
NoVisit == [step |-> "idle", token |-> NoToken, name |-> CHOOSE n \in Names : TRUE]

Init ==
    /\ kycOffset = 0 /\ kycDead = {} /\ provisioned = {}
    /\ outbox = <<>> /\ published = {} /\ relay = [r \in Relays |-> NoBatch]
    /\ topic = <<>> /\ offset = 0 /\ mailer = Resting /\ sentFor = {} /\ dead = {} /\ mailed = <<>>
    /\ token = [k \in Tokens |-> Unminted]
    /\ mint = [x \in Mints |-> NoMint] /\ visit = [v \in Visitors |-> NoVisit]
    /\ login = [n \in Names |-> IF n \in Taken THEN OthersAccount ELSE NoAccount]
    /\ faults = [f \in FaultKinds |-> 0]

FaultsSoFar ==
    faults["relay"] + faults["late"] + faults["mailer"] + faults["auth"] + faults["expiry"]
Fault(kind) == FaultsSoFar < MaxFaults /\ faults' = [faults EXCEPT ![kind] = @ + 1]

-----------------------------------------------------------------------------
(* The Auth service: provisioning and its outbox. *)

\* interpretKycMessage: what a message asks for.
Interpreted(message) ==
    CASE message.type = "KYC_VERIFIED" -> "provision"
      [] message.type = "other" -> "ignore"
      [] message.type = "unreadable" -> "poison"

\* Broken variant: the INSERT without its unique key.
Unconflicting(a) == TRUE

\* INSERT ... ON CONFLICT DO NOTHING inserts: the customer was not verified before.
Inserts(a) == a \notin provisioned

\* The row and its announcement commit together, before the offset does.
Provision(a) ==
    IF Inserts(a)
    THEN provisioned' = provisioned \cup {a} /\ outbox' = Append(outbox, a)
    ELSE UNCHANGED <<provisioned, outbox>>

\* Broken variant: a message that cannot be read throws, and is read again for ever.
HandleThrowing ==
    LET message == Backlog[kycOffset + 1] IN
    /\ kycOffset < Len(Backlog)
    /\ Interpreted(message) # "poison"
    /\ kycOffset' = kycOffset + 1 /\ UNCHANGED kycDead
    /\ IF Interpreted(message) = "provision" THEN Provision(message.clientId)
       ELSE UNCHANGED <<provisioned, outbox>>
    /\ UNCHANGED <<relayVars, topic, mailerVars, authVars, faults>>

HandleKyc ==
    LET message == Backlog[kycOffset + 1] IN
    /\ kycOffset < Len(Backlog)
    /\ kycOffset' = kycOffset + 1
    /\ \/ /\ Interpreted(message) = "provision"
          /\ Provision(message.clientId) /\ UNCHANGED kycDead
       \/ Interpreted(message) = "ignore" /\ UNCHANGED <<kycDead, provisioned, outbox>>
       \/ /\ Interpreted(message) = "poison"
          /\ kycDead' = kycDead \cup {kycOffset'} /\ UNCHANGED <<provisioned, outbox>>
    /\ UNCHANGED <<relayVars, topic, mailerVars, authVars, faults>>

\* lockBatch: the unpublished rows no other relay holds (SKIP LOCKED).
LockBatch(r) ==
    LET free == (DOMAIN outbox \ published) \ UNION {relay[q].locked : q \in Relays} IN
    /\ relay[r].locked = {} /\ free # {}
    /\ relay' = [relay EXCEPT ![r].locked = free]
    /\ UNCHANGED <<kycVars, published, topic, mailerVars, authVars, faults>>

\* The oldest row of the batch not yet sent.
NextOf(r, e) ==
    LET unsent == relay[r].locked \ relay[r].marked IN
    e \in unsent /\ \A f \in unsent : e <= f

SendNext(r) ==
    /\ \E e \in relay[r].locked :
          /\ NextOf(r, e)
          /\ topic' = Append(topic, e)
          /\ relay' = [relay EXCEPT ![r].marked = @ \cup {e}]
    /\ UNCHANGED <<kycVars, published, mailerVars, authVars, faults>>

EndTick(r) ==
    /\ published' = published \cup relay[r].marked
    /\ relay' = [relay EXCEPT ![r] = NoBatch]

CommitBatch(r) ==
    /\ relay[r].locked # {} /\ relay[r].locked = relay[r].marked
    /\ EndTick(r)
    /\ UNCHANGED <<kycVars, topic, mailerVars, authVars, faults>>

\* The broker does not acknowledge, though it may have the record: recordFailure, and
\* the rest of the batch waits for the next tick.
SendFails(r) ==
    /\ \E e \in relay[r].locked : NextOf(r, e) /\ topic' \in {topic, Append(topic, e)}
    /\ EndTick(r)
    /\ Fault("relay")
    /\ UNCHANGED <<kycVars, mailerVars, authVars>>

\* The relay dies or its database does: what it marked rolls back.
RelayDies(r) ==
    /\ relay[r].locked # {}
    /\ relay' = [relay EXCEPT ![r] = NoBatch]
    /\ Fault("relay")
    /\ UNCHANGED <<kycVars, published, topic, mailerVars, authVars>>

-----------------------------------------------------------------------------
(* The Order service: the activation mailer, one record at a time. *)

Event == topic[offset + 1]

Done == offset' = offset + 1 /\ mailer' = Resting

\* Broken variant: retries that never end.
RetriedForEver ==
    mailer' = [Resting EXCEPT !.failed = mailer.failed + 1] /\ UNCHANGED <<offset, dead>>

\* A transient exception: the record is handled again from the start, or dead-lettered.
Failed ==
    IF mailer.failed + 1 < Attempts
    THEN mailer' = [Resting EXCEPT !.failed = mailer.failed + 1] /\ UNCHANGED <<offset, dead>>
    ELSE Done /\ dead' = dead \cup {Event}

\* Broken variant: the mailer without countSent.
NeverSent(e) == FALSE

AlreadySent(e) == e \in sentFor

\* handle: a recorded event is skipped; otherwise a mint is requested.
TakeEvent ==
    /\ mailer.step = "idle" /\ offset < Len(topic)
    /\ \/ /\ AlreadySent(Event)
          /\ Done /\ UNCHANGED mint
       \/ /\ ~AlreadySent(Event)
          /\ \E x \in Mints :
                /\ mint[x] = NoMint /\ \A y \in Mints : mint[y] = NoMint => x <= y
                /\ mint' = [mint EXCEPT ![x] = [NoMint EXCEPT !.step = "lock", !.awaited = TRUE,
                                                             !.clientId = outbox[Event]]]
          /\ mailer' = [mailer EXCEPT !.step = "minting"]
          /\ UNCHANGED offset
    /\ UNCHANGED <<kycVars, relayVars, topic, sentFor, dead, mailed, token, visit, login, faults>>

\* The mailer stops waiting, having timed out or died; the Auth service does not know.
GiveUpWaiting ==
    /\ mailer.step = "minting"
    /\ mint' = [x \in Mints |-> [mint[x] EXCEPT !.awaited = FALSE]]
    /\ \/ Failed
       \/ mailer' = Resting /\ UNCHANGED <<offset, dead>>
    /\ Fault("late")
    /\ UNCHANGED <<kycVars, relayVars, topic, sentFor, mailed, token, visit, login>>

SendMail ==
    /\ mailer.step = "minted"
    /\ mailed' = Append(mailed, mailer.token)
    /\ mailer' = [mailer EXCEPT !.step = "mailed"]
    /\ UNCHANGED <<kycVars, relayVars, topic, offset, sentFor, dead, authVars, faults>>

RecordSent ==
    /\ mailer.step = "mailed"
    /\ sentFor' = sentFor \cup {Event}
    /\ Done
    /\ UNCHANGED <<kycVars, relayVars, topic, dead, mailed, authVars, faults>>

\* The mail server or the database refuses, or the mailer dies, between its steps.
MailerFails ==
    /\ mailer.step \in {"minted", "mailed"}
    /\ \/ Failed
       \/ mailer' = Resting /\ UNCHANGED <<offset, dead>>
    /\ Fault("mailer")
    /\ UNCHANGED <<kycVars, relayVars, topic, sentFor, mailed, authVars>>

-----------------------------------------------------------------------------
(* The Auth service: minting and registering. *)

\* Tokens of account a that neither a registration nor a newer token has ended.
LiveOf(a) == {k \in Tokens : token[k].clientId = a /\ token[k].state = "live"}

\* The row locks that the transactions under way hold.
MintHolds(x, a) == mint[x].step \in {"revoke", "insert"} /\ mint[x].clientId = a
MintHoldsToken(x, k) == k \in mint[x].revoking
VisitHoldsToken(v, k) == visit[v].step \in {"claim", "insert"} /\ visit[v].token = k
VisitHolds(v, a) == visit[v].step = "insert" /\ token[visit[v].token].clientId = a

\* Broken variant: replaceFor's SELECT without FOR UPDATE.
AccountRead(a) == TRUE

AccountFree(a) == ~(\E x \in Mints : MintHolds(x, a)) /\ ~(\E v \in Visitors : VisitHolds(v, a))

TokenFree(k) ==
    /\ ~\E x \in Mints : MintHoldsToken(x, k)
    /\ ~\E v \in Visitors : VisitHoldsToken(v, k)

Claimed(a) == \E n \in Names : login[n] = a

\* The answer to mint x, for a mailer that still waits: token k, that the account is
\* claimed (nothing is sent), or a failure.
Answer(x, outcome, k) ==
    /\ mint' = [mint EXCEPT ![x] = NoMint]
    /\ CASE ~mint[x].awaited -> UNCHANGED <<mailer, offset, dead>>
         [] mint[x].awaited /\ outcome = "minted" ->
              /\ mailer' = [mailer EXCEPT !.step = "minted", !.token = k]
              /\ UNCHANGED <<offset, dead>>
         [] mint[x].awaited /\ outcome = "claimed" -> Done /\ UNCHANGED dead
         [] mint[x].awaited /\ outcome = "failed" -> Failed

\* SELECT ... FOR UPDATE.
LockAccount(x) ==
    LET a == mint[x].clientId IN
    /\ mint[x].step = "lock" /\ AccountFree(a)
    /\ \/ Claimed(a) /\ Answer(x, "claimed", NoToken)
       \/ /\ ~Claimed(a)
          /\ mint' = [mint EXCEPT ![x].step = "revoke"]
          /\ UNCHANGED <<mailer, offset, dead>>
    /\ UNCHANGED <<kycVars, relayVars, topic, sentFor, mailed, token, visit, login, faults>>

\* UPDATE activation_token: every live token of the account, once all are free.
RevokeEarlier(x) ==
    LET earlier == LiveOf(mint[x].clientId) IN
    /\ mint[x].step = "revoke" /\ \A k \in earlier : TokenFree(k)
    /\ mint' = [mint EXCEPT ![x].step = "insert", ![x].revoking = earlier]
    /\ UNCHANGED <<kycVars, relayVars, topic, mailerVars, token, visit, login, faults>>

\* The new token, and the commit of the revocation with it.
InsertToken(x) ==
    LET a == mint[x].clientId
        k == Cardinality({j \in Tokens : token[j] # Unminted}) + 1
    IN /\ mint[x].step = "insert"
       /\ token' = [j \in Tokens |->
             IF j = k THEN [clientId |-> a, state |-> "live", expired |-> FALSE]
             ELSE IF j \in mint[x].revoking THEN [token[j] EXCEPT !.state = "revoked"] ELSE token[j]]
       /\ Answer(x, "minted", k)
       /\ UNCHANGED <<kycVars, relayVars, topic, sentFor, mailed, visit, login, faults>>

\* A statement of a mint fails, or the process dies: its transaction rolls back.
MintFails(x) ==
    /\ mint[x].step # "idle"
    /\ Answer(x, "failed", NoToken)
    /\ Fault("auth")
    /\ UNCHANGED <<kycVars, relayVars, topic, sentFor, mailed, token, visit, login>>

\* The customer submits the form of a link they were mailed; showing it consumes nothing.
Submit(v, k, n) ==
    /\ visit[v] = NoVisit
    /\ \E i \in DOMAIN mailed : mailed[i] = k
    /\ visit' = [visit EXCEPT ![v] = [step |-> "consume", token |-> k, name |-> n]]
    /\ UNCHANGED <<kycVars, relayVars, topic, mailerVars, token, mint, login, faults>>

Refused(v) == visit' = [visit EXCEPT ![v] = NoVisit]

Usable(k) == token[k].state = "live" /\ ~token[k].expired

\* UPDATE activation_token ... WHERE it is usable.
ConsumeToken(v) ==
    /\ visit[v].step = "consume" /\ TokenFree(visit[v].token)
    /\ \/ Usable(visit[v].token) /\ visit' = [visit EXCEPT ![v].step = "claim"]
       \/ ~Usable(visit[v].token) /\ Refused(v)
    /\ UNCHANGED <<kycVars, relayVars, topic, mailerVars, token, mint, login, faults>>

\* UPDATE provisioned_account ... WHERE claimed_by IS NULL.
ClaimAccount(v) ==
    LET a == token[visit[v].token].clientId IN
    /\ visit[v].step = "claim" /\ AccountFree(a)
    /\ visit' = [visit EXCEPT ![v] = IF Claimed(a) THEN NoVisit ELSE [@ EXCEPT !.step = "insert"]]
    /\ UNCHANGED <<kycVars, relayVars, topic, mailerVars, token, mint, login, faults>>

\* Broken variant: the unique violation commits what came before it.
TokenSpentFor(v) == token' = [token EXCEPT ![visit[v].token].state = "used"]

\* The unique violation rolls the token's use and the claim back: 409, and the form again.
RolledBackFor(v) == UNCHANGED token

\* INSERT INTO credential, and the commit of all three statements.
InsertCredential(v) ==
    LET n == visit[v].name
        k == visit[v].token
    IN /\ visit[v].step = "insert"
       /\ \/ /\ login[n] = NoAccount
             /\ login' = [login EXCEPT ![n] = token[k].clientId]
             /\ token' = [token EXCEPT ![k].state = "used"]
          \/ login[n] # NoAccount /\ RolledBackFor(v) /\ UNCHANGED login
       /\ Refused(v)
       /\ UNCHANGED <<kycVars, relayVars, topic, mailerVars, mint, faults>>

RegistrationFails(v) ==
    /\ visit[v].step # "idle"
    /\ Refused(v)
    /\ Fault("auth")
    /\ UNCHANGED <<kycVars, relayVars, topic, mailerVars, token, mint, login>>

\* Broken variant: nobody ends a deadlock.
NeverDeadlocked(x, v) == FALSE

\* Mint x holds the account that registration v waits for, and waits for v's token.
Deadlocked(x, v) ==
    LET k == visit[v].token IN
    /\ mint[x].step = "revoke" /\ visit[v].step = "claim"
    /\ token[k].clientId = mint[x].clientId /\ token[k].state = "live"

\* PostgreSQL ends it at the expense of either: deadlock_detected, a 500 for the caller.
BreakDeadlock ==
    /\ \E x \in Mints, v \in Visitors :
          /\ Deadlocked(x, v)
          /\ \/ Answer(x, "failed", NoToken) /\ UNCHANGED visit
             \/ Refused(v) /\ UNCHANGED <<mint, mailer, offset, dead>>
    /\ UNCHANGED <<kycVars, relayVars, topic, sentFor, mailed, token, login, faults>>

\* Twenty-four hours pass.
TokenExpires(k) ==
    /\ token[k].state = "live" /\ ~token[k].expired
    /\ token' = [token EXCEPT ![k].expired = TRUE]
    /\ Fault("expiry")
    /\ UNCHANGED <<kycVars, relayVars, topic, mailerVars, mint, visit, login>>

-----------------------------------------------------------------------------
Relaying(r) == LockBatch(r) \/ SendNext(r) \/ CommitBatch(r)
Mailing == TakeEvent \/ SendMail \/ RecordSent
Minting(x) == LockAccount(x) \/ RevokeEarlier(x) \/ InsertToken(x)
Registering(v) == ConsumeToken(v) \/ ClaimAccount(v) \/ InsertCredential(v)

Next ==
    \/ HandleKyc \/ Mailing \/ GiveUpWaiting \/ MailerFails \/ BreakDeadlock
    \/ \E r \in Relays : Relaying(r) \/ SendFails(r) \/ RelayDies(r)
    \/ \E x \in Mints : Minting(x) \/ MintFails(x)
    \/ \E v \in Visitors : \/ Registering(v) \/ RegistrationFails(v)
                           \/ \E k \in Tokens, n \in Names : Submit(v, k, n)
    \/ \E k \in Tokens : TokenExpires(k)

\* Consumers poll, relays tick, the database ends deadlocks and grants a lock in the
\* order it was asked for, so nobody waits for ever; no customer has to register.
Fairness ==
    /\ WF_vars(HandleKyc) /\ WF_vars(Mailing) /\ WF_vars(BreakDeadlock)
    /\ \A r \in Relays : WF_vars(Relaying(r))
    /\ \A x \in Mints : SF_vars(Minting(x))
    /\ \A v \in Visitors : SF_vars(Registering(v))

Spec == Init /\ [][Next]_vars
FairSpec == Spec /\ Fairness

-----------------------------------------------------------------------------
TokenRows == [clientId : Accounts \cup {NoAccount}, state : {"none", "live", "used", "revoked"},
              expired : BOOLEAN]
MintRequests == [step : {"idle", "lock", "revoke", "insert"}, clientId : Accounts \cup {NoAccount},
                 awaited : BOOLEAN, revoking : SUBSET Tokens]
Registrations == [step : {"idle", "consume", "claim", "insert"}, token : Tokens \cup {NoToken},
                  name : Names]
MailerStates == [step : {"idle", "minting", "minted", "mailed"}, token : Tokens \cup {NoToken},
                 failed : 0..(Attempts - 1)]

\* Types; and offsets stay within their topics.
TypeOK ==
    /\ kycOffset \in 0..Len(Backlog) /\ kycDead \subseteq DOMAIN Backlog
    /\ provisioned \subseteq Accounts /\ outbox \in Seq(Accounts)
    /\ published \subseteq DOMAIN outbox
    /\ relay \in [Relays -> [locked : SUBSET DOMAIN outbox, marked : SUBSET DOMAIN outbox]]
    /\ topic \in Seq(DOMAIN outbox) /\ offset \in 0..Len(topic)
    /\ mailer \in MailerStates /\ sentFor \subseteq DOMAIN outbox /\ dead \subseteq DOMAIN outbox
    /\ mailed \in Seq(Tokens) /\ token \in [Tokens -> TokenRows]
    /\ mint \in [Mints -> MintRequests] /\ visit \in [Visitors -> Registrations]
    /\ login \in [Names -> Accounts \cup {NoAccount, OthersAccount}]
    /\ faults \in [FaultKinds -> 0..MaxFaults]

\* At most one link is live per client, however many mints and registrations overlap.
OneLiveLink == \A a \in Accounts : \A j, k \in LiveOf(a) : j = k

\* An account has one login at most, and one exactly when one of its tokens was used:
\* no token is consumed without a credential, and no credential comes without a token.
UsedTokenIsLogin ==
    \A a \in Accounts :
        /\ \A m, n \in Names : login[m] = a /\ login[n] = a => m = n
        /\ Claimed(a) <=> \E k \in Tokens : token[k].clientId = a /\ token[k].state = "used"

\* The mails that went to account a.
MailsTo(a) == {i \in DOMAIN mailed : token[mailed[i]].clientId = a}

\* One account, one activation email: redelivered verifications, records sent twice by a
\* relay, late mints and deadlocks bring no second one; only a failure of the mailer
\* between the mail and its record does.
OneMail ==
    \A a \in Accounts : Cardinality(MailsTo(a)) <= 1 + faults["mailer"]

\* When a mail is recorded as sent, the link of the customer's latest mail works or has
\* done its work - unless the mailer once stopped waiting for a mint, which may revoke
\* that link afterwards, for a token nobody will ever hold.
LatestLinkLives ==
    \A e \in sentFor : LET a == outbox[e] IN
        /\ MailsTo(a) # {}
        /\ faults["late"] = 0 =>
             \E i \in MailsTo(a) : /\ \A j \in MailsTo(a) : j <= i
                                   /\ token[mailed[i]].state = "live" \/ Claimed(a)

\* Every verified customer is mailed, has a login, or is in the dead-letter topic for an
\* operator to see: whatever precedes the verification, whoever dies or answers late.
VerifiedIsMailed ==
    \A i \in DOMAIN Backlog :
        Backlog[i].type = "KYC_VERIFIED" =>
            <>(\/ Claimed(Backlog[i].clientId)
               \/ \E e \in sentFor \cup dead : outbox[e] = Backlog[i].clientId)

\* A registration is answered, though its locks are taken in the order opposite to a
\* mint's.
RegistrationAnswered == \A v \in Visitors : visit[v].step = "consume" ~> visit[v].step = "idle"
=============================================================================
