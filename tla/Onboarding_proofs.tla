-------------------------- MODULE Onboarding_proofs --------------------------
(***************************************************************************)
(* One live link, one login and one mail per customer, and the latest link *)
(* works, for any backlog, customers, relays, mints and registrations at   *)
(* once, and any number of faults.                                         *)
(*                                                                         *)
(* Two arguments carry it.  Whoever is about to insert a token holds the   *)
(* account and every live token of it; whoever is about to use one holds   *)
(* that token.  And the mailer tends one event after the other: each token *)
(* and each mail is paid for by an event, by a mint nobody waits for any   *)
(* more or by a failure of the mailer.                                     *)
(***************************************************************************)
EXTENDS Onboarding, FiniteSetTheorems, SequenceTheorems, TLAPS

\* A customer is announced once.
AnnouncedOnce ==
    /\ \A e \in DOMAIN outbox : outbox[e] \in provisioned
    /\ \A e, f \in DOMAIN outbox : outbox[e] = outbox[f] => e = f

-----------------------------------------------------------------------------
(* Tokens and the transactions that hold them *)

\* Tokens are minted in order, each for an account.
TokensInOrder ==
    /\ \E m \in 0..(Cardinality(Accounts) + MaxFaults) : \A k \in Tokens : token[k].state # "none" <=> k <= m
    /\ \A k \in Tokens : IF token[k].state = "none" THEN token[k] = Unminted ELSE token[k].clientId \in Accounts
    /\ \A i \in DOMAIN mailed : token[mailed[i]].state # "none"

\* A mint that holds its account is alone with it, and what it is about to revoke is
\* every live token there is.
MintsHold ==
    /\ \A x \in Mints :
          /\ mint[x].step = "idle" => mint[x] = NoMint
          /\ mint[x].step # "idle" => mint[x].clientId \in Accounts
          /\ mint[x].revoking = IF mint[x].step = "insert" THEN LiveOf(mint[x].clientId) ELSE {}
    /\ \A x, y \in Mints, a \in Accounts : MintHolds(x, a) /\ MintHolds(y, a) => x = y

\* A registration's link was mailed; past its first statement the token is live and the
\* registration's alone, and past the second the account has no login.
VisitsHold ==
    /\ \A v \in Visitors :
          /\ visit[v].step # "idle" => visit[v].token \in Tokens /\ token[visit[v].token].state # "none"
          /\ visit[v].step \in {"claim", "insert"} => token[visit[v].token].state = "live"
          /\ visit[v].step = "insert" => ~Claimed(token[visit[v].token].clientId)
    /\ \A v, w \in Visitors, k \in Tokens : VisitHoldsToken(v, k) /\ VisitHoldsToken(w, k) => v = w
    /\ \A v \in Visitors, x \in Mints, k \in Tokens : ~(VisitHoldsToken(v, k) /\ MintHoldsToken(x, k))

LocksHold == TokensInOrder /\ MintsHold /\ VisitsHold /\ OneLiveLink /\ UsedTokenIsLogin

-----------------------------------------------------------------------------
(* The mailer and its mints *)

\* The mailer tends an event that is not recorded as mailed; it waits for one mint at
\* most, for that event's account; what it has been given is a token of that account,
\* and what it has mailed is the latest mail.
MailerTends ==
    /\ mailer.step # "idle" => offset < Len(topic) /\ Event \notin sentFor
    /\ \A x \in Mints : mint[x].awaited =>
          mailer.step = "minting" /\ mint[x].step # "idle" /\ mint[x].clientId = outbox[Event]
    /\ \A x, y \in Mints : mint[x].awaited /\ mint[y].awaited => x = y
    /\ mailer.step \in {"minted", "mailed"} =>
          mailer.token \in Tokens /\ token[mailer.token].clientId = outbox[Event]
    /\ mailer.step = "mailed" => mailed # <<>> /\ mailed[Len(mailed)] = mailer.token

\* As long as the mailer has waited for every mint, none is left to revoke what it mailed.
NoneLate ==
    faults["late"] = 0 =>
        /\ \A x \in Mints : mint[x].step # "idle" => mint[x].awaited
        /\ mailer.step \in {"minted", "mailed"} =>
              token[mailer.token].state = "live" \/ Claimed(outbox[Event])

\* Whether a mail to account a is one the mailer need not send again.
Delivered(a) ==
    \/ \E e \in sentFor : outbox[e] = a
    \/ mailer.step = "mailed" /\ outbox[Event] = a

MailsPaidFor ==
    \A a \in Accounts : Cardinality(MailsTo(a)) <= faults["mailer"] + (IF Delivered(a) THEN 1 ELSE 0)

Minted == {k \in Tokens : token[k] # Unminted}
Underway == {x \in Mints : mint[x].step # "idle"}
Tended == sentFor \cup (IF mailer.step = "idle" THEN {} ELSE {Event})

TokensPaidFor ==
    /\ FaultsSoFar <= MaxFaults
    /\ Cardinality(Minted) + Cardinality(Underway) <= Cardinality(Tended) + faults["late"] + faults["mailer"]

MailsHold == MailerTends /\ NoneLate /\ MailsPaidFor /\ LatestLinkLives

Inv == TypeOK /\ AnnouncedOnce /\ LocksHold /\ TokensPaidFor /\ MailsHold
-----------------------------------------------------------------------------
(* Types *)

KycTypes ==
    /\ kycOffset \in 0..Len(Backlog) /\ kycDead \subseteq DOMAIN Backlog
    /\ provisioned \subseteq Accounts /\ outbox \in Seq(Accounts)
Batches(rows) == [locked : SUBSET rows, marked : SUBSET rows]
RelayTypes ==
    /\ published \subseteq DOMAIN outbox /\ relay \in [Relays -> Batches(DOMAIN outbox)]
    /\ topic \in Seq(DOMAIN outbox)
MailerTypes ==
    /\ offset \in 0..Len(topic) /\ mailer \in MailerStates
    /\ sentFor \subseteq DOMAIN outbox /\ dead \subseteq DOMAIN outbox /\ mailed \in Seq(Tokens)
AuthTypes ==
    /\ token \in [Tokens -> TokenRows] /\ mint \in [Mints -> MintRequests]
    /\ visit \in [Visitors -> Registrations]
    /\ login \in [Names -> Accounts \cup {NoAccount, OthersAccount}]
FaultTypes == faults \in [FaultKinds -> 0..MaxFaults]

LEMMA TypeParts ==
    /\ TypeOK <=> KycTypes /\ RelayTypes /\ MailerTypes /\ AuthTypes /\ FaultTypes
    /\ TypeOK' <=> KycTypes' /\ RelayTypes' /\ MailerTypes' /\ AuthTypes' /\ FaultTypes'
BY DEF TypeOK, KycTypes, RelayTypes, Batches, MailerTypes, AuthTypes, FaultTypes

LEMMA Sizes ==
    /\ Cardinality(Accounts) \in Nat /\ Tokens \subseteq Nat /\ NoToken \notin Tokens
    /\ Len(Backlog) \in Nat /\ DOMAIN Backlog = 1..Len(Backlog)
    /\ NoVisit \in Registrations /\ NoMint \in MintRequests /\ Resting \in MailerStates
    /\ NoAccount \notin Accounts /\ Unminted \in TokenRows
<1>1. Cardinality(Accounts) \in Nat
    BY OnboardingAssumption, FS_CardinalityType
<1>2. Tokens \subseteq Nat /\ NoToken \notin Tokens
    BY <1>1, OnboardingAssumption DEF Tokens, NoToken
<1>3. Len(Backlog) \in Nat /\ DOMAIN Backlog = 1..Len(Backlog)
    BY OnboardingAssumption, LenProperties
<1>4. NoVisit \in Registrations
    BY OnboardingAssumption DEF NoVisit, Registrations
<1>5. NoMint \in MintRequests /\ Unminted \in TokenRows
    BY DEF NoMint, MintRequests, Unminted, TokenRows
<1>6. Resting \in MailerStates
    BY OnboardingAssumption DEF Resting, MailerStates
<1> QED BY <1>1, <1>2, <1>3, <1>4, <1>5, <1>6, OnboardingAssumption

\* A queue that is given one thing more.
LEMMA Appended ==
    ASSUME NEW S, NEW s \in Seq(S), NEW x \in S
    PROVE  /\ Append(s, x) \in Seq(S) /\ Len(Append(s, x)) = Len(s) + 1 /\ Len(s) \in Nat
           /\ DOMAIN s = 1..Len(s) /\ DOMAIN Append(s, x) = 1..(Len(s) + 1)
           /\ \A i \in DOMAIN s : Append(s, x)[i] = s[i]
           /\ Append(s, x)[Len(s) + 1] = x
<1>1. Append(s, x) \in Seq(S) /\ Len(Append(s, x)) = Len(s) + 1 /\ Len(s) \in Nat /\ DOMAIN s = 1..Len(s)
    BY LenProperties, AppendProperties
<1>2. DOMAIN Append(s, x) = 1..(Len(s) + 1)
    BY <1>1, LenProperties
<1> QED BY <1>1, <1>2, AppendProperties

\* A fault counted.
LEMMA FaultCounted ==
    ASSUME FaultTypes, NEW kind \in FaultKinds, Fault(kind)
    PROVE  /\ FaultTypes' /\ FaultsSoFar' <= MaxFaults
           /\ faults'[kind] = faults[kind] + 1
           /\ \A f \in FaultKinds \ {kind} : faults'[f] = faults[f]
<1>1. \A f \in FaultKinds : faults[f] \in Nat
    BY OnboardingAssumption DEF FaultTypes
<1>2. FaultsSoFar < MaxFaults /\ faults' = [faults EXCEPT ![kind] = faults[kind] + 1]
    BY DEF Fault
<1>3. faults'[kind] = faults[kind] + 1 /\ \A f \in FaultKinds \ {kind} : faults'[f] = faults[f]
    BY <1>2 DEF FaultTypes
<1>4. FaultsSoFar' = FaultsSoFar + 1
    <2>1. /\ faults["relay"] \in Nat /\ faults["late"] \in Nat /\ faults["mailer"] \in Nat
          /\ faults["auth"] \in Nat /\ faults["expiry"] \in Nat
        BY <1>1 DEF FaultKinds
    <2> QED BY <1>3, <2>1 DEF FaultsSoFar, FaultKinds
<1>5. faults[kind] <= FaultsSoFar /\ FaultsSoFar \in Nat
    BY <1>1 DEF FaultsSoFar, FaultKinds
<1>6. faults[kind] + 1 \in 0..MaxFaults
    BY <1>1, <1>2, <1>5, OnboardingAssumption
<1>7. FaultTypes'
    BY <1>2, <1>6 DEF FaultTypes
<1> QED BY <1>2, <1>3, <1>4, <1>5, <1>7, OnboardingAssumption

\* The outbox and the topic only grow; the record the mailer has in its hands stays.
Grow ==
    /\ outbox' \in Seq(Accounts) /\ topic' \in Seq(DOMAIN outbox')
    /\ DOMAIN outbox \subseteq DOMAIN outbox' /\ (\A e \in DOMAIN outbox : outbox'[e] = outbox[e])
    /\ Len(topic) <= Len(topic') /\ (\A i \in DOMAIN topic : topic'[i] = topic[i])

LEMMA EventThere ==
    ASSUME KycTypes, RelayTypes, MailerTypes, offset < Len(topic)
    PROVE  /\ offset + 1 \in DOMAIN topic /\ offset + 1 \in 0..Len(topic)
           /\ Event \in DOMAIN outbox /\ outbox[Event] \in Accounts
           /\ Len(topic) \in Nat /\ offset \in Nat
<1>1. Len(topic) \in Nat /\ DOMAIN topic = 1..Len(topic) /\ topic \in [1..Len(topic) -> DOMAIN outbox]
    BY LenProperties DEF RelayTypes
<1>2. offset \in Nat /\ offset + 1 \in 1..Len(topic) /\ offset + 1 \in 0..Len(topic)
    BY <1>1 DEF MailerTypes
<1>3. Event \in DOMAIN outbox
    BY <1>1, <1>2 DEF Event
<1>4. outbox \in [DOMAIN outbox -> Accounts]
    BY LenProperties DEF KycTypes
<1> QED BY <1>1, <1>2, <1>3, <1>4

\* A token of an account has been minted.
LEMMA OwnedIsMinted ==
    ASSUME TokensInOrder, NEW k \in Tokens, token[k].clientId \in Accounts
    PROVE  token[k].state # "none"
<1>1. Unminted.clientId \notin Accounts
    BY Sizes DEF Unminted
<1>2. token[k].state = "none" => token[k] = Unminted
    BY DEF TokensInOrder
<1> QED BY <1>1, <1>2

LEMMA NothingGrows ==
    ASSUME KycTypes, RelayTypes, UNCHANGED <<outbox, topic>>
    PROVE  Grow
<1>1. Len(topic) \in Nat
    BY LenProperties DEF RelayTypes
<1> QED BY <1>1 DEF Grow, KycTypes, RelayTypes

LEMMA EventStays ==
    ASSUME KycTypes, RelayTypes, MailerTypes, Grow, offset' = offset, offset < Len(topic)
    PROVE  /\ Event' = Event /\ Event \in DOMAIN outbox /\ outbox'[Event] = outbox[Event]
           /\ offset' < Len(topic')
<1>1. Len(topic') \in Nat
    BY LenProperties DEF Grow
<1> QED BY <1>1, EventThere DEF Grow, Event

-----------------------------------------------------------------------------
(* What a step that leaves a part alone leaves true *)

\* The token table, the registrations and the logins stay, a mint is at most given up by
\* its mailer, and only tokens that exist are mailed.
LEMMA LocksFrame ==
    ASSUME LocksHold, UNCHANGED <<token, visit, login>>,
           \A x \in Mints : /\ mint'[x].step = mint[x].step /\ mint'[x].clientId = mint[x].clientId
                            /\ mint'[x].revoking = mint[x].revoking
                            /\ mint[x] = NoMint => mint'[x] = NoMint,
           \A i \in DOMAIN mailed' : token[mailed'[i]].state # "none"
    PROVE  LocksHold'
<1>1. TokensInOrder'
    BY DEF LocksHold, TokensInOrder
<1>2. \A a \in Accounts : LiveOf(a)' = LiveOf(a) /\ Claimed(a)' = Claimed(a)
    BY DEF LiveOf, Claimed
<1>3. \A x \in Mints : LiveOf(mint[x].clientId)' = LiveOf(mint[x].clientId)
    BY DEF LiveOf
<1>4. MintsHold'
    <2>1. ASSUME NEW x \in Mints
          PROVE  /\ mint'[x].step = "idle" => mint'[x] = NoMint
                 /\ mint'[x].step # "idle" => mint'[x].clientId \in Accounts
                 /\ mint'[x].revoking = IF mint'[x].step = "insert" THEN LiveOf(mint[x].clientId)' ELSE {}
        BY <1>3 DEF LocksHold, MintsHold
    <2>2. ASSUME NEW x \in Mints, NEW y \in Mints, NEW a \in Accounts, MintHolds(x, a)', MintHolds(y, a)'
          PROVE  x = y
        BY <2>2 DEF LocksHold, MintsHold, MintHolds
    <2> QED BY <2>1, <2>2 DEF MintsHold
<1>5. VisitsHold'
    BY DEF LocksHold, VisitsHold, VisitHoldsToken, MintHoldsToken, Claimed
<1>6. OneLiveLink' /\ UsedTokenIsLogin'
    BY <1>2 DEF LocksHold, OneLiveLink, UsedTokenIsLogin, Claimed
<1> QED BY <1>1, <1>4, <1>5, <1>6 DEF LocksHold

\* What has been mailed to an account depends on whose the tokens are.
LEMMA SameMails ==
    ASSUME mailed' = mailed, \A i \in DOMAIN mailed : token'[mailed[i]].clientId = token[mailed[i]].clientId
    PROVE  \A a \in Accounts : MailsTo(a)' = MailsTo(a)
BY DEF MailsTo

\* The mailer stays where it is: what else happens revokes no link that it mailed, as long
\* as it never stopped waiting, and takes no login away.
LEMMA MailsStay ==
    ASSUME Inv, Grow, UNCHANGED <<offset, mailer, sentFor, mailed>>,
           faults'["late"] = faults["late"], faults'["mailer"] = faults["mailer"],
           \A x \in Mints : \/ mint'[x] = NoMint
                            \/ /\ mint'[x].awaited = mint[x].awaited /\ mint'[x].clientId = mint[x].clientId
                               /\ mint[x].step # "idle" /\ mint'[x].step # "idle",
           \A k \in Tokens : token[k].state # "none" => token'[k].clientId = token[k].clientId,
           faults["late"] = 0 =>
              \A k \in Tokens : token[k].state = "live" =>
                                token'[k].state = "live" \/ \E n \in Names : login'[n] = token[k].clientId,
           \A a \in Accounts : Claimed(a) => Claimed(a)'
    PROVE  MailsHold'
<1>1. KycTypes /\ RelayTypes /\ MailerTypes
    BY TypeParts DEF Inv
<1>2. mailer.step # "idle" => /\ offset < Len(topic) /\ Event' = Event /\ Event \in DOMAIN outbox
                              /\ outbox'[Event] = outbox[Event] /\ outbox[Event] \in Accounts
                              /\ offset' < Len(topic')
    BY <1>1, EventStays, EventThere DEF Inv, MailsHold, MailerTends
<1>3. NoMint.awaited = FALSE /\ NoMint.step = "idle"
    BY DEF NoMint
<1>4. \A i \in DOMAIN mailed : mailed[i] \in Tokens /\ token[mailed[i]].state # "none"
    <2>1. \A i \in DOMAIN mailed : mailed[i] \in Tokens
        BY <1>1, LenProperties DEF MailerTypes
    <2> QED BY <2>1 DEF Inv, LocksHold, TokensInOrder
<1>5. \A a \in Accounts : MailsTo(a)' = MailsTo(a)
    BY <1>4, SameMails
<1>6. mailer.step \in {"minted", "mailed"} =>
          /\ mailer.token \in Tokens /\ token[mailer.token].state # "none"
          /\ token[mailer.token].clientId = outbox[Event] /\ outbox[Event] \in Accounts
    <2>1. mailer.step \in {"minted", "mailed"} =>
             mailer.token \in Tokens /\ token[mailer.token].clientId = outbox[Event]
        BY DEF Inv, MailsHold, MailerTends
    <2>2. Unminted.clientId \notin Accounts
        BY Sizes DEF Unminted
    <2> QED BY <1>2, <2>1, <2>2 DEF Inv, LocksHold, TokensInOrder
<1>7. MailerTends'
    BY <1>2, <1>3, <1>6 DEF Inv, MailsHold, MailerTends
<1>8. NoneLate'
    BY <1>2, <1>3, <1>6 DEF Inv, MailsHold, NoneLate, Claimed
<1>9. \A e \in sentFor : e \in DOMAIN outbox /\ outbox'[e] = outbox[e] /\ outbox[e] \in Accounts
    <2>1. \A e \in DOMAIN outbox : outbox[e] \in Accounts
        BY <1>1, LenProperties DEF KycTypes
    <2> QED BY <1>1, <2>1 DEF MailerTypes, Grow
<1>10. MailsPaidFor'
    <2>1. \A a \in Accounts : Delivered(a)' <=> Delivered(a)
        BY <1>2, <1>9 DEF Delivered
    <2> QED BY <1>5, <2>1 DEF Inv, MailsHold, MailsPaidFor
<1>11. LatestLinkLives'
    <2> SUFFICES ASSUME NEW e \in sentFor
                 PROVE  /\ MailsTo(outbox[e])' # {}
                        /\ faults["late"] = 0 =>
                             \E i \in MailsTo(outbox[e])' :
                                /\ \A j \in MailsTo(outbox[e])' : j <= i
                                /\ token'[mailed[i]].state = "live" \/ Claimed(outbox[e])'
        BY <1>9 DEF LatestLinkLives, MailsTo, Claimed
    <2>1. MailsTo(outbox[e])' = MailsTo(outbox[e]) /\ outbox[e] \in Accounts
        BY <1>5, <1>9 DEF MailsTo
    <2>2. MailsTo(outbox[e]) # {}
        BY DEF Inv, MailsHold, LatestLinkLives
    <2>3. ASSUME faults["late"] = 0
          PROVE  \E i \in MailsTo(outbox[e]) :
                    /\ \A j \in MailsTo(outbox[e]) : j <= i
                    /\ token'[mailed[i]].state = "live" \/ Claimed(outbox[e])'
        <3>1. PICK i \in MailsTo(outbox[e]) :
                    /\ \A j \in MailsTo(outbox[e]) : j <= i
                    /\ token[mailed[i]].state = "live" \/ Claimed(outbox[e])
            BY <2>3 DEF Inv, MailsHold, LatestLinkLives
        <3>2. i \in DOMAIN mailed /\ token[mailed[i]].clientId = outbox[e]
            BY <3>1 DEF MailsTo
        <3>3. token'[mailed[i]].state = "live" \/ Claimed(outbox[e])'
            BY <1>4, <1>9, <2>1, <2>3, <3>1, <3>2 DEF Claimed
        <3> QED BY <3>1, <3>3
    <2> QED BY <2>1, <2>2, <2>3
<1> QED BY <1>7, <1>8, <1>10, <1>11 DEF MailsHold

-----------------------------------------------------------------------------
(* Who pays for a token *)

LEMMA Counts ==
    ASSUME TypeOK, AnnouncedOnce
    PROVE  /\ IsFiniteSet(Minted) /\ Cardinality(Minted) \in Nat
           /\ IsFiniteSet(Underway) /\ Cardinality(Underway) \in Nat
           /\ IsFiniteSet(sentFor) /\ Cardinality(sentFor) \in Nat
           /\ \A T \in SUBSET DOMAIN outbox :
                 IsFiniteSet(T) /\ Cardinality(T) \in Nat /\ Cardinality(T) <= Cardinality(Accounts)
           /\ faults["late"] \in Nat /\ faults["mailer"] \in Nat
           /\ faults["late"] + faults["mailer"] <= FaultsSoFar
<1>1. IsFiniteSet(Minted) /\ Cardinality(Minted) \in Nat
    <2>1. IsFiniteSet(Tokens)
        BY Sizes, OnboardingAssumption, FS_Interval DEF Tokens
    <2>2. Minted \in SUBSET Tokens
        BY DEF Minted
    <2> QED BY <2>1, <2>2, FS_Subset, FS_CardinalityType
<1>2. IsFiniteSet(Underway) /\ Cardinality(Underway) \in Nat
    <2>1. IsFiniteSet(Mints)
        BY OnboardingAssumption, FS_Interval DEF Mints
    <2>2. Underway \in SUBSET Mints
        BY DEF Underway
    <2> QED BY <2>1, <2>2, FS_Subset, FS_CardinalityType
<1>3. outbox \in Injection(DOMAIN outbox, Accounts)
    <2>1. outbox \in [DOMAIN outbox -> Accounts]
        BY TypeParts, LenProperties DEF KycTypes
    <2> QED BY <2>1 DEF Injection, IsInjective, AnnouncedOnce
<1>4. IsFiniteSet(DOMAIN outbox) /\ Cardinality(DOMAIN outbox) <= Cardinality(Accounts)
    BY <1>3, OnboardingAssumption, FS_Injection
<1>5. ASSUME NEW T \in SUBSET DOMAIN outbox
      PROVE  IsFiniteSet(T) /\ Cardinality(T) \in Nat /\ Cardinality(T) <= Cardinality(Accounts)
    <2>1. IsFiniteSet(T) /\ Cardinality(T) <= Cardinality(DOMAIN outbox)
        BY <1>4, FS_Subset
    <2>2. Cardinality(T) \in Nat /\ Cardinality(DOMAIN outbox) \in Nat
        BY <1>4, <2>1, FS_CardinalityType
    <2> QED BY <1>4, <2>1, <2>2, Sizes
<1>6. sentFor \in SUBSET DOMAIN outbox
    BY TypeParts DEF MailerTypes
<1>7. \A f \in FaultKinds : faults[f] \in Nat
    BY TypeParts, OnboardingAssumption DEF FaultTypes
<1>8. /\ faults["late"] \in Nat /\ faults["mailer"] \in Nat
      /\ faults["late"] + faults["mailer"] <= FaultsSoFar
    BY <1>7 DEF FaultKinds, FaultsSoFar
<1> QED BY <1>1, <1>2, <1>5, <1>6, <1>8

\* No token is minted, no mint is started, and the mailer keeps what it has in hand.
LEMMA PaidFrame ==
    ASSUME Inv, Minted' = Minted, Underway' \subseteq Underway, Tended' = Tended,
           faults'["late"] = faults["late"], faults'["mailer"] = faults["mailer"],
           FaultsSoFar' <= MaxFaults
    PROVE  TokensPaidFor'
<1>1. Cardinality(Underway') <= Cardinality(Underway) /\ Cardinality(Underway') \in Nat
    <2>1. IsFiniteSet(Underway) /\ Underway' \in SUBSET Underway
        BY Counts DEF Inv
    <2> QED BY <2>1, FS_Subset, FS_CardinalityType
<1>2. /\ Cardinality(Minted) \in Nat /\ Cardinality(Underway) \in Nat /\ Cardinality(Tended) \in Nat
      /\ faults["late"] \in Nat /\ faults["mailer"] \in Nat
    <2>1. Tended \in SUBSET DOMAIN outbox
        BY EventThere, TypeParts DEF Inv, Tended, MailsHold, MailerTends, MailerTypes
    <2> QED BY <2>1, Counts DEF Inv
<1> QED BY <1>1, <1>2 DEF Inv, TokensPaidFor

\* The mailer lets go of what it had in hand: a mint that ended without a token, or a
\* fault, makes up for it.
LEMMA PaidByRest ==
    ASSUME Inv, Minted' = Minted, sentFor' = sentFor, mailer'.step = "idle", FaultsSoFar' <= MaxFaults,
           faults'["late"] \in Nat, faults'["mailer"] \in Nat,
           \/ /\ \E x \in Underway : Underway' = Underway \ {x}
              /\ faults'["late"] + faults'["mailer"] = faults["late"] + faults["mailer"]
           \/ /\ Underway' = Underway
              /\ faults'["late"] + faults'["mailer"] = faults["late"] + faults["mailer"] + 1
    PROVE  TokensPaidFor'
<1> DEFINE M == Cardinality(Minted)
           U == Cardinality(Underway)
           U2 == Cardinality(Underway')
           S == Cardinality(sentFor)
           T == Cardinality(Tended)
           F == faults["late"] + faults["mailer"]
           F2 == faults'["late"] + faults'["mailer"]
<1>1. M \in Nat /\ U \in Nat /\ S \in Nat /\ F \in Nat
    BY Counts DEF Inv
<1>2. \/ U2 = U - 1 /\ F2 = F
      \/ U2 = U /\ F2 = F + 1
    <2>1. \A x \in Underway : Cardinality(Underway \ {x}) = U - 1
        BY Counts, FS_RemoveElement DEF Inv
    <2> QED BY <2>1
<1>3. T <= S + 1 /\ T \in Nat
    <2>1. IsFiniteSet(sentFor)
        BY Counts DEF Inv
    <2>2. CASE mailer.step = "idle"
        BY <1>1, <2>2 DEF Tended
    <2>3. CASE mailer.step # "idle"
        <3>1. Tended = sentFor \cup {Event}
            BY <2>3 DEF Tended
        <3>2. T = IF Event \in sentFor THEN S ELSE S + 1
            BY <2>1, <3>1, FS_AddElement
        <3> QED BY <1>1, <3>2
    <2> QED BY <2>2, <2>3
<1>4. Tended' = sentFor
    BY DEF Tended
<1>5. M + U <= T + faults["late"] + faults["mailer"]
    BY DEF Inv, TokensPaidFor
<1>6. faults["late"] \in Nat /\ faults["mailer"] \in Nat
    BY Counts DEF Inv
<1>7. M + U2 <= S + faults'["late"] + faults'["mailer"]
    BY <1>1, <1>2, <1>3, <1>5, <1>6
<1> QED BY <1>4, <1>7 DEF TokensPaidFor

-----------------------------------------------------------------------------
(* The event in hand is let go *)

\* Nothing waits any more, and nothing is recorded.  If a mail was sent, a failure of the
\* mailer is counted for it.
LEMMA MailsRest ==
    ASSUME Inv, mailer'.step = "idle", UNCHANGED <<outbox, sentFor, mailed, token, login>>,
           \A x \in Mints : ~mint'[x].awaited,
           faults'["late"] = 0 => faults["late"] = 0 /\ \A x \in Mints : mint'[x].step = "idle",
           faults["mailer"] \in Nat, faults'["mailer"] \in Nat,
           faults["mailer"] <= faults'["mailer"],
           mailer.step = "mailed" => faults'["mailer"] = faults["mailer"] + 1
    PROVE  MailsHold'
<1>1. MailerTends' /\ NoneLate'
    BY DEF MailerTends, NoneLate
<1>2. \A a \in Accounts : MailsTo(a)' = MailsTo(a) /\ Claimed(a)' = Claimed(a)
    BY DEF MailsTo, Claimed
<1>3. MailsPaidFor'
    <2> SUFFICES ASSUME NEW a \in Accounts
                 PROVE  Cardinality(MailsTo(a)) <= faults'["mailer"] + (IF Delivered(a)' THEN 1 ELSE 0)
        BY <1>2 DEF MailsPaidFor
    <2>1. Cardinality(MailsTo(a)) <= faults["mailer"] + (IF Delivered(a) THEN 1 ELSE 0)
        BY DEF Inv, MailsHold, MailsPaidFor
    <2>2. Cardinality(MailsTo(a)) \in Nat
        <3>1. IsFiniteSet(DOMAIN mailed) /\ MailsTo(a) \in SUBSET DOMAIN mailed
            <4>1. DOMAIN mailed = 1..Len(mailed) /\ Len(mailed) \in Nat
                BY TypeParts, LenProperties DEF Inv, MailerTypes
            <4> QED BY <4>1, FS_Interval DEF MailsTo
        <3> QED BY <3>1, FS_Subset, FS_CardinalityType
    <2>3. Delivered(a)' \/ ~Delivered(a) \/ mailer.step = "mailed"
        BY DEF Delivered
    <2> QED BY <2>1, <2>2, <2>3
<1>4. LatestLinkLives'
    BY DEF Inv, MailsHold, LatestLinkLives, MailsTo, Claimed
<1> QED BY <1>1, <1>3, <1>4 DEF MailsHold

-----------------------------------------------------------------------------
(* The Auth service's consumer and relays *)

\* Whatever is announced or sent, the mailer and the tokens are not concerned.
LEMMA OnlyGrown ==
    ASSUME Inv, Grow, UNCHANGED <<mailerVars, authVars>>,
           faults'["late"] = faults["late"], faults'["mailer"] = faults["mailer"],
           FaultsSoFar' <= MaxFaults
    PROVE  LocksHold' /\ TokensPaidFor' /\ MailsHold'
<1> USE DEF mailerVars, authVars
<1>1. LocksHold'
    BY LocksFrame DEF Inv, LocksHold, TokensInOrder
<1>2. \A x \in Mints : mint[x] = NoMint \/ mint[x].step # "idle"
    BY DEF Inv, LocksHold, MintsHold
<1>3. MailsHold'
    <2>1. \A a \in Accounts : Claimed(a) => Claimed(a)'
        BY DEF Claimed
    <2> QED BY <1>2, <2>1, MailsStay
<1>4. Tended' = Tended
    BY EventStays, TypeParts DEF Tended, Inv, MailsHold, MailerTends
<1>5. Minted' = Minted /\ Underway' = Underway
    BY DEF Minted, Underway
<1> QED BY <1>1, <1>3, <1>4, <1>5, PaidFrame

LEMMA ProvisionStep ==
    ASSUME KycTypes, AnnouncedOnce, RelayTypes, NEW a \in Accounts, Provision(a), UNCHANGED <<relayVars, topic>>
    PROVE  /\ provisioned' \subseteq Accounts /\ outbox' \in Seq(Accounts)
           /\ AnnouncedOnce' /\ RelayTypes' /\ Grow
<1>1. CASE Inserts(a)
    <2>1. provisioned' = provisioned \cup {a} /\ outbox' = Append(outbox, a) /\ a \notin provisioned
        BY <1>1 DEF Provision, Inserts
    <2>2. /\ outbox' \in Seq(Accounts) /\ Len(outbox) \in Nat
          /\ DOMAIN outbox = 1..Len(outbox) /\ DOMAIN outbox' = 1..(Len(outbox) + 1)
          /\ \A e \in DOMAIN outbox : outbox'[e] = outbox[e]
          /\ outbox'[Len(outbox) + 1] = a
        BY <2>1, Appended DEF KycTypes
    <2>3. DOMAIN outbox' = DOMAIN outbox \cup {Len(outbox) + 1}
        BY <2>2
    <2>4. AnnouncedOnce'
        BY <2>1, <2>2, <2>3 DEF AnnouncedOnce
    <2>5. topic' \in Seq(DOMAIN outbox') /\ topic' = topic /\ Len(topic) \in Nat
        BY <2>3, SeqMonotonic, LenProperties DEF RelayTypes, relayVars
    <2>6. RelayTypes'
        BY <2>3, <2>5 DEF RelayTypes, Batches, relayVars
    <2>7. Grow
        BY <2>2, <2>3, <2>5 DEF Grow
    <2> QED BY <2>1, <2>2, <2>4, <2>6, <2>7 DEF KycTypes
<1>2. CASE ~Inserts(a)
    <2>1. UNCHANGED <<provisioned, outbox>>
        BY <1>2 DEF Provision
    <2> QED BY <2>1, NothingGrows DEF KycTypes, AnnouncedOnce, RelayTypes, relayVars
<1> QED BY <1>1, <1>2

LEMMA HandleKycInv ==
    ASSUME Inv, HandleKyc
    PROVE  Inv'
<1> DEFINE message == Backlog[kycOffset + 1]
<1>1. KycTypes /\ RelayTypes /\ MailerTypes /\ AuthTypes /\ FaultTypes /\ AnnouncedOnce
    BY TypeParts DEF Inv
<1>2. kycOffset + 1 \in 1..Len(Backlog) /\ kycOffset' = kycOffset + 1 /\ UNCHANGED <<relayVars, topic>>
      /\ UNCHANGED <<mailerVars, authVars, faults>>
    BY <1>1, Sizes DEF HandleKyc, KycTypes
<1>3. message.clientId \in Accounts
    <2>1. message \in [type : {"KYC_VERIFIED", "other", "unreadable"}, clientId : Accounts]
        BY <1>2, OnboardingAssumption, ElementOfSeq
    <2> QED BY <2>1
<1>4. kycOffset' \in 0..Len(Backlog) /\ kycDead' \subseteq DOMAIN Backlog
    BY <1>1, <1>2, Sizes DEF HandleKyc, KycTypes
<1>5. Provision(message.clientId) \/ UNCHANGED <<provisioned, outbox>>
    BY DEF HandleKyc
<1>6. KycTypes' /\ AnnouncedOnce' /\ RelayTypes' /\ Grow
    <2>1. CASE Provision(message.clientId)
        BY <1>1, <1>2, <1>3, <1>4, <2>1, ProvisionStep DEF KycTypes
    <2>2. CASE UNCHANGED <<provisioned, outbox>>
        BY <1>1, <1>2, <1>4, <2>2, NothingGrows DEF KycTypes, AnnouncedOnce, RelayTypes, relayVars
    <2> QED BY <1>5, <2>1, <2>2
<1>7. MailerTypes' /\ AuthTypes' /\ FaultTypes'
    <2>1. DOMAIN outbox \subseteq DOMAIN outbox'
        BY <1>6 DEF Grow
    <2> QED BY <1>1, <1>2, <2>1 DEF MailerTypes, AuthTypes, FaultTypes, mailerVars, authVars
<1>8. LocksHold' /\ TokensPaidFor' /\ MailsHold'
    BY <1>2, <1>6, OnlyGrown DEF Inv, TokensPaidFor, FaultsSoFar
<1> QED BY <1>6, <1>7, <1>8, TypeParts DEF Inv

\* A relay's step: it locks, sends, marks, and leaves the rest alone.
LEMMA RelayInv ==
    ASSUME Inv, UNCHANGED <<kycVars, mailerVars, authVars>>,
           topic' = topic \/ \E e \in DOMAIN outbox : topic' = Append(topic, e),
           published' \subseteq DOMAIN outbox, relay' \in [Relays -> Batches(DOMAIN outbox)],
           UNCHANGED faults \/ Fault("relay")
    PROVE  Inv'
<1>1. KycTypes /\ RelayTypes /\ MailerTypes /\ AuthTypes /\ FaultTypes /\ AnnouncedOnce
    BY TypeParts DEF Inv
<1>2. UNCHANGED <<kycOffset, kycDead, provisioned, outbox>>
    BY DEF kycVars
<1>3. KycTypes' /\ AnnouncedOnce' /\ AuthTypes'
    BY <1>1, <1>2 DEF KycTypes, AnnouncedOnce, AuthTypes, authVars
<1>4. /\ topic' \in Seq(DOMAIN outbox) /\ Len(topic) \in Nat /\ Len(topic') \in Nat
      /\ Len(topic) <= Len(topic') /\ \A i \in DOMAIN topic : topic'[i] = topic[i]
    <2>1. CASE topic' = topic
        BY <1>1, <2>1, LenProperties DEF RelayTypes
    <2>2. CASE \E e \in DOMAIN outbox : topic' = Append(topic, e)
        BY <1>1, <2>2, Appended DEF RelayTypes
    <2> QED BY <2>1, <2>2
<1>5. RelayTypes' /\ Grow
    BY <1>1, <1>2, <1>4 DEF RelayTypes, Grow, KycTypes
<1>6. MailerTypes'
    BY <1>1, <1>2, <1>4 DEF MailerTypes, mailerVars
<1>7. FaultTypes' /\ FaultsSoFar' <= MaxFaults /\ faults'["late"] = faults["late"]
      /\ faults'["mailer"] = faults["mailer"]
    <2>1. CASE UNCHANGED faults
        BY <1>1, <2>1 DEF FaultTypes, FaultsSoFar, Inv, TokensPaidFor
    <2>2. CASE Fault("relay")
        BY <1>1, <2>2, FaultCounted DEF FaultKinds
    <2> QED BY <2>1, <2>2
<1>8. LocksHold' /\ TokensPaidFor' /\ MailsHold'
    BY <1>5, <1>7, OnlyGrown
<1> QED BY <1>3, <1>5, <1>6, <1>7, <1>8, TypeParts DEF Inv

\* What a relay locks and marks are rows of the outbox.
LEMMA RelayStep ==
    ASSUME Inv, NEW r \in Relays, Relaying(r) \/ SendFails(r) \/ RelayDies(r)
    PROVE  Inv'
<1>1. /\ published \subseteq DOMAIN outbox /\ relay \in [Relays -> Batches(DOMAIN outbox)]
      /\ relay[r].locked \subseteq DOMAIN outbox /\ relay[r].marked \subseteq DOMAIN outbox
      /\ NoBatch \in Batches(DOMAIN outbox)
    BY TypeParts DEF Inv, RelayTypes, Batches, NoBatch
<1>2. CASE LockBatch(r)
    <2>1. relay' \in [Relays -> Batches(DOMAIN outbox)]
        BY <1>1, <1>2 DEF LockBatch, Batches
    <2>2. UNCHANGED <<kycVars, mailerVars, authVars>> /\ topic' = topic /\ published' \subseteq DOMAIN outbox /\ UNCHANGED faults
        BY <1>1, <1>2 DEF LockBatch
    <2> QED BY <2>1, <2>2, RelayInv
<1>3. CASE SendNext(r)
    <2>1. PICK e \in relay[r].locked : topic' = Append(topic, e) /\ relay' = [relay EXCEPT ![r].marked = @ \cup {e}]
        BY <1>3 DEF SendNext
    <2>2. relay' \in [Relays -> Batches(DOMAIN outbox)] /\ e \in DOMAIN outbox
        BY <1>1, <2>1 DEF Batches
    <2> QED BY <1>1, <1>3, <2>1, <2>2, RelayInv DEF SendNext
<1>4. ASSUME EndTick(r) PROVE published' \subseteq DOMAIN outbox /\ relay' \in [Relays -> Batches(DOMAIN outbox)]
    BY <1>1, <1>4 DEF EndTick
<1>5. CASE CommitBatch(r)
    BY <1>4, <1>5, RelayInv DEF CommitBatch
<1>6. CASE SendFails(r)
    <2>1. topic' = topic \/ \E e \in DOMAIN outbox : topic' = Append(topic, e)
        BY <1>1, <1>6 DEF SendFails
    <2> QED BY <1>4, <1>6, <2>1, RelayInv DEF SendFails
<1>7. CASE RelayDies(r)
    <2>1. relay' \in [Relays -> Batches(DOMAIN outbox)]
        BY <1>1, <1>7 DEF RelayDies
    <2>2. UNCHANGED <<kycVars, mailerVars, authVars>> /\ topic' = topic /\ published' \subseteq DOMAIN outbox /\ Fault("relay")
        BY <1>1, <1>7 DEF RelayDies
    <2> QED BY <2>1, <2>2, RelayInv
<1> QED BY <1>2, <1>3, <1>5, <1>6, <1>7 DEF Relaying

-----------------------------------------------------------------------------
(* The mailer *)

\* A mint moves, or ends without a token.
LEMMA LocksMint ==
    ASSUME LocksHold, UNCHANGED <<token, visit, login, mailed>>, NEW x \in Mints,
           \A y \in Mints \ {x} : mint'[y] = mint[y],
           mint'[x].step = "idle" => mint'[x] = NoMint,
           mint'[x].step # "idle" => mint'[x].clientId \in Accounts,
           mint'[x].revoking = IF mint'[x].step = "insert" THEN LiveOf(mint'[x].clientId) ELSE {},
           mint'[x].step \in {"revoke", "insert"} =>
              \A y \in Mints \ {x} : ~MintHolds(y, mint'[x].clientId),
           \A k \in mint'[x].revoking, v \in Visitors : ~VisitHoldsToken(v, k)
    PROVE  LocksHold'
<1>1. TokensInOrder'
    BY DEF LocksHold, TokensInOrder
<1>2. \A a : (\A k \in Tokens : token'[k] = token[k]) => LiveOf(a)' = LiveOf(a)
    BY DEF LiveOf
<1>3. MintsHold'
    <2>1. ASSUME NEW y \in Mints
          PROVE  /\ mint'[y].step = "idle" => mint'[y] = NoMint
                 /\ mint'[y].step # "idle" => mint'[y].clientId \in Accounts
                 /\ mint'[y].revoking = IF mint'[y].step = "insert" THEN LiveOf(mint'[y].clientId) ELSE {}
        <3>1. CASE y = x
            BY <3>1
        <3>2. CASE y # x
            BY <3>2 DEF LocksHold, MintsHold
        <3> QED BY <3>1, <3>2
    <2>2. \A y \in Mints : LiveOf(mint[y].clientId)' = LiveOf(mint'[y].clientId)
        BY DEF LiveOf
    <2>3. ASSUME NEW y \in Mints, NEW z \in Mints, NEW a \in Accounts, MintHolds(y, a)', MintHolds(z, a)'
          PROVE  y = z
        BY <2>3 DEF LocksHold, MintsHold, MintHolds
    <2> QED BY <2>1, <2>2, <2>3 DEF MintsHold
<1>4. VisitsHold'
    BY DEF LocksHold, VisitsHold, VisitHoldsToken, MintHoldsToken, Claimed
<1>5. OneLiveLink' /\ UsedTokenIsLogin'
    BY DEF LocksHold, OneLiveLink, UsedTokenIsLogin, LiveOf, Claimed
<1> QED BY <1>1, <1>3, <1>4, <1>5 DEF LocksHold

\* However the mailer lets go of the event in its hands, without recording it.
LEMMA LetGo ==
    ASSUME KycTypes, RelayTypes, MailerTypes, offset < Len(topic),
           \/ Failed
           \/ mailer' = Resting /\ UNCHANGED <<offset, dead>>
           \/ Done /\ UNCHANGED dead,
           UNCHANGED <<outbox, topic, sentFor, mailed>>
    PROVE  MailerTypes' /\ mailer'.step = "idle"
<1>1. offset + 1 \in 0..Len(topic) /\ Event \in DOMAIN outbox
    BY EventThere
<1>2. Resting.step = "idle" /\ Resting \in MailerStates /\ [Resting EXCEPT !.failed = mailer.failed + 1].step = "idle"
    BY Sizes DEF Resting
<1>3. mailer.failed + 1 < Attempts => [Resting EXCEPT !.failed = mailer.failed + 1] \in MailerStates
    BY OnboardingAssumption DEF MailerTypes, MailerStates, Resting
<1>4. CASE Failed
    BY <1>1, <1>2, <1>3, <1>4 DEF Failed, Done, MailerTypes
<1>5. CASE mailer' = Resting /\ UNCHANGED <<offset, dead>>
    BY <1>2, <1>5 DEF MailerTypes
<1>6. CASE Done /\ UNCHANGED dead
    BY <1>1, <1>2, <1>6 DEF MailerTypes, Done
<1> QED BY <1>4, <1>5, <1>6

\* Only a mailer that waits is awaited, and as long as it has waited for every mint there
\* is none but the one it waits for.
LEMMA NobodyAwaited ==
    ASSUME Inv, mailer.step # "minting"
    PROVE  /\ \A x \in Mints : ~mint[x].awaited
           /\ faults["late"] = 0 => \A x \in Mints : mint[x].step = "idle"
BY DEF Inv, MailsHold, MailerTends, NoneLate

LEMMA GiveUpWaitingInv ==
    ASSUME Inv, GiveUpWaiting
    PROVE  Inv'
<1>1. KycTypes /\ RelayTypes /\ MailerTypes /\ AuthTypes /\ FaultTypes /\ AnnouncedOnce
    BY TypeParts DEF Inv
<1>2. mailer.step = "minting" /\ offset < Len(topic)
    BY DEF GiveUpWaiting, Inv, MailsHold, MailerTends
<1>3. UNCHANGED <<kycOffset, kycDead, provisioned, outbox, published, relay, topic, sentFor, mailed, token, visit, login>>
    BY DEF GiveUpWaiting, kycVars, relayVars
<1>4. KycTypes' /\ RelayTypes' /\ AnnouncedOnce'
    BY <1>1, <1>3 DEF KycTypes, RelayTypes, AnnouncedOnce
<1>5. MailerTypes' /\ mailer'.step = "idle"
    BY <1>1, <1>2, <1>3, LetGo DEF GiveUpWaiting
<1>6. mint' = [x \in Mints |-> [mint[x] EXCEPT !.awaited = FALSE]]
    BY DEF GiveUpWaiting
<1>7. AuthTypes'
    BY <1>1, <1>3, <1>6 DEF AuthTypes, MintRequests
<1>8. \A x \in Mints : /\ mint'[x].step = mint[x].step /\ mint'[x].clientId = mint[x].clientId
                       /\ mint'[x].revoking = mint[x].revoking /\ ~mint'[x].awaited
                       /\ mint[x] = NoMint => mint'[x] = NoMint
    <2> TAKE x \in Mints
    <2>1. mint[x] \in MintRequests /\ mint'[x] = [mint[x] EXCEPT !.awaited = FALSE]
        BY <1>1, <1>6 DEF AuthTypes
    <2>2. \A m \in MintRequests :
             m.step = "idle" /\ m.clientId = NoAccount /\ ~m.awaited /\ m.revoking = {} => m = NoMint
        BY DEF MintRequests, NoMint
    <2>3. mint[x] = NoMint => mint'[x] = NoMint
        <3>1. /\ mint'[x] \in MintRequests /\ mint'[x].step = mint[x].step /\ mint'[x].clientId = mint[x].clientId
              /\ mint'[x].revoking = mint[x].revoking /\ ~mint'[x].awaited
            BY <2>1 DEF MintRequests
        <3>2. NoMint.step = "idle" /\ NoMint.clientId = NoAccount /\ NoMint.revoking = {}
            BY DEF NoMint
        <3> QED BY <2>2, <3>1, <3>2
    <2>4. /\ mint'[x].step = mint[x].step /\ mint'[x].clientId = mint[x].clientId
          /\ mint'[x].revoking = mint[x].revoking /\ ~mint'[x].awaited
        BY <2>1 DEF MintRequests
    <2> QED BY <2>3, <2>4
<1>9. LocksHold'
    BY <1>3, <1>8, LocksFrame DEF Inv, LocksHold, TokensInOrder
<1>10. FaultTypes' /\ FaultsSoFar' <= MaxFaults /\ faults'["late"] = faults["late"] + 1 /\ faults'["mailer"] = faults["mailer"]
    BY <1>1, FaultCounted DEF GiveUpWaiting, FaultKinds
<1>11. faults["late"] \in Nat /\ faults["mailer"] \in Nat
    BY Counts DEF Inv
<1>12. TokensPaidFor'
    <2>1. Minted' = Minted /\ Underway' = Underway
        BY <1>3, <1>8 DEF Minted, Underway
    <2> QED BY <1>3, <1>5, <1>10, <1>11, <2>1, PaidByRest
<1>13. MailsHold'
    BY <1>2, <1>3, <1>5, <1>8, <1>10, <1>11, MailsRest
<1> QED BY <1>4, <1>5, <1>7, <1>9, <1>10, <1>12, <1>13, TypeParts DEF Inv

LEMMA MailerFailsInv ==
    ASSUME Inv, MailerFails
    PROVE  Inv'
<1>1. KycTypes /\ RelayTypes /\ MailerTypes /\ AuthTypes /\ FaultTypes /\ AnnouncedOnce
    BY TypeParts DEF Inv
<1>2. mailer.step # "minting" /\ mailer.step # "idle" /\ offset < Len(topic)
    BY DEF MailerFails, Inv, MailsHold, MailerTends
<1>3. UNCHANGED <<kycOffset, kycDead, provisioned, outbox, published, relay, topic, sentFor, mailed, token, mint, visit, login>>
    BY DEF MailerFails, kycVars, relayVars, authVars
<1>4. KycTypes' /\ RelayTypes' /\ AnnouncedOnce' /\ AuthTypes'
    BY <1>1, <1>3 DEF KycTypes, RelayTypes, AnnouncedOnce, AuthTypes
<1>5. MailerTypes' /\ mailer'.step = "idle"
    BY <1>1, <1>2, <1>3, LetGo DEF MailerFails
<1>6. LocksHold'
    BY <1>3, LocksFrame DEF Inv, LocksHold, TokensInOrder
<1>7. FaultTypes' /\ FaultsSoFar' <= MaxFaults /\ faults'["mailer"] = faults["mailer"] + 1 /\ faults'["late"] = faults["late"]
    BY <1>1, FaultCounted DEF MailerFails, FaultKinds
<1>8. faults["late"] \in Nat /\ faults["mailer"] \in Nat
    BY Counts DEF Inv
<1>9. TokensPaidFor'
    <2>1. Minted' = Minted /\ Underway' = Underway
        BY <1>3 DEF Minted, Underway
    <2> QED BY <1>3, <1>5, <1>7, <1>8, <2>1, PaidByRest
<1>10. MailsHold'
    BY <1>2, <1>3, <1>5, <1>7, <1>8, NobodyAwaited, MailsRest
<1> QED BY <1>4, <1>5, <1>6, <1>7, <1>9, <1>10, TypeParts DEF Inv

LEMMA SendMailInv ==
    ASSUME Inv, SendMail
    PROVE  Inv'
<1> DEFINE a == outbox[Event]
           n == Len(mailed)
<1>1. KycTypes /\ RelayTypes /\ MailerTypes /\ AuthTypes /\ FaultTypes /\ AnnouncedOnce
    BY TypeParts DEF Inv
<1>2. mailer.step = "minted" /\ offset < Len(topic) /\ Event \notin sentFor
      /\ mailer.token \in Tokens /\ token[mailer.token].clientId = a
    BY DEF SendMail, Inv, MailsHold, MailerTends
<1>3. UNCHANGED <<kycOffset, kycDead, provisioned, outbox, published, relay, topic, offset, sentFor, dead,
                  token, mint, visit, login, faults>>
    BY DEF SendMail, kycVars, relayVars, authVars
<1>4. KycTypes' /\ RelayTypes' /\ AnnouncedOnce' /\ AuthTypes' /\ FaultTypes'
    BY <1>1, <1>3 DEF KycTypes, RelayTypes, AnnouncedOnce, AuthTypes, FaultTypes
<1>5. mailer' = [mailer EXCEPT !.step = "mailed"] /\ mailed' = Append(mailed, mailer.token)
    BY DEF SendMail
<1>6. /\ mailed' \in Seq(Tokens) /\ Len(mailed') = n + 1 /\ n \in Nat /\ mailed' # <<>>
      /\ DOMAIN mailed = 1..n /\ DOMAIN mailed' = DOMAIN mailed \cup {n + 1}
      /\ \A i \in DOMAIN mailed : mailed'[i] = mailed[i]
      /\ mailed'[n + 1] = mailer.token
    <2>1. /\ mailed' \in Seq(Tokens) /\ Len(mailed') = n + 1 /\ n \in Nat
          /\ DOMAIN mailed = 1..n /\ DOMAIN mailed' = 1..(n + 1)
          /\ \A i \in DOMAIN mailed : mailed'[i] = mailed[i]
          /\ mailed'[n + 1] = mailer.token
        BY <1>1, <1>2, <1>5, Appended DEF MailerTypes
    <2>2. DOMAIN mailed' = DOMAIN mailed \cup {n + 1} /\ mailed' # <<>>
        BY <2>1, EmptySeq
    <2> QED BY <2>1, <2>2
<1>7. mailer' \in MailerStates /\ mailer'.step = "mailed" /\ mailer'.token = mailer.token
    BY <1>1, <1>5 DEF MailerTypes, MailerStates
<1>8. MailerTypes'
    BY <1>1, <1>3, <1>6, <1>7 DEF MailerTypes
<1>9. Event' = Event /\ Event \in DOMAIN outbox /\ a \in Accounts
    BY <1>1, <1>2, <1>3, EventThere DEF Event
<1>10. token[mailer.token].state # "none"
    BY <1>2, <1>9, OwnedIsMinted DEF Inv, LocksHold
<1>11. LocksHold'
    BY <1>3, <1>6, <1>10, LocksFrame DEF Inv, LocksHold, TokensInOrder
<1>12. TokensPaidFor'
    <2>1. Minted' = Minted /\ Underway' = Underway /\ Tended' = Tended
        BY <1>2, <1>3, <1>7, <1>9 DEF Minted, Underway, Tended
    <2>2. FaultsSoFar' <= MaxFaults
        BY <1>3 DEF FaultsSoFar, Inv, TokensPaidFor
    <2> QED BY <1>3, <2>1, <2>2, PaidFrame
<1>13. MailerTends'
    BY <1>2, <1>3, <1>6, <1>7, <1>9, NobodyAwaited DEF MailerTends
<1>14. NoneLate'
    BY <1>2, <1>3, <1>7, <1>9 DEF Inv, MailsHold, NoneLate, Claimed
<1>15. \A e \in sentFor : e \in DOMAIN outbox /\ outbox[e] \in Accounts /\ outbox[e] # a
    BY <1>1, <1>2, <1>9, LenProperties DEF MailerTypes, AnnouncedOnce, KycTypes
<1>16. /\ \A b \in Accounts \ {a} : MailsTo(b)' = MailsTo(b)
       /\ \A b \in Accounts : b = a => MailsTo(b)' = MailsTo(b) \cup {n + 1}
    <2>1. \A b \in Accounts : MailsTo(b)' = {i \in DOMAIN mailed' : token[mailed'[i]].clientId = b}
        BY <1>3 DEF MailsTo
    <2>2. \A i \in DOMAIN mailed : token[mailed'[i]] = token[mailed[i]]
        BY <1>6
    <2>3. n + 1 \notin DOMAIN mailed /\ token[mailed'[n + 1]].clientId = a
        BY <1>2, <1>6
    <2>4. DOMAIN mailed' = DOMAIN mailed \cup {n + 1}
        BY <1>6
    <2> QED BY <2>1, <2>2, <2>3, <2>4 DEF MailsTo
<1>17. MailsPaidFor'
    <2> SUFFICES ASSUME NEW b \in Accounts
                 PROVE  Cardinality(MailsTo(b)') <= faults["mailer"] + (IF Delivered(b)' THEN 1 ELSE 0)
        BY <1>3 DEF MailsPaidFor, MailsTo
    <2>1. Cardinality(MailsTo(b)) <= faults["mailer"] + (IF Delivered(b) THEN 1 ELSE 0)
        BY DEF Inv, MailsHold, MailsPaidFor
    <2>2. faults["mailer"] \in Nat
        BY Counts DEF Inv
    <2>3. IsFiniteSet(MailsTo(b)) /\ Cardinality(MailsTo(b)) \in Nat
        <3>1. IsFiniteSet(DOMAIN mailed) /\ MailsTo(b) \in SUBSET DOMAIN mailed
            BY <1>6, FS_Interval DEF MailsTo
        <3> QED BY <3>1, FS_Subset, FS_CardinalityType
    <2>4. CASE b = a
        <3>1. ~Delivered(b) /\ Delivered(b)'
            BY <1>2, <1>3, <1>7, <1>9, <1>15, <2>4 DEF Delivered
        <3>2. Cardinality(MailsTo(b) \cup {n + 1}) \in {Cardinality(MailsTo(b)), Cardinality(MailsTo(b)) + 1}
            BY <2>3, FS_AddElement
        <3>3. MailsTo(b)' = MailsTo(b) \cup {n + 1}
            BY <1>16, <2>4
        <3> QED BY <2>1, <2>2, <2>3, <3>1, <3>2, <3>3
    <2>5. CASE b # a
        <3>1. Delivered(b)' <=> Delivered(b)
            BY <1>2, <1>3, <1>7, <1>9, <2>5 DEF Delivered
        <3> QED BY <1>16, <2>1, <2>5, <3>1
    <2> QED BY <2>4, <2>5
<1>18. LatestLinkLives'
    <2> SUFFICES ASSUME NEW e \in sentFor
                 PROVE  /\ MailsTo(outbox[e])' # {}
                        /\ faults["late"] = 0 =>
                             \E i \in MailsTo(outbox[e])' :
                                /\ \A j \in MailsTo(outbox[e])' : j <= i
                                /\ token[mailed'[i]].state = "live" \/ Claimed(outbox[e])
        BY <1>3 DEF LatestLinkLives, MailsTo, Claimed
    <2>1. MailsTo(outbox[e])' = MailsTo(outbox[e])
        BY <1>3, <1>15, <1>16 DEF MailsTo
    <2>2. \A i \in MailsTo(outbox[e]) : mailed'[i] = mailed[i]
        BY <1>6 DEF MailsTo
    <2> QED BY <2>1, <2>2 DEF Inv, MailsHold, LatestLinkLives
<1> QED BY <1>4, <1>8, <1>11, <1>12, <1>13, <1>14, <1>17, <1>18, TypeParts DEF Inv, MailsHold

LEMMA RecordSentInv ==
    ASSUME Inv, RecordSent
    PROVE  Inv'
<1> DEFINE a == outbox[Event]
           n == Len(mailed)
<1>1. KycTypes /\ RelayTypes /\ MailerTypes /\ AuthTypes /\ FaultTypes /\ AnnouncedOnce
    BY TypeParts DEF Inv
<1>2. /\ mailer.step = "mailed" /\ offset < Len(topic) /\ mailer.token \in Tokens
      /\ token[mailer.token].clientId = a /\ mailed # <<>> /\ mailed[n] = mailer.token
    BY DEF RecordSent, Inv, MailsHold, MailerTends
<1>3. UNCHANGED <<kycOffset, kycDead, provisioned, outbox, published, relay, topic, dead, mailed,
                  token, mint, visit, login, faults>>
    BY DEF RecordSent, kycVars, relayVars, authVars
<1>4. KycTypes' /\ RelayTypes' /\ AnnouncedOnce' /\ AuthTypes' /\ FaultTypes'
    BY <1>1, <1>3 DEF KycTypes, RelayTypes, AnnouncedOnce, AuthTypes, FaultTypes
<1>5. sentFor' = sentFor \cup {Event} /\ offset' = offset + 1 /\ mailer' = Resting
      /\ mailer'.step = "idle" /\ mailer' \in MailerStates
    BY Sizes DEF RecordSent, Done, Resting
<1>6. Event \in DOMAIN outbox /\ offset + 1 \in 0..Len(topic) /\ a \in Accounts
    BY <1>1, <1>2, EventThere
<1>7. MailerTypes'
    BY <1>1, <1>3, <1>5, <1>6 DEF MailerTypes
<1>8. LocksHold'
    BY <1>3, LocksFrame DEF Inv, LocksHold, TokensInOrder
<1>9. TokensPaidFor'
    <2>1. Minted' = Minted /\ Underway' = Underway /\ Tended' = Tended
        BY <1>2, <1>3, <1>5 DEF Minted, Underway, Tended
    <2>2. FaultsSoFar' <= MaxFaults
        BY <1>3 DEF FaultsSoFar, Inv, TokensPaidFor
    <2> QED BY <1>3, <2>1, <2>2, PaidFrame
<1>10. MailerTends' /\ NoneLate'
    BY <1>2, <1>3, <1>5, NobodyAwaited DEF MailerTends, NoneLate
<1>11. MailsPaidFor'
    <2>1. \A b \in Accounts : MailsTo(b)' = MailsTo(b)
        BY <1>3 DEF MailsTo
    <2>2. \A b \in Accounts : Delivered(b)' <=> Delivered(b)
        BY <1>2, <1>3, <1>5 DEF Delivered
    <2> QED BY <1>3, <2>1, <2>2 DEF Inv, MailsHold, MailsPaidFor
<1>12. LatestLinkLives'
    <2> SUFFICES ASSUME NEW e \in sentFor'
                 PROVE  /\ MailsTo(outbox[e]) # {}
                        /\ faults["late"] = 0 =>
                             \E i \in MailsTo(outbox[e]) :
                                /\ \A j \in MailsTo(outbox[e]) : j <= i
                                /\ token[mailed[i]].state = "live" \/ Claimed(outbox[e])
        BY <1>3 DEF LatestLinkLives, MailsTo, Claimed
    <2>1. CASE e \in sentFor
        BY <2>1 DEF Inv, MailsHold, LatestLinkLives
    <2>2. CASE e = Event
        <3>1. n \in Nat \ {0} /\ DOMAIN mailed = 1..n
            BY <1>1, <1>2, LenProperties, EmptySeq DEF MailerTypes
        <3>2. n \in MailsTo(a) /\ \A j \in MailsTo(a) : j <= n
            BY <1>2, <3>1 DEF MailsTo
        <3>3. faults["late"] = 0 => token[mailed[n]].state = "live" \/ Claimed(a)
            BY <1>2 DEF Inv, MailsHold, NoneLate
        <3> QED BY <2>2, <3>2, <3>3
    <2> QED BY <1>5, <2>1, <2>2
<1> QED BY <1>4, <1>7, <1>8, <1>9, <1>10, <1>11, <1>12, TypeParts DEF Inv, MailsHold

LEMMA TakeEventInv ==
    ASSUME Inv, TakeEvent
    PROVE  Inv'
<1>1. KycTypes /\ RelayTypes /\ MailerTypes /\ AuthTypes /\ FaultTypes /\ AnnouncedOnce
    BY TypeParts DEF Inv
<1>2. mailer.step = "idle" /\ offset < Len(topic)
    BY DEF TakeEvent
<1>3. UNCHANGED <<kycOffset, kycDead, provisioned, outbox, published, relay, topic, sentFor, dead, mailed,
                  token, visit, login, faults>>
    BY DEF TakeEvent, kycVars, relayVars
<1>4. KycTypes' /\ RelayTypes' /\ AnnouncedOnce' /\ FaultTypes' /\ FaultsSoFar' <= MaxFaults
    BY <1>1, <1>3 DEF KycTypes, RelayTypes, AnnouncedOnce, FaultTypes, FaultsSoFar, Inv, TokensPaidFor
<1>5. Event \in DOMAIN outbox /\ outbox[Event] \in Accounts
    BY <1>1, <1>2, EventThere
<1>6. /\ \A x \in Mints : ~mint[x].awaited
      /\ faults["late"] = 0 => \A x \in Mints : mint[x].step = "idle"
    BY <1>2, NobodyAwaited
<1>7. faults["late"] \in Nat /\ faults["mailer"] \in Nat
    BY Counts DEF Inv
<1>8. CASE AlreadySent(Event)
    <2>1. Done /\ UNCHANGED mint
        BY <1>8 DEF TakeEvent
    <2>2. MailerTypes' /\ mailer'.step = "idle"
        BY <1>1, <1>2, <1>3, <2>1, LetGo
    <2>3. AuthTypes' /\ LocksHold'
        BY <1>1, <1>3, <2>1, LocksFrame DEF AuthTypes, Inv, LocksHold, TokensInOrder
    <2>4. MailsHold'
        BY <1>2, <1>3, <1>6, <1>7, <2>1, <2>2, MailsRest
    <2>5. Minted' = Minted /\ Underway' = Underway /\ Tended' = Tended
        BY <1>2, <1>3, <2>1, <2>2 DEF Minted, Underway, Tended
    <2>6. TokensPaidFor'
        BY <1>3, <1>4, <2>5, PaidFrame
    <2> QED BY <1>4, <2>2, <2>3, <2>4, <2>6, TypeParts DEF Inv
<1>9. CASE ~AlreadySent(Event)
    <2> DEFINE asked == [NoMint EXCEPT !.step = "lock", !.awaited = TRUE, !.clientId = outbox[Event]]
    <2>1. PICK x \in Mints : mint[x] = NoMint /\ mint' = [mint EXCEPT ![x] = asked]
        BY <1>9 DEF TakeEvent
    <2>2. mailer' = [mailer EXCEPT !.step = "minting"] /\ offset' = offset
        BY <1>9 DEF TakeEvent
    <2>3. /\ asked \in MintRequests /\ asked.step = "lock" /\ asked.awaited /\ asked.revoking = {}
          /\ asked.clientId = outbox[Event]
        BY <1>5 DEF NoMint, MintRequests
    <2>4. /\ mint' \in [Mints -> MintRequests] /\ mint'[x] = asked
          /\ \A y \in Mints \ {x} : mint'[y] = mint[y]
        BY <1>1, <2>1, <2>3 DEF AuthTypes
    <2> HIDE DEF asked
    <2>5. mailer' \in MailerStates /\ mailer'.step = "minting" /\ mailer'.token = mailer.token
        BY <1>1, <2>2 DEF MailerTypes, MailerStates
    <2>6. MailerTypes' /\ AuthTypes'
        BY <1>1, <1>3, <2>2, <2>4, <2>5 DEF MailerTypes, AuthTypes
    <2>7. LocksHold'
        BY <1>3, <1>5, <2>3, <2>4, LocksMint DEF Inv
    <2>8. Event' = Event /\ Event \notin sentFor
        BY <1>3, <1>9, <2>2 DEF Event, AlreadySent
    <2>9. MailerTends' /\ NoneLate'
        BY <1>2, <1>3, <1>6, <2>2, <2>3, <2>4, <2>5, <2>8 DEF MailerTends, NoneLate
    <2>10. MailsPaidFor'
        <3>1. \A a \in Accounts : MailsTo(a)' = MailsTo(a) /\ (Delivered(a)' <=> Delivered(a))
            BY <1>2, <1>3, <2>5 DEF MailsTo, Delivered
        <3> QED BY <1>3, <3>1 DEF Inv, MailsHold, MailsPaidFor
    <2>11. LatestLinkLives'
        BY <1>3 DEF Inv, MailsHold, LatestLinkLives, MailsTo, Claimed
    <2>12. TokensPaidFor'
        <3>1. Minted' = Minted
            BY <1>3 DEF Minted
        <3>2. Underway' = Underway \cup {x} /\ x \notin Underway
            BY <2>1, <2>3, <2>4 DEF Underway, NoMint
        <3>3. Tended' = sentFor \cup {Event} /\ Tended = sentFor /\ Event \notin sentFor
            BY <1>2, <1>3, <2>5, <2>8 DEF Tended
        <3>4. IsFiniteSet(Underway) /\ IsFiniteSet(sentFor)
            BY Counts DEF Inv
        <3>5. /\ Cardinality(Underway') = Cardinality(Underway) + 1
              /\ Cardinality(Tended') = Cardinality(Tended) + 1
            BY <3>2, <3>3, <3>4, FS_AddElement
        <3>6. /\ Cardinality(Minted) \in Nat /\ Cardinality(Underway) \in Nat /\ Cardinality(Tended) \in Nat
            BY <3>3, Counts DEF Inv
        <3>7. Cardinality(Minted) + Cardinality(Underway) <= Cardinality(Tended) + faults["late"] + faults["mailer"]
            BY DEF Inv, TokensPaidFor
        <3>8. Cardinality(Minted') + Cardinality(Underway') <= Cardinality(Tended') + faults'["late"] + faults'["mailer"]
            BY <1>3, <1>7, <3>1, <3>5, <3>6, <3>7
        <3> QED BY <1>4, <3>8 DEF TokensPaidFor
    <2> QED BY <1>4, <2>6, <2>7, <2>9, <2>10, <2>11, <2>12, TypeParts DEF Inv, MailsHold
<1> QED BY <1>8, <1>9

-----------------------------------------------------------------------------
(* Mints *)

\* A mint that ends without a token: the account has a login, or something failed.
LEMMA MintEndsInv ==
    ASSUME Inv, NEW x \in Mints, mint[x].step # "idle", NEW outcome \in {"claimed", "failed"},
           Answer(x, outcome, NoToken),
           UNCHANGED <<kycVars, relayVars, topic, sentFor, mailed, token, visit, login>>,
           UNCHANGED faults \/ Fault("auth")
    PROVE  Inv'
<1>1. KycTypes /\ RelayTypes /\ MailerTypes /\ AuthTypes /\ FaultTypes /\ AnnouncedOnce
    BY TypeParts DEF Inv
<1>2. UNCHANGED <<kycOffset, kycDead, provisioned, outbox, published, relay, topic, sentFor, mailed,
                  token, visit, login>>
    BY DEF kycVars, relayVars
<1>3. KycTypes' /\ RelayTypes' /\ AnnouncedOnce'
    BY <1>1, <1>2 DEF KycTypes, RelayTypes, AnnouncedOnce
<1>4. FaultTypes' /\ FaultsSoFar' <= MaxFaults /\ faults'["late"] = faults["late"]
      /\ faults'["mailer"] = faults["mailer"]
    <2>1. CASE UNCHANGED faults
        BY <1>1, <2>1 DEF FaultTypes, FaultsSoFar, Inv, TokensPaidFor
    <2>2. CASE Fault("auth")
        BY <1>1, <2>2, FaultCounted DEF FaultKinds
    <2> QED BY <2>1, <2>2
<1>5. mint' = [mint EXCEPT ![x] = NoMint]
    BY DEF Answer
<1>6. /\ mint' \in [Mints -> MintRequests] /\ mint'[x] = NoMint /\ \A y \in Mints \ {x} : mint'[y] = mint[y]
      /\ NoMint.step = "idle" /\ NoMint.awaited = FALSE /\ NoMint.revoking = {}
    BY <1>1, <1>5, Sizes DEF AuthTypes, NoMint
<1>7. AuthTypes' /\ LocksHold'
    <2>1. AuthTypes'
        BY <1>1, <1>2, <1>6 DEF AuthTypes
    <2> QED BY <1>2, <1>6, <2>1, LocksMint DEF Inv
<1>8. Minted' = Minted /\ Underway' = Underway \ {x} /\ x \in Underway
    BY <1>2, <1>6 DEF Minted, Underway
<1>9. faults["late"] \in Nat /\ faults["mailer"] \in Nat
    BY Counts DEF Inv
<1>10. CASE mint[x].awaited
    <2>1. mailer.step = "minting" /\ offset < Len(topic) /\ \A y \in Mints \ {x} : ~mint[y].awaited
        BY <1>10 DEF Inv, MailsHold, MailerTends
    <2>2. Failed \/ (Done /\ UNCHANGED dead)
        BY <1>10 DEF Answer
    <2>3. MailerTypes' /\ mailer'.step = "idle"
        BY <1>1, <1>2, <2>1, <2>2, LetGo
    <2>4. \A y \in Mints : ~mint'[y].awaited
        BY <1>6, <2>1
    <2>5. faults'["late"] = 0 => faults["late"] = 0 /\ \A y \in Mints : mint'[y].step = "idle"
        BY <1>4, <1>6, <2>1 DEF Inv, MailsHold, NoneLate
    <2>6. MailsHold'
        BY <1>2, <1>4, <1>9, <2>1, <2>3, <2>4, <2>5, MailsRest
    <2>7. TokensPaidFor'
        BY <1>2, <1>4, <1>8, <1>9, <2>3, PaidByRest
    <2> QED BY <1>3, <1>4, <1>7, <2>3, <2>6, <2>7, TypeParts DEF Inv
<1>11. CASE ~mint[x].awaited
    <2>1. UNCHANGED <<mailer, offset, dead>>
        BY <1>11 DEF Answer
    <2>2. MailerTypes' /\ Grow
        BY <1>1, <1>2, <2>1, NothingGrows DEF MailerTypes
    <2>3. \A y \in Mints : mint[y] = NoMint \/ mint[y].step # "idle"
        BY DEF Inv, LocksHold, MintsHold
    <2>4. \A a \in Accounts : Claimed(a) => Claimed(a)'
        BY <1>2 DEF Claimed
    <2>5. \A y \in Mints : \/ mint'[y] = NoMint
                           \/ /\ mint'[y].awaited = mint[y].awaited /\ mint'[y].clientId = mint[y].clientId
                              /\ mint[y].step # "idle" /\ mint'[y].step # "idle"
        BY <1>6, <2>3
    <2>6. MailsHold'
        BY <1>2, <1>4, <2>1, <2>2, <2>4, <2>5, MailsStay
    <2>7. Tended' = Tended
        BY <1>2, <2>1 DEF Tended, Event
    <2>8. TokensPaidFor'
        BY <1>4, <1>8, <2>7, PaidFrame
    <2> QED BY <1>3, <1>4, <1>7, <2>2, <2>6, <2>8, TypeParts DEF Inv
<1> QED BY <1>10, <1>11

\* A mint goes on to its next statement.
LEMMA MintMovesInv ==
    ASSUME Inv, NEW x \in Mints, mint[x].step # "idle", mint' = [mint EXCEPT ![x] = mint'[x]],
           mint'[x] \in MintRequests, mint'[x].step \in {"revoke", "insert"},
           mint'[x].clientId = mint[x].clientId, mint'[x].awaited = mint[x].awaited,
           mint'[x].revoking = IF mint'[x].step = "insert" THEN LiveOf(mint[x].clientId) ELSE {},
           \A y \in Mints \ {x} : ~MintHolds(y, mint[x].clientId),
           \A k \in mint'[x].revoking, v \in Visitors : ~VisitHoldsToken(v, k),
           UNCHANGED <<kycVars, relayVars, topic, mailerVars, token, visit, login, faults>>
    PROVE  Inv'
<1>1. KycTypes /\ RelayTypes /\ MailerTypes /\ AuthTypes /\ FaultTypes /\ AnnouncedOnce
    BY TypeParts DEF Inv
<1>2. UNCHANGED <<kycOffset, kycDead, provisioned, outbox, published, relay, topic, offset, mailer, sentFor,
                  dead, mailed, token, visit, login, faults>>
    BY DEF kycVars, relayVars, mailerVars
<1>3. KycTypes' /\ RelayTypes' /\ AnnouncedOnce' /\ MailerTypes' /\ FaultTypes' /\ FaultsSoFar' <= MaxFaults
    BY <1>1, <1>2 DEF KycTypes, RelayTypes, AnnouncedOnce, MailerTypes, FaultTypes, FaultsSoFar, Inv, TokensPaidFor
<1>4. \A y \in Mints \ {x} : mint'[y] = mint[y]
    BY <1>1 DEF AuthTypes
<1>5. AuthTypes'
    BY <1>1, <1>2 DEF AuthTypes
<1>6. mint[x].clientId \in Accounts /\ \A y \in Mints : mint[y] = NoMint \/ mint[y].step # "idle"
    BY DEF Inv, LocksHold, MintsHold
<1>7. LocksHold'
    BY <1>2, <1>4, <1>6, LocksMint DEF Inv
<1>8. MailsHold'
    <2>1. Grow
        BY <1>1, <1>2, NothingGrows
    <2>2. \A a \in Accounts : Claimed(a) => Claimed(a)'
        BY <1>2 DEF Claimed
    <2> QED BY <1>2, <1>4, <1>6, <2>1, <2>2, MailsStay
<1>9. TokensPaidFor'
    <2>1. Minted' = Minted /\ Tended' = Tended /\ Underway' \subseteq Underway
        BY <1>2, <1>4 DEF Minted, Tended, Event, Underway
    <2> QED BY <1>2, <1>3, <2>1, PaidFrame
<1> QED BY <1>3, <1>5, <1>7, <1>8, <1>9, TypeParts DEF Inv

LEMMA LockAccountInv ==
    ASSUME Inv, NEW x \in Mints, LockAccount(x)
    PROVE  Inv'
<1> DEFINE a == mint[x].clientId
<1>1. /\ mint[x].step = "lock" /\ mint[x].step # "idle" /\ AccountFree(a)
      /\ UNCHANGED <<kycVars, relayVars, topic, sentFor, mailed, token, visit, login, faults>>
    BY DEF LockAccount
<1>2. CASE Answer(x, "claimed", NoToken)
    BY <1>1, <1>2, MintEndsInv
<1>3. CASE mint' = [mint EXCEPT ![x].step = "revoke"] /\ UNCHANGED <<mailer, offset, dead>>
    <2>1. mint \in [Mints -> MintRequests]
        BY TypeParts DEF Inv, AuthTypes
    <2>2. /\ mint' = [mint EXCEPT ![x] = mint'[x]] /\ mint'[x] \in MintRequests /\ mint'[x].step = "revoke"
          /\ mint'[x].clientId = a /\ mint'[x].awaited = mint[x].awaited /\ mint'[x].revoking = mint[x].revoking
        BY <1>3, <2>1 DEF MintRequests
    <2>3. mint[x].revoking = {}
        BY <1>1 DEF Inv, LocksHold, MintsHold
    <2>4. \A y \in Mints \ {x} : ~MintHolds(y, a)
        BY <1>1 DEF AccountFree
    <2>5. UNCHANGED mailerVars
        BY <1>1, <1>3 DEF mailerVars
    <2> QED BY <1>1, <2>2, <2>3, <2>4, <2>5, MintMovesInv
<1> QED BY <1>2, <1>3 DEF LockAccount

LEMMA RevokeEarlierInv ==
    ASSUME Inv, NEW x \in Mints, RevokeEarlier(x)
    PROVE  Inv'
<1> DEFINE a == mint[x].clientId
<1>1. /\ mint[x].step = "revoke" /\ mint[x].step # "idle" /\ \A k \in LiveOf(a) : TokenFree(k)
      /\ mint' = [mint EXCEPT ![x].step = "insert", ![x].revoking = LiveOf(a)]
      /\ UNCHANGED <<kycVars, relayVars, topic, mailerVars, token, visit, login, faults>>
    BY DEF RevokeEarlier
<1>2. mint \in [Mints -> MintRequests] /\ LiveOf(a) \in SUBSET Tokens
    BY TypeParts DEF Inv, AuthTypes, LiveOf
<1>3. /\ mint' = [mint EXCEPT ![x] = mint'[x]] /\ mint'[x] \in MintRequests /\ mint'[x].step = "insert"
      /\ mint'[x].clientId = a /\ mint'[x].awaited = mint[x].awaited /\ mint'[x].revoking = LiveOf(a)
    BY <1>1, <1>2 DEF MintRequests
<1>4. a \in Accounts /\ \A y \in Mints \ {x} : ~MintHolds(y, a)
    <2>1. a \in Accounts /\ MintHolds(x, a)
        BY <1>1 DEF Inv, LocksHold, MintsHold, MintHolds
    <2> QED BY <2>1 DEF Inv, LocksHold, MintsHold
<1>5. \A k \in mint'[x].revoking, v \in Visitors : ~VisitHoldsToken(v, k)
    BY <1>1, <1>3 DEF TokenFree
<1> QED BY <1>1, <1>3, <1>4, <1>5, MintMovesInv

\* Each account pays for one token and each fault for one more: m tokens and u mints
\* are paid for by t accounts and l + f faults.
LEMMA RoomForOne ==
    ASSUME NEW m \in Nat, NEW u \in Nat, u # 0, NEW t \in Nat, NEW l \in Nat, NEW f \in Nat,
           NEW all \in Int, NEW accounts \in Nat, NEW bound \in Nat,
           m + u <= t + l + f, t <= accounts, l + f <= all, all <= bound
    PROVE  m + 1 <= accounts + bound
OBVIOUS

\* The token a mint inserts is the next one, there is room for it, and every other token
\* of its account that was live is revoked with it.
LEMMA Inserted ==
    ASSUME Inv, NEW x \in Mints, InsertToken(x)
    PROVE  LET a == mint[x].clientId
               k == Cardinality(Minted) + 1
           IN  /\ a \in Accounts /\ k \in Tokens /\ k \notin Minted
               /\ \A j \in Tokens : token[j].state # "none" <=> j < k
               /\ token' \in [Tokens -> TokenRows]
               /\ token'[k].state = "live" /\ token'[k].clientId = a
               /\ \A j \in Tokens \ {k} :
                     /\ token'[j].clientId = token[j].clientId
                     /\ token'[j].state = IF j \in LiveOf(a) THEN "revoked" ELSE token[j].state
                     /\ token[j].state = "none" => token'[j] = token[j]
<1> DEFINE a == mint[x].clientId
           N == Cardinality(Accounts) + MaxFaults
<1>1. PICK m \in 0..N : \A k \in Tokens : token[k].state # "none" <=> k <= m
    BY DEF Inv, LocksHold, TokensInOrder
<1>2. N \in Nat /\ Tokens = 1..N
    BY Sizes, OnboardingAssumption DEF Tokens
<1>3. \A k \in Tokens : token[k] = Unminted <=> token[k].state = "none"
    <2>1. Unminted.state = "none"
        BY DEF Unminted
    <2> QED BY <2>1 DEF Inv, LocksHold, TokensInOrder
<1>4. Minted = 1..m
    BY <1>1, <1>2, <1>3 DEF Minted
<1>5. Cardinality(Minted) = m
    <2>1. m \in Int /\ 1 \in Int /\ m \in Nat
        BY <1>2
    <2>2. Cardinality(1..m) = IF 1 > m THEN 0 ELSE m - 1 + 1
        BY ONLY <2>1, FS_Interval
    <2> QED BY <1>4, <2>1, <2>2
<1>6. mint[x].step = "insert" /\ a \in Accounts /\ mint[x].revoking = LiveOf(a) /\ x \in Underway
    BY DEF InsertToken, Inv, LocksHold, MintsHold, Underway
<1>7. m + 1 <= N
    <2>1. Cardinality(Underway) \in Nat /\ Cardinality(Underway) # 0
        BY <1>6, Counts, FS_EmptySet DEF Inv
    <2>2. Tended \in SUBSET DOMAIN outbox
        BY EventThere, TypeParts DEF Inv, Tended, MailsHold, MailerTends, MailerTypes
    <2>3. Cardinality(Tended) \in Nat /\ Cardinality(Tended) <= Cardinality(Accounts)
        BY <2>2, Counts DEF Inv
    <2>4. m + Cardinality(Underway) <= Cardinality(Tended) + faults["late"] + faults["mailer"]
          /\ FaultsSoFar <= MaxFaults
        BY <1>5 DEF Inv, TokensPaidFor
    <2>5. /\ faults["late"] \in Nat /\ faults["mailer"] \in Nat
          /\ faults["late"] + faults["mailer"] <= FaultsSoFar
        BY Counts DEF Inv
    <2>6. FaultsSoFar \in Int
        <3>1. \A f \in FaultKinds : faults[f] \in Nat
            BY TypeParts, OnboardingAssumption DEF Inv, FaultTypes
        <3>2. /\ faults["relay"] \in Nat /\ faults["late"] \in Nat /\ faults["mailer"] \in Nat
              /\ faults["auth"] \in Nat /\ faults["expiry"] \in Nat
            BY <3>1 DEF FaultKinds
        <3> QED BY <3>2 DEF FaultsSoFar
    <2>7. m \in Nat
        BY <1>2
    <2> QED BY <2>1, <2>3, <2>4, <2>5, <2>6, <2>7, Sizes, OnboardingAssumption, RoomForOne
<1> DEFINE k == m + 1
<1>8. k \in Tokens /\ k \notin Minted /\ \A j \in Tokens : token[j].state # "none" <=> j < k
    BY <1>1, <1>2, <1>4, <1>7
<1>9. token' = [j \in Tokens |->
             IF j = k THEN [clientId |-> a, state |-> "live", expired |-> FALSE]
             ELSE IF j \in LiveOf(a) THEN [token[j] EXCEPT !.state = "revoked"] ELSE token[j]]
    BY <1>5, <1>6 DEF InsertToken, Minted
<1>10. token \in [Tokens -> TokenRows]
    BY TypeParts DEF Inv, AuthTypes
<1> HIDE DEF k
<1>11. token'[k].state = "live" /\ token'[k].clientId = a
    BY <1>8, <1>9
<1>12. ASSUME NEW j \in Tokens \ {k}
       PROVE  /\ token'[j] \in TokenRows /\ token'[j].clientId = token[j].clientId
              /\ token'[j].state = IF j \in LiveOf(a) THEN "revoked" ELSE token[j].state
              /\ token[j].state = "none" => token'[j] = token[j]
    <2>1. token[j] \in TokenRows
        BY <1>10
    <2>2. CASE j \in LiveOf(a)
        <3>1. token'[j] = [token[j] EXCEPT !.state = "revoked"] /\ token[j].state = "live"
            BY <1>9, <2>2 DEF LiveOf
        <3> QED BY <2>1, <2>2, <3>1 DEF TokenRows
    <2>3. CASE j \notin LiveOf(a)
        BY <1>9, <2>1, <2>3
    <2> QED BY <2>2, <2>3
<1>13. token' \in [Tokens -> TokenRows]
    <2>1. token'[k] \in TokenRows
        BY <1>6, <1>8, <1>9 DEF TokenRows
    <2>2. \A j \in Tokens : token'[j] \in TokenRows
        BY <1>12, <2>1
    <2> QED BY <1>9, <2>2
<1> QED BY <1>5, <1>6, <1>8, <1>11, <1>12, <1>13 DEF k

\* Inserted, its account holds one live token, every other account what it held.
LEMMA InsertedLocks ==
    ASSUME Inv, NEW x \in Mints, InsertToken(x)
    PROVE  LocksHold'
<1> DEFINE a == mint[x].clientId
           k == Cardinality(Minted) + 1
<1>1. /\ a \in Accounts /\ k \in Tokens /\ k \notin Minted
      /\ \A j \in Tokens : token[j].state # "none" <=> j < k
      /\ token' \in [Tokens -> TokenRows] /\ token'[k].state = "live" /\ token'[k].clientId = a
      /\ \A j \in Tokens \ {k} :
            /\ token'[j].clientId = token[j].clientId
            /\ token'[j].state = IF j \in LiveOf(a) THEN "revoked" ELSE token[j].state
            /\ token[j].state = "none" => token'[j] = token[j]
    BY Inserted
<1>2. /\ mint[x].step = "insert" /\ mint[x].revoking = LiveOf(a)
      /\ mint' = [mint EXCEPT ![x] = NoMint] /\ UNCHANGED <<mailed, visit, login>>
    BY DEF InsertToken, Answer, Inv, LocksHold, MintsHold
<1>3. Tokens = 1..(Cardinality(Accounts) + MaxFaults) /\ Tokens \subseteq Nat /\ k \in 0..(Cardinality(Accounts) + MaxFaults)
      /\ Cardinality(Accounts) + MaxFaults \in Nat
    BY <1>1, Sizes, OnboardingAssumption DEF Tokens
<1> HIDE DEF k
<1>4. \A j \in Tokens \ {k} : j \in LiveOf(a) <=> token[j].clientId = a /\ token[j].state = "live"
    BY DEF LiveOf
<1>5. token[k].state = "none"
    BY <1>1, <1>3
<1>6. TokensInOrder'
    <2>1. \A j \in Tokens : token'[j].state # "none" <=> j <= k
        <3> SUFFICES ASSUME NEW j \in Tokens
                     PROVE  token'[j].state # "none" <=> j <= k
            OBVIOUS
        <3>1. CASE j = k
            BY <1>1, <1>3, <3>1
        <3>2. CASE j # k
            <4>1. token'[j].state # "none" <=> token[j].state # "none"
                BY <1>1, <1>4, <3>2
            <4>2. j \in Nat /\ k \in Nat
                BY <1>3
            <4> QED BY <1>1, <3>2, <4>1, <4>2
        <3> QED BY <3>1, <3>2
    <2>2. \A j \in Tokens : IF token'[j].state = "none" THEN token'[j] = Unminted ELSE token'[j].clientId \in Accounts
        BY <1>1, <1>4 DEF Inv, LocksHold, TokensInOrder
    <2>3. \A i \in DOMAIN mailed : mailed[i] \in Tokens /\ token[mailed[i]].state # "none"
        BY TypeParts, LenProperties DEF Inv, MailerTypes, LocksHold, TokensInOrder
    <2>4. \A i \in DOMAIN mailed : token'[mailed[i]].state # "none"
        BY <1>1, <1>3, <1>4, <1>5, <2>3
    <2> QED BY <1>2, <1>3, <2>1, <2>2, <2>4 DEF TokensInOrder
<1>7. \A b : b # a => {j \in Tokens : token'[j].clientId = b /\ token'[j].state = "live"} = LiveOf(b)
    BY <1>1, <1>4, <1>5 DEF LiveOf
<1>8. MintsHold'
    <2>1. mint'[x] = NoMint /\ \A y \in Mints \ {x} : mint'[y] = mint[y]
        BY <1>2, TypeParts DEF Inv, AuthTypes
    <2>2. NoMint.step = "idle" /\ NoMint.revoking = {}
        BY DEF NoMint
    <2>3. \A y \in Mints : LiveOf(mint[y].clientId)' = {j \in Tokens : token'[j].clientId = mint'[y].clientId /\ token'[j].state = "live"}
        BY DEF LiveOf
    <2>4. \A y \in Mints \ {x} : mint[y].step = "insert" => mint[y].clientId # a
        BY <1>1, <1>2 DEF Inv, LocksHold, MintsHold, MintHolds
    <2>5. \A y \in Mints :
             /\ mint[y].step = "idle" => mint[y] = NoMint
             /\ mint[y].step # "idle" => mint[y].clientId \in Accounts
             /\ mint[y].revoking = IF mint[y].step = "insert" THEN LiveOf(mint[y].clientId) ELSE {}
        BY DEF Inv, LocksHold, MintsHold
    <2>6. ASSUME NEW y \in Mints
          PROVE  /\ mint'[y].step = "idle" => mint'[y] = NoMint
                 /\ mint'[y].step # "idle" => mint'[y].clientId \in Accounts
                 /\ mint'[y].revoking = IF mint'[y].step = "insert" THEN LiveOf(mint[y].clientId)' ELSE {}
        <3>1. CASE y = x
            BY <2>1, <2>2, <3>1
        <3>2. CASE y # x
            <4>1. mint'[y] = mint[y]
                BY <2>1, <3>2
            <4>2. LiveOf(mint[y].clientId)' = {j \in Tokens : token'[j].clientId = mint[y].clientId /\ token'[j].state = "live"}
                BY <2>3, <4>1
            <4>3. mint[y].step = "insert" => LiveOf(mint[y].clientId)' = LiveOf(mint[y].clientId)
                BY <1>7, <2>4, <3>2, <4>2
            <4> QED BY <2>5, <4>1, <4>3
        <3> QED BY <3>1, <3>2
    <2>7. ASSUME NEW y \in Mints, NEW z \in Mints, NEW b \in Accounts, MintHolds(y, b)', MintHolds(z, b)'
          PROVE  y = z
        <3>1. MintHolds(y, b) /\ MintHolds(z, b)
            BY <2>1, <2>2, <2>7 DEF MintHolds
        <3> QED BY <3>1 DEF Inv, LocksHold, MintsHold
    <2> QED BY <2>6, <2>7 DEF MintsHold
<1>9. VisitsHold'
    <2>1. \A v \in Visitors : visit[v].step \in {"claim", "insert"} =>
             visit[v].token \in Tokens /\ token[visit[v].token].state = "live" /\ visit[v].token \notin LiveOf(a)
        <3> TAKE v \in Visitors
        <3> HAVE visit[v].step \in {"claim", "insert"}
        <3>1. visit[v].token \in Tokens /\ token[visit[v].token].state = "live" /\ VisitHoldsToken(v, visit[v].token)
            BY DEF Inv, LocksHold, VisitsHold, VisitHoldsToken
        <3>2. ~MintHoldsToken(x, visit[v].token)
            BY <3>1 DEF Inv, LocksHold, VisitsHold
        <3> QED BY <1>2, <3>1, <3>2 DEF MintHoldsToken
    <2>2. \A v \in Visitors : visit[v].step # "idle" =>
             visit[v].token \in Tokens \ {k} /\ token'[visit[v].token].state # "none"
        BY <1>1, <1>4, <1>5 DEF Inv, LocksHold, VisitsHold
    <2>3. \A v \in Visitors : visit[v].step \in {"claim", "insert"} =>
             token'[visit[v].token].state = "live" /\ token'[visit[v].token].clientId = token[visit[v].token].clientId
        BY <1>1, <2>1, <2>2
    <2>4. \A v \in Visitors : visit[v].step = "insert" => ~\E n \in Names : login[n] = token[visit[v].token].clientId
        BY DEF Inv, LocksHold, VisitsHold, Claimed
    <2>5. \A y \in Mints : mint'[y].revoking \subseteq mint[y].revoking
        BY <1>2, TypeParts DEF Inv, AuthTypes, NoMint
    <2> QED BY <1>2, <2>2, <2>3, <2>4, <2>5 DEF Inv, LocksHold, VisitsHold, VisitHoldsToken, MintHoldsToken, Claimed
<1>10. OneLiveLink'
    <2>1. \A j \in Tokens : token'[j].clientId = a /\ token'[j].state = "live" => j = k
        BY <1>1, <1>4
    <2>2. \A b \in Accounts : LiveOf(b)' = {j \in Tokens : token'[j].clientId = b /\ token'[j].state = "live"}
        BY DEF LiveOf
    <2>3. \A b \in Accounts : b # a => LiveOf(b)' = LiveOf(b)
        BY <1>7, <2>2
    <2> SUFFICES ASSUME NEW b \in Accounts, NEW i \in LiveOf(b)', NEW j \in LiveOf(b)'
                 PROVE  i = j
        BY DEF OneLiveLink
    <2>4. CASE b = a
        BY <2>1, <2>2, <2>4
    <2>5. CASE b # a
        BY <2>3, <2>5 DEF Inv, LocksHold, OneLiveLink
    <2> QED BY <2>4, <2>5
<1>11. UsedTokenIsLogin'
    <2>1. \A j \in Tokens : /\ token'[j].state = "used" <=> token[j].state = "used"
                            /\ token[j].state = "used" => token'[j].clientId = token[j].clientId
        BY <1>1, <1>4, <1>5
    <2> QED BY <1>2, <2>1 DEF Inv, LocksHold, UsedTokenIsLogin, Claimed
<1> QED BY <1>6, <1>8, <1>9, <1>10, <1>11 DEF LocksHold

\* The token is paid for by the event its mint was for; a mailer that still waits takes
\* it as that event's.
LEMMA InsertTokenInv ==
    ASSUME Inv, NEW x \in Mints, InsertToken(x)
    PROVE  Inv'
<1> DEFINE a == mint[x].clientId
           k == Cardinality(Minted) + 1
<1>1. KycTypes /\ RelayTypes /\ MailerTypes /\ AuthTypes /\ FaultTypes /\ AnnouncedOnce
    BY TypeParts DEF Inv
<1>2. /\ a \in Accounts /\ k \in Tokens /\ k \notin Minted
      /\ \A j \in Tokens : token[j].state # "none" <=> j < k
      /\ token' \in [Tokens -> TokenRows] /\ token'[k].state = "live" /\ token'[k].clientId = a
      /\ \A j \in Tokens \ {k} :
            /\ token'[j].clientId = token[j].clientId
            /\ token'[j].state = IF j \in LiveOf(a) THEN "revoked" ELSE token[j].state
            /\ token[j].state = "none" => token'[j] = token[j]
    BY Inserted
<1>3. UNCHANGED <<kycOffset, kycDead, provisioned, outbox, published, relay, topic, sentFor, mailed, visit, login, faults>>
    BY DEF InsertToken, kycVars, relayVars
<1>4. /\ mint[x].step = "insert" /\ mint' = [mint EXCEPT ![x] = NoMint] /\ Answer(x, "minted", k)
    BY DEF InsertToken, Answer, Minted
<1>5. /\ mint' \in [Mints -> MintRequests] /\ mint'[x] = NoMint /\ \A y \in Mints \ {x} : mint'[y] = mint[y]
      /\ NoMint.step = "idle" /\ NoMint.awaited = FALSE
    BY <1>1, <1>4, Sizes DEF AuthTypes, NoMint
<1>6. k \in Nat
    BY <1>2, Sizes
<1> HIDE DEF k
<1>7. token[k].state = "none" /\ \A j \in Tokens : token[j].state # "none" => token'[j].clientId = token[j].clientId
    BY <1>2, <1>6
<1>8. KycTypes' /\ RelayTypes' /\ AnnouncedOnce' /\ AuthTypes' /\ FaultTypes' /\ FaultsSoFar' <= MaxFaults
    BY <1>1, <1>2, <1>3, <1>5 DEF KycTypes, RelayTypes, AnnouncedOnce, AuthTypes, FaultTypes, FaultsSoFar, Inv, TokensPaidFor
<1>9. LocksHold'
    BY InsertedLocks
<1>10. \/ ~mint[x].awaited /\ UNCHANGED <<mailer, offset, dead>>
       \/ /\ mint[x].awaited /\ mailer.step = "minting" /\ a = outbox[Event]
          /\ \A y \in Mints : mint[y].awaited => y = x
          /\ mailer' = [mailer EXCEPT !.step = "minted", !.token = k] /\ UNCHANGED <<offset, dead>>
    BY <1>4 DEF Answer, Inv, MailsHold, MailerTends
<1>11. offset' = offset /\ dead' = dead /\ Event' = Event
    BY <1>3, <1>10 DEF Event
<1>12. mailer' \in MailerStates /\ (mailer'.step = "idle" <=> mailer.step = "idle")
    BY <1>1, <1>2, <1>10 DEF MailerTypes, MailerStates
<1>13. MailerTypes'
    BY <1>1, <1>3, <1>11, <1>12 DEF MailerTypes
<1>14. TokensPaidFor'
    <2>1. Minted' = Minted \cup {k}
        <3>1. Unminted.state = "none"
            BY DEF Unminted
        <3>2. \A j \in Tokens : token[j] = Unminted <=> token[j].state = "none"
            BY <3>1 DEF Inv, LocksHold, TokensInOrder
        <3>3. \A j \in Tokens : token'[j] = Unminted <=> token'[j].state = "none"
            BY <1>9, <3>1 DEF LocksHold, TokensInOrder
        <3>4. \A j \in Tokens \ {k} : token'[j].state = "none" <=> token[j].state = "none"
            BY <1>2 DEF LiveOf
        <3> QED BY <1>2, <3>2, <3>3, <3>4 DEF Minted
    <2>2. Underway' = Underway \ {x} /\ x \in Underway
        BY <1>4, <1>5 DEF Underway
    <2>3. Tended' = Tended
        BY <1>3, <1>11, <1>12 DEF Tended
    <2>4. /\ Cardinality(Minted') = Cardinality(Minted) + 1
          /\ Cardinality(Underway') = Cardinality(Underway) - 1
        BY <1>2, <2>1, <2>2, Counts, FS_AddElement, FS_RemoveElement DEF Inv
    <2>5. Cardinality(Minted) \in Nat /\ Cardinality(Underway) \in Nat
        BY Counts DEF Inv
    <2>6. Cardinality(Minted') + Cardinality(Underway') = Cardinality(Minted) + Cardinality(Underway)
        BY <2>4, <2>5
    <2> QED BY <1>3, <1>8, <2>3, <2>6 DEF Inv, TokensPaidFor
<1>15. CASE ~mint[x].awaited
    <2>1. faults["late"] # 0 /\ mailer' = mailer
        BY <1>4, <1>10, <1>15 DEF Inv, MailsHold, NoneLate
    <2>2. Grow
        BY <1>1, <1>3, NothingGrows
    <2>3. \A y \in Mints : mint[y] = NoMint \/ mint[y].step # "idle"
        BY DEF Inv, LocksHold, MintsHold
    <2>4. \A b \in Accounts : Claimed(b) => Claimed(b)'
        BY <1>3 DEF Claimed
    <2>5. \A y \in Mints : \/ mint'[y] = NoMint
                           \/ /\ mint'[y].awaited = mint[y].awaited /\ mint'[y].clientId = mint[y].clientId
                              /\ mint[y].step # "idle" /\ mint'[y].step # "idle"
        BY <1>5, <2>3
    <2>6. MailsHold'
        BY <1>3, <1>7, <1>11, <2>1, <2>2, <2>4, <2>5, MailsStay
    <2> QED BY <1>8, <1>9, <1>13, <1>14, <2>6, TypeParts DEF Inv
<1>16. CASE mint[x].awaited
    <2>1. /\ mailer.step = "minting" /\ offset < Len(topic) /\ Event \notin sentFor /\ a = outbox[Event]
          /\ mailer'.step = "minted" /\ mailer'.token = k
        BY <1>1, <1>10, <1>16 DEF MailerTypes, MailerStates, Inv, MailsHold, MailerTends
    <2>2. \A y \in Mints : ~mint'[y].awaited
        BY <1>5, <1>10, <1>16
    <2>3. MailerTends'
        BY <1>2, <1>3, <1>11, <2>1, <2>2 DEF MailerTends
    <2>4. NoneLate'
        BY <1>2, <1>3, <1>5, <1>10, <1>16, <2>1 DEF Inv, MailsHold, NoneLate
    <2>5. \A i \in DOMAIN mailed : mailed[i] \in Tokens \ {k} /\ token[mailed[i]].state # "none"
        BY <1>1, <1>7, LenProperties DEF MailerTypes, Inv, LocksHold, TokensInOrder
    <2>6. \A b \in Accounts : MailsTo(b)' = MailsTo(b)
        BY <1>3, <1>7, <2>5, SameMails
    <2>7. MailsPaidFor'
        <3>1. \A b \in Accounts : Delivered(b)' <=> Delivered(b)
            BY <1>3, <2>1 DEF Delivered
        <3> QED BY <1>3, <2>6, <3>1 DEF Inv, MailsHold, MailsPaidFor
    <2>8. LatestLinkLives'
        <3>1. \A e \in sentFor : outbox[e] \in Accounts /\ outbox[e] # a
            BY <1>1, <2>1, EventThere, LenProperties DEF MailerTypes, KycTypes, AnnouncedOnce
        <3> SUFFICES ASSUME NEW e \in sentFor
                     PROVE  /\ MailsTo(outbox[e])' # {}
                            /\ faults["late"] = 0 =>
                                 \E i \in MailsTo(outbox[e])' :
                                    /\ \A j \in MailsTo(outbox[e])' : j <= i
                                    /\ token'[mailed[i]].state = "live" \/ Claimed(outbox[e])
            BY <1>3 DEF LatestLinkLives, MailsTo, Claimed
        <3>2. MailsTo(outbox[e])' = MailsTo(outbox[e])
            BY <1>3, <2>6, <3>1 DEF MailsTo
        <3>3. \A i \in MailsTo(outbox[e]) : token'[mailed[i]].state = token[mailed[i]].state
            BY <1>2, <2>5, <3>1 DEF MailsTo, LiveOf
        <3> QED BY <3>2, <3>3 DEF Inv, MailsHold, LatestLinkLives
    <2> QED BY <1>8, <1>9, <1>13, <1>14, <2>3, <2>4, <2>7, <2>8, TypeParts DEF Inv, MailsHold
<1> QED BY <1>15, <1>16

\* A mint that fails, or that the database ends.
LEMMA MintFailsInv ==
    ASSUME Inv, NEW x \in Mints, MintFails(x)
    PROVE  Inv'
BY MintEndsInv DEF MintFails

-----------------------------------------------------------------------------
(* Registrations *)

\* A registration goes on to its next statement, or ends without a login.
LEMMA VisitMovesInv ==
    ASSUME Inv, NEW v \in Visitors, NEW entry \in Registrations, visit' = [visit EXCEPT ![v] = entry],
           entry.step # "idle" => entry.token \in Tokens /\ token[entry.token].state # "none",
           entry.step \in {"claim", "insert"} =>
              /\ token[entry.token].state = "live"
              /\ \A w \in Visitors \ {v} : ~VisitHoldsToken(w, entry.token)
              /\ \A x \in Mints : ~MintHoldsToken(x, entry.token),
           entry.step = "insert" => ~Claimed(token[entry.token].clientId),
           UNCHANGED <<kycVars, relayVars, topic, mailerVars, token, mint, login>>,
           UNCHANGED faults \/ Fault("auth")
    PROVE  Inv'
<1>1. KycTypes /\ RelayTypes /\ MailerTypes /\ AuthTypes /\ FaultTypes /\ AnnouncedOnce
    BY TypeParts DEF Inv
<1>2. UNCHANGED <<kycOffset, kycDead, provisioned, outbox, published, relay, topic, offset, mailer, sentFor,
                  dead, mailed, token, mint, login>>
    BY DEF kycVars, relayVars, mailerVars
<1>3. KycTypes' /\ RelayTypes' /\ AnnouncedOnce' /\ MailerTypes' /\ Grow
    BY <1>1, <1>2, NothingGrows DEF KycTypes, RelayTypes, AnnouncedOnce, MailerTypes
<1>4. FaultTypes' /\ FaultsSoFar' <= MaxFaults /\ faults'["late"] = faults["late"]
      /\ faults'["mailer"] = faults["mailer"]
    <2>1. CASE UNCHANGED faults
        BY <1>1, <2>1 DEF FaultTypes, FaultsSoFar, Inv, TokensPaidFor
    <2>2. CASE Fault("auth")
        BY <1>1, <2>2, FaultCounted DEF FaultKinds
    <2> QED BY <2>1, <2>2
<1>5. /\ visit' \in [Visitors -> Registrations] /\ visit'[v] = entry
      /\ \A w \in Visitors \ {v} : visit'[w] = visit[w]
    BY <1>1 DEF AuthTypes
<1>6. AuthTypes'
    BY <1>1, <1>2, <1>5 DEF AuthTypes
<1>7. LocksHold'
    <2>1. \A a : Claimed(a)' <=> Claimed(a)
        BY <1>2 DEF Claimed
    <2>2. TokensInOrder'
        BY <1>2 DEF Inv, LocksHold, TokensInOrder
    <2>3. MintsHold'
        <3>1. \A x \in Mints : LiveOf(mint[x].clientId)' = LiveOf(mint[x].clientId)
            BY <1>2 DEF LiveOf
        <3>2. \A x \in Mints, a \in Accounts : MintHolds(x, a)' <=> MintHolds(x, a)
            BY <1>2 DEF MintHolds
        <3>3. \A x \in Mints : mint'[x] = mint[x]
            BY <1>2
        <3> QED BY <3>1, <3>2, <3>3 DEF Inv, LocksHold, MintsHold
    <2>4. OneLiveLink' /\ UsedTokenIsLogin'
        <3>1. \A a \in Accounts : LiveOf(a)' = LiveOf(a)
            BY <1>2 DEF LiveOf
        <3> QED BY <1>2, <2>1, <3>1 DEF Inv, LocksHold, OneLiveLink, UsedTokenIsLogin
    <2>5. VisitsHold'
        <3>1. ASSUME NEW w \in Visitors
              PROVE  /\ visit'[w].step # "idle" => visit'[w].token \in Tokens /\ token[visit'[w].token].state # "none"
                     /\ visit'[w].step \in {"claim", "insert"} => token[visit'[w].token].state = "live"
                     /\ visit'[w].step = "insert" => ~\E n \in Names : login[n] = token[visit'[w].token].clientId
            BY <1>5 DEF Inv, LocksHold, VisitsHold, Claimed
        <3>2. ASSUME NEW u \in Visitors, NEW w \in Visitors, NEW k \in Tokens, VisitHoldsToken(u, k)', VisitHoldsToken(w, k)'
              PROVE  u = w
            BY <1>5, <3>2 DEF Inv, LocksHold, VisitsHold, VisitHoldsToken
        <3>3. ASSUME NEW w \in Visitors, NEW x \in Mints, NEW k \in Tokens, VisitHoldsToken(w, k)', MintHoldsToken(x, k)'
              PROVE  FALSE
            <4>1. MintHoldsToken(x, k)
                BY <1>2, <3>3 DEF MintHoldsToken
            <4> QED BY <1>5, <3>3, <4>1 DEF Inv, LocksHold, VisitsHold, VisitHoldsToken
        <3> QED BY <1>2, <3>1, <3>2, <3>3 DEF VisitsHold, Claimed
    <2> QED BY <2>2, <2>3, <2>4, <2>5 DEF LocksHold
<1>8. MailsHold'
    <2>1. \A a \in Accounts : Claimed(a) => Claimed(a)'
        BY <1>2 DEF Claimed
    <2>2. \A x \in Mints : mint[x] = NoMint \/ mint[x].step # "idle"
        BY DEF Inv, LocksHold, MintsHold
    <2> QED BY <1>2, <1>3, <1>4, <2>1, <2>2, MailsStay
<1>9. TokensPaidFor'
    <2>1. Minted' = Minted /\ Tended' = Tended /\ Underway' \subseteq Underway
        BY <1>2 DEF Minted, Tended, Event, Underway
    <2> QED BY <1>4, <2>1, PaidFrame
<1> QED BY <1>3, <1>4, <1>6, <1>7, <1>8, <1>9, TypeParts DEF Inv

LEMMA VisitEndsInv ==
    ASSUME Inv, NEW v \in Visitors, Refused(v),
           UNCHANGED <<kycVars, relayVars, topic, mailerVars, token, mint, login>>,
           UNCHANGED faults \/ Fault("auth")
    PROVE  Inv'
<1>1. NoVisit \in Registrations /\ NoVisit.step = "idle" /\ visit' = [visit EXCEPT ![v] = NoVisit]
    BY Sizes DEF NoVisit, Refused
<1> QED BY <1>1, VisitMovesInv

LEMMA SubmitInv ==
    ASSUME Inv, NEW v \in Visitors, NEW k \in Tokens, NEW n \in Names, Submit(v, k, n)
    PROVE  Inv'
<1> DEFINE entry == [step |-> "consume", token |-> k, name |-> n]
<1>1. entry \in Registrations /\ entry.step = "consume" /\ entry.token = k
    BY DEF Registrations
<1>2. visit' = [visit EXCEPT ![v] = entry]
      /\ UNCHANGED <<kycVars, relayVars, topic, mailerVars, token, mint, login, faults>>
    BY DEF Submit
<1>3. token[k].state # "none"
    BY DEF Submit, Inv, LocksHold, TokensInOrder
<1> HIDE DEF entry
<1> QED BY <1>1, <1>2, <1>3, VisitMovesInv

LEMMA ConsumeTokenInv ==
    ASSUME Inv, NEW v \in Visitors, ConsumeToken(v)
    PROVE  Inv'
<1>1. /\ visit[v].step = "consume" /\ TokenFree(visit[v].token)
      /\ UNCHANGED <<kycVars, relayVars, topic, mailerVars, token, mint, login, faults>>
    BY DEF ConsumeToken
<1>2. CASE Usable(visit[v].token) /\ visit' = [visit EXCEPT ![v].step = "claim"]
    <2> DEFINE entry == [visit[v] EXCEPT !.step = "claim"]
    <2>1. visit \in [Visitors -> Registrations]
        BY TypeParts DEF Inv, AuthTypes
    <2>2. /\ entry \in Registrations /\ entry.step = "claim" /\ entry.token = visit[v].token
          /\ visit' = [visit EXCEPT ![v] = entry]
        BY <1>2, <2>1 DEF Registrations
    <2> HIDE DEF entry
    <2>3. entry.token \in Tokens /\ token[entry.token].state = "live"
        BY <1>1, <1>2, <2>2 DEF Usable, Inv, LocksHold, VisitsHold
    <2>4. /\ \A w \in Visitors \ {v} : ~VisitHoldsToken(w, entry.token)
          /\ \A x \in Mints : ~MintHoldsToken(x, entry.token)
        BY <1>1, <2>2 DEF TokenFree
    <2> QED BY <1>1, <2>2, <2>3, <2>4, VisitMovesInv
<1>3. CASE Refused(v)
    BY <1>1, <1>3, VisitEndsInv
<1> QED BY <1>2, <1>3 DEF ConsumeToken

LEMMA ClaimAccountInv ==
    ASSUME Inv, NEW v \in Visitors, ClaimAccount(v)
    PROVE  Inv'
<1> DEFINE a == token[visit[v].token].clientId
<1>1. /\ visit[v].step = "claim"
      /\ UNCHANGED <<kycVars, relayVars, topic, mailerVars, token, mint, login, faults>>
    BY DEF ClaimAccount
<1>2. visit \in [Visitors -> Registrations]
    BY TypeParts DEF Inv, AuthTypes
<1>3. CASE Claimed(a)
    <2>1. Refused(v)
        BY <1>2, <1>3 DEF ClaimAccount, Refused
    <2> QED BY <1>1, <2>1, VisitEndsInv
<1>4. CASE ~Claimed(a)
    <2> DEFINE entry == [visit[v] EXCEPT !.step = "insert"]
    <2>1. /\ entry \in Registrations /\ entry.step = "insert" /\ entry.token = visit[v].token
          /\ visit' = [visit EXCEPT ![v] = entry]
        BY <1>2, <1>4 DEF ClaimAccount, Registrations
    <2> HIDE DEF entry
    <2>2. entry.token \in Tokens /\ token[entry.token].state = "live" /\ VisitHoldsToken(v, entry.token)
        BY <1>1, <2>1 DEF VisitHoldsToken, Inv, LocksHold, VisitsHold
    <2>3. /\ \A w \in Visitors \ {v} : ~VisitHoldsToken(w, entry.token)
          /\ \A x \in Mints : ~MintHoldsToken(x, entry.token)
        BY <2>2 DEF Inv, LocksHold, VisitsHold
    <2> QED BY <1>1, <1>4, <2>1, <2>2, <2>3, VisitMovesInv
<1> QED BY <1>3, <1>4

LEMMA RegistrationFailsInv ==
    ASSUME Inv, NEW v \in Visitors, RegistrationFails(v)
    PROVE  Inv'
BY VisitEndsInv DEF RegistrationFails

LEMMA BreakDeadlockInv ==
    ASSUME Inv, BreakDeadlock
    PROVE  Inv'
<1>1. PICK x \in Mints, v \in Visitors :
         /\ Deadlocked(x, v)
         /\ \/ Answer(x, "failed", NoToken) /\ UNCHANGED visit
            \/ Refused(v) /\ UNCHANGED <<mint, mailer, offset, dead>>
    BY DEF BreakDeadlock
<1>2. UNCHANGED <<kycVars, relayVars, topic, sentFor, mailed, token, login, faults>> /\ mint[x].step # "idle"
    BY <1>1 DEF BreakDeadlock, Deadlocked
<1>3. CASE Answer(x, "failed", NoToken) /\ UNCHANGED visit
    BY <1>2, <1>3, MintEndsInv
<1>4. CASE Refused(v) /\ UNCHANGED <<mint, mailer, offset, dead>>
    BY <1>2, <1>4, VisitEndsInv DEF mailerVars
<1> QED BY <1>1, <1>3, <1>4

\* The token is used and the login made in one commit.  Another registration at that
\* point is for another account: it would hold the account's only live token.
LEMMA InsertCredentialInv ==
    ASSUME Inv, NEW v \in Visitors, InsertCredential(v)
    PROVE  Inv'
<1> DEFINE n == visit[v].name
           k == visit[v].token
           a == token[k].clientId
<1>1. /\ visit[v].step = "insert" /\ Refused(v)
      /\ UNCHANGED <<kycVars, relayVars, topic, mailerVars, mint, faults>>
    BY DEF InsertCredential
<1>2. CASE UNCHANGED <<token, login>>
    BY <1>1, <1>2, VisitEndsInv
<1>3. CASE /\ login[n] = NoAccount /\ login' = [login EXCEPT ![n] = a]
           /\ token' = [token EXCEPT ![k].state = "used"]
    <2>1. KycTypes /\ RelayTypes /\ MailerTypes /\ AuthTypes /\ FaultTypes /\ AnnouncedOnce
        BY TypeParts DEF Inv
    <2>2. k \in Tokens /\ token[k].state = "live" /\ ~Claimed(a) /\ VisitHoldsToken(v, k) /\ n \in Names
        BY <1>1, <2>1 DEF Inv, LocksHold, VisitsHold, VisitHoldsToken, AuthTypes, Registrations
    <2>3. a \in Accounts
        BY <2>2 DEF Inv, LocksHold, TokensInOrder
    <2>4. UNCHANGED <<kycOffset, kycDead, provisioned, outbox, published, relay, topic, offset, mailer, sentFor,
                      dead, mailed, mint, faults>>
        BY <1>1 DEF kycVars, relayVars, mailerVars
    <2>5. KycTypes' /\ RelayTypes' /\ AnnouncedOnce' /\ MailerTypes' /\ FaultTypes' /\ Grow /\ FaultsSoFar' <= MaxFaults
        BY <2>1, <2>4, NothingGrows
        DEF KycTypes, RelayTypes, AnnouncedOnce, MailerTypes, FaultTypes, FaultsSoFar, Inv, TokensPaidFor
    <2>6. /\ token' \in [Tokens -> TokenRows] /\ token'[k].state = "used" /\ token'[k].clientId = a
          /\ \A j \in Tokens \ {k} : token'[j] = token[j]
        BY <1>3, <2>1, <2>2 DEF AuthTypes, TokenRows
    <2>7. /\ login' \in [Names -> Accounts \cup {NoAccount, OthersAccount}] /\ login'[n] = a
          /\ \A m \in Names \ {n} : login'[m] = login[m]
        BY <1>3, <2>1, <2>2, <2>3 DEF AuthTypes
    <2>8. /\ visit' \in [Visitors -> Registrations] /\ visit'[v] = NoVisit /\ NoVisit.step = "idle"
          /\ \A w \in Visitors \ {v} : visit'[w] = visit[w]
        BY <1>1, <2>1, Sizes DEF AuthTypes, Refused, NoVisit
    <2>9. AuthTypes'
        BY <2>1, <2>4, <2>6, <2>7, <2>8 DEF AuthTypes
    <2>10. \A b \in Accounts : b # a => (Claimed(b)' <=> Claimed(b))
        BY <1>3, <2>2, <2>3, <2>7, Sizes DEF Claimed
    <2>11. \A b \in Accounts : b = a => Claimed(b)'
        BY <2>2, <2>7 DEF Claimed
    <2>12. LocksHold'
        <3>1. TokensInOrder'
            <4>1. \A j \in Tokens : token'[j].state = "none" <=> token[j].state = "none"
                BY <2>2, <2>6
            <4>2. \A j \in Tokens : IF token'[j].state = "none" THEN token'[j] = Unminted ELSE token'[j].clientId \in Accounts
                BY <2>3, <2>6 DEF Inv, LocksHold, TokensInOrder
            <4>3. \A i \in DOMAIN mailed : mailed[i] \in Tokens /\ token[mailed[i]].state # "none"
                BY <2>1, LenProperties DEF MailerTypes, Inv, LocksHold, TokensInOrder
            <4> QED BY <2>4, <4>1, <4>2, <4>3 DEF Inv, LocksHold, TokensInOrder
        <3>2. \A b : b # a => {j \in Tokens : token'[j].clientId = b /\ token'[j].state = "live"} = LiveOf(b)
            BY <2>2, <2>6 DEF LiveOf
        <3>3. MintsHold'
            <4>1. \A x \in Mints : LiveOf(mint[x].clientId)' = {j \in Tokens : token'[j].clientId = mint[x].clientId /\ token'[j].state = "live"}
                BY <2>4 DEF LiveOf
            <4>2. \A x \in Mints : mint[x].step = "insert" => mint[x].clientId # a
                <5> SUFFICES ASSUME NEW x \in Mints, mint[x].step = "insert", mint[x].clientId = a
                             PROVE  FALSE
                    OBVIOUS
                <5>1. k \in mint[x].revoking
                    BY <2>2 DEF Inv, LocksHold, MintsHold, LiveOf
                <5> QED BY <2>2, <5>1 DEF Inv, LocksHold, VisitsHold, MintHoldsToken
            <4>3. ASSUME NEW x \in Mints
                  PROVE  mint[x].revoking = IF mint[x].step = "insert" THEN LiveOf(mint[x].clientId)' ELSE {}
                <5>1. mint[x].step = "insert" => LiveOf(mint[x].clientId)' = LiveOf(mint[x].clientId)
                    BY <3>2, <4>1, <4>2
                <5> QED BY <5>1 DEF Inv, LocksHold, MintsHold
            <4>4. \A x \in Mints, b \in Accounts : MintHolds(x, b)' <=> MintHolds(x, b)
                BY <2>4 DEF MintHolds
            <4>5. \A x \in Mints : mint'[x] = mint[x]
                BY <2>4
            <4> QED BY <4>3, <4>4, <4>5 DEF Inv, LocksHold, MintsHold
        <3>4. \A w \in Visitors \ {v} : visit[w].step \in {"claim", "insert"} =>
                 /\ visit[w].token \in Tokens \ {k} /\ token[visit[w].token].state = "live"
                 /\ token[visit[w].token].clientId # a
            <4> SUFFICES ASSUME NEW w \in Visitors \ {v}, visit[w].step \in {"claim", "insert"}
                         PROVE  /\ visit[w].token \in Tokens \ {k} /\ token[visit[w].token].state = "live"
                                /\ token[visit[w].token].clientId # a
                OBVIOUS
            <4>1. visit[w].token \in Tokens /\ token[visit[w].token].state = "live" /\ VisitHoldsToken(w, visit[w].token)
                BY DEF Inv, LocksHold, VisitsHold, VisitHoldsToken
            <4>2. visit[w].token # k
                BY <2>2, <4>1 DEF Inv, LocksHold, VisitsHold
            <4>3. token[visit[w].token].clientId = a => visit[w].token \in LiveOf(a) /\ k \in LiveOf(a)
                BY <2>2, <4>1 DEF LiveOf
            <4> QED BY <2>3, <4>1, <4>2, <4>3 DEF Inv, LocksHold, OneLiveLink
        <3>5. VisitsHold'
            <4>1. ASSUME NEW w \in Visitors
                  PROVE  /\ visit'[w].step # "idle" => visit'[w].token \in Tokens /\ token'[visit'[w].token].state # "none"
                         /\ visit'[w].step \in {"claim", "insert"} => token'[visit'[w].token].state = "live"
                         /\ visit'[w].step = "insert" => ~\E m \in Names : login'[m] = token'[visit'[w].token].clientId
                <5>1. CASE w = v
                    BY <2>8, <5>1
                <5>2. CASE w # v
                    <6>1. visit'[w] = visit[w] /\ (visit[w].step # "idle" => visit[w].token \in Tokens /\ token[visit[w].token].state # "none")
                        BY <2>8, <5>2 DEF Inv, LocksHold, VisitsHold
                    <6>2. visit[w].step \in {"claim", "insert"} => token'[visit[w].token] = token[visit[w].token]
                        BY <2>6, <3>4, <5>2
                    <6>3. visit[w].step = "insert" => ~\E m \in Names : login'[m] = token[visit[w].token].clientId
                        BY <2>2, <2>7, <3>4, <5>2 DEF Inv, LocksHold, VisitsHold, Claimed
                    <6>4. visit[w].step # "idle" => token'[visit[w].token].state # "none"
                        BY <2>6, <6>1
                    <6> QED BY <3>4, <5>2, <6>1, <6>2, <6>3, <6>4
                <5> QED BY <5>1, <5>2
            <4>2. \A w \in Visitors, j \in Tokens : VisitHoldsToken(w, j)' => VisitHoldsToken(w, j)
                BY <2>8 DEF VisitHoldsToken
            <4>3. \A x \in Mints, j \in Tokens : MintHoldsToken(x, j)' <=> MintHoldsToken(x, j)
                BY <2>4 DEF MintHoldsToken
            <4>4. \A u, w \in Visitors, j \in Tokens : VisitHoldsToken(u, j)' /\ VisitHoldsToken(w, j)' => u = w
                BY <4>2 DEF Inv, LocksHold, VisitsHold
            <4>5. \A w \in Visitors, x \in Mints, j \in Tokens : ~(VisitHoldsToken(w, j)' /\ MintHoldsToken(x, j)')
                BY <4>2, <4>3 DEF Inv, LocksHold, VisitsHold
            <4> QED BY <4>1, <4>4, <4>5 DEF VisitsHold, Claimed
        <3>6. OneLiveLink'
            <4>1. \A b \in Accounts : LiveOf(b)' \subseteq LiveOf(b)
                BY <2>2, <2>6 DEF LiveOf
            <4> QED BY <4>1 DEF Inv, LocksHold, OneLiveLink
        <3>7. UsedTokenIsLogin'
            <4> SUFFICES ASSUME NEW b \in Accounts
                         PROVE  /\ \A l, m \in Names : login'[l] = b /\ login'[m] = b => l = m
                                /\ Claimed(b)' <=> \E j \in Tokens : token'[j].clientId = b /\ token'[j].state = "used"
                BY DEF UsedTokenIsLogin
            <4>1. CASE b = a
                BY <2>2, <2>6, <2>7, <2>11, <4>1 DEF Claimed
            <4>2. CASE b # a
                <5>1. \A m \in Names : login'[m] = b <=> login[m] = b
                    BY <1>3, <2>7, <4>2, Sizes
                <5>2. \A j \in Tokens : token'[j].clientId = b /\ token'[j].state = "used" <=> token[j].clientId = b /\ token[j].state = "used"
                    BY <2>6, <4>2
                <5> QED BY <5>1, <5>2 DEF Inv, LocksHold, UsedTokenIsLogin, Claimed
            <4> QED BY <4>1, <4>2
        <3> QED BY <3>1, <3>3, <3>5, <3>6, <3>7 DEF LocksHold
    <2>13. MailsHold'
        <3>1. \A b \in Accounts : Claimed(b) => Claimed(b)'
            BY <2>10, <2>11
        <3>2. \A x \in Mints : mint[x] = NoMint \/ mint[x].step # "idle"
            BY DEF Inv, LocksHold, MintsHold
        <3>3. \A j \in Tokens : /\ token'[j].clientId = token[j].clientId
                                /\ token[j].state = "live" => token'[j].state = "live" \/ \E m \in Names : login'[m] = token[j].clientId
            BY <2>2, <2>6, <2>7
        <3> QED BY <2>4, <2>5, <3>1, <3>2, <3>3, MailsStay
    <2>14. TokensPaidFor'
        <3>1. Tended' = Tended /\ Underway' \subseteq Underway
            BY <2>4 DEF Tended, Event, Underway
        <3>2. Minted' = Minted
            BY <2>2, <2>6 DEF Minted, Unminted
        <3> QED BY <2>4, <2>5, <3>1, <3>2, PaidFrame
    <2> QED BY <2>5, <2>9, <2>12, <2>13, <2>14, TypeParts DEF Inv
<1> QED BY <1>2, <1>3 DEF InsertCredential, RolledBackFor

\* A token that expires is live as far as the table goes.
LEMMA TokenExpiresInv ==
    ASSUME Inv, NEW k \in Tokens, TokenExpires(k)
    PROVE  Inv'
<1>1. KycTypes /\ RelayTypes /\ MailerTypes /\ AuthTypes /\ FaultTypes /\ AnnouncedOnce
    BY TypeParts DEF Inv
<1>2. UNCHANGED <<kycOffset, kycDead, provisioned, outbox, published, relay, topic, offset, mailer, sentFor,
                  dead, mailed, mint, visit, login>>
    BY DEF TokenExpires, kycVars, relayVars, mailerVars
<1>3. KycTypes' /\ RelayTypes' /\ AnnouncedOnce' /\ MailerTypes' /\ Grow
    BY <1>1, <1>2, NothingGrows DEF KycTypes, RelayTypes, AnnouncedOnce, MailerTypes
<1>4. /\ FaultTypes' /\ FaultsSoFar' <= MaxFaults /\ faults'["late"] = faults["late"]
      /\ faults'["mailer"] = faults["mailer"]
    BY <1>1, FaultCounted DEF TokenExpires, FaultKinds
<1>5. /\ token' \in [Tokens -> TokenRows] /\ token[k].state = "live"
      /\ \A j \in Tokens : token'[j].state = token[j].state /\ token'[j].clientId = token[j].clientId
      /\ \A j \in Tokens \ {k} : token'[j] = token[j]
    BY <1>1 DEF TokenExpires, AuthTypes, TokenRows
<1>6. AuthTypes'
    BY <1>1, <1>2, <1>5 DEF AuthTypes
<1>7. LocksHold'
    <2>1. \A i \in DOMAIN mailed : mailed[i] \in Tokens
        BY <1>1, LenProperties DEF MailerTypes
    <2>2. TokensInOrder'
        BY <1>2, <1>5, <2>1 DEF Inv, LocksHold, TokensInOrder
    <2>3. \A a : Claimed(a)' <=> Claimed(a)
        BY <1>2 DEF Claimed
    <2>4. MintsHold'
        <3>1. \A x \in Mints : LiveOf(mint[x].clientId)' = LiveOf(mint[x].clientId)
            BY <1>2, <1>5 DEF LiveOf
        <3>2. \A x \in Mints, a \in Accounts : MintHolds(x, a)' <=> MintHolds(x, a)
            BY <1>2 DEF MintHolds
        <3>3. \A x \in Mints : mint'[x] = mint[x]
            BY <1>2
        <3> QED BY <3>1, <3>2, <3>3 DEF Inv, LocksHold, MintsHold
    <2>5. VisitsHold'
        BY <1>2, <1>5 DEF Inv, LocksHold, VisitsHold, VisitHoldsToken, MintHoldsToken, Claimed
    <2>6. OneLiveLink' /\ UsedTokenIsLogin'
        <3>1. \A a \in Accounts : LiveOf(a)' = LiveOf(a)
            BY <1>5 DEF LiveOf
        <3> QED BY <1>5, <2>3, <3>1, <1>2 DEF Inv, LocksHold, OneLiveLink, UsedTokenIsLogin
    <2> QED BY <2>2, <2>4, <2>5, <2>6 DEF LocksHold
<1>8. MailsHold'
    <2>1. \A a \in Accounts : Claimed(a) => Claimed(a)'
        BY <1>2 DEF Claimed
    <2>2. \A x \in Mints : mint[x] = NoMint \/ mint[x].step # "idle"
        BY DEF Inv, LocksHold, MintsHold
    <2> QED BY <1>2, <1>3, <1>4, <1>5, <2>1, <2>2, MailsStay
<1>9. TokensPaidFor'
    <2>1. Tended' = Tended /\ Underway' \subseteq Underway
        BY <1>2 DEF Tended, Event, Underway
    <2>2. Minted' = Minted
        BY <1>5 DEF Minted, Unminted
    <2> QED BY <1>4, <2>1, <2>2, PaidFrame
<1> QED BY <1>3, <1>4, <1>6, <1>7, <1>8, <1>9, TypeParts DEF Inv

-----------------------------------------------------------------------------
(* The theorems *)

LEMMA InitInv == Init => Inv
<1> SUFFICES ASSUME Init PROVE Inv
    OBVIOUS
<1> USE DEF Init
<1>1. /\ \A k \in Tokens : token[k] = Unminted
      /\ \A x \in Mints : mint[x] = NoMint /\ \A v \in Visitors : visit[v] = NoVisit
      /\ Unminted.state = "none" /\ Unminted.clientId = NoAccount
      /\ NoMint.step = "idle" /\ NoMint.revoking = {} /\ NoMint.awaited = FALSE
      /\ NoVisit.step = "idle" /\ Resting.step = "idle"
    BY DEF Unminted, NoMint, NoVisit, Resting
<1>2. /\ outbox \in Seq(Accounts) /\ DOMAIN outbox = {} /\ mailed \in Seq(Tokens) /\ DOMAIN mailed = {}
      /\ topic \in Seq(DOMAIN outbox) /\ Len(topic) = 0
    BY EmptySeq
<1>3. \A f \in FaultKinds : faults[f] = 0
    OBVIOUS
<1>4. FaultsSoFar = 0
    BY <1>3 DEF FaultsSoFar, FaultKinds
<1>5. TypeOK
    <2>1. KycTypes
        BY <1>2, Sizes DEF KycTypes
    <2>2. RelayTypes
        BY <1>2 DEF RelayTypes, Batches, NoBatch
    <2>3. MailerTypes
        BY <1>2, Sizes DEF MailerTypes
    <2>4. AuthTypes
        BY Sizes DEF AuthTypes
    <2>5. FaultTypes
        BY OnboardingAssumption DEF FaultTypes
    <2> QED BY <2>1, <2>2, <2>3, <2>4, <2>5, TypeParts
<1>6. AnnouncedOnce
    BY <1>2 DEF AnnouncedOnce
<1>7. LocksHold
    <2>1. TokensInOrder
        <3>1. \A k \in Tokens : token[k].state # "none" <=> k <= 0
            BY <1>1, Sizes DEF Tokens
        <3>2. 0 \in 0..(Cardinality(Accounts) + MaxFaults)
            BY Sizes, OnboardingAssumption
        <3> QED BY <1>1, <1>2, <3>1, <3>2 DEF TokensInOrder
    <2>2. MintsHold
        BY <1>1 DEF MintsHold, MintHolds
    <2>3. VisitsHold
        BY <1>1 DEF VisitsHold, VisitHoldsToken
    <2>4. OneLiveLink
        BY <1>1 DEF OneLiveLink, LiveOf
    <2>5. UsedTokenIsLogin
        <3>1. \A a \in Accounts, n \in Names : login[n] # a
            BY OnboardingAssumption
        <3> QED BY <1>1, <3>1 DEF UsedTokenIsLogin, Claimed
    <2> QED BY <2>1, <2>2, <2>3, <2>4, <2>5 DEF LocksHold
<1>8. TokensPaidFor
    <2>1. Minted = {} /\ Underway = {} /\ Tended = {}
        BY <1>1 DEF Minted, Underway, Tended
    <2>2. faults["late"] = 0 /\ faults["mailer"] = 0
        BY <1>3 DEF FaultKinds
    <2> QED BY <1>4, <2>1, <2>2, FS_EmptySet, OnboardingAssumption DEF TokensPaidFor
<1>9. MailsHold
    <2>1. MailerTends /\ NoneLate /\ LatestLinkLives
        BY <1>1 DEF MailerTends, NoneLate, LatestLinkLives
    <2>2. MailsPaidFor
        <3>1. \A a \in Accounts : MailsTo(a) = {}
            BY <1>2 DEF MailsTo
        <3>2. faults["mailer"] = 0
            BY <1>3 DEF FaultKinds
        <3>3. \A a \in Accounts : Cardinality(MailsTo(a)) = 0
            BY <3>1, FS_EmptySet
        <3>4. \A a \in Accounts : 0 <= 0 + (IF Delivered(a) THEN 1 ELSE 0)
            OBVIOUS
        <3> QED BY <3>2, <3>3, <3>4 DEF MailsPaidFor
    <2> QED BY <2>1, <2>2 DEF MailsHold
<1> QED BY <1>5, <1>6, <1>7, <1>8, <1>9 DEF Inv

LEMMA StutterInv ==
    ASSUME Inv, UNCHANGED vars
    PROVE  Inv'
<1>1. /\ UNCHANGED <<kycVars, mailerVars, authVars>> /\ topic' = topic /\ UNCHANGED faults
      /\ published' = published /\ relay' = relay
    BY DEF vars, relayVars
<1>2. published \subseteq DOMAIN outbox /\ relay \in [Relays -> Batches(DOMAIN outbox)]
    BY TypeParts DEF Inv, RelayTypes
<1> QED BY <1>1, <1>2, RelayInv

LEMMA StepInv == Inv /\ [Next]_vars => Inv'
<1> SUFFICES ASSUME Inv, [Next]_vars PROVE Inv'
    OBVIOUS
<1>1. CASE HandleKyc
    BY <1>1, HandleKycInv
<1>2. CASE Mailing
    BY <1>2, TakeEventInv, SendMailInv, RecordSentInv DEF Mailing
<1>3. CASE GiveUpWaiting
    BY <1>3, GiveUpWaitingInv
<1>4. CASE MailerFails
    BY <1>4, MailerFailsInv
<1>5. CASE BreakDeadlock
    BY <1>5, BreakDeadlockInv
<1>6. CASE \E r \in Relays : Relaying(r) \/ SendFails(r) \/ RelayDies(r)
    BY <1>6, RelayStep
<1>7. CASE \E x \in Mints : Minting(x) \/ MintFails(x)
    BY <1>7, LockAccountInv, RevokeEarlierInv, InsertTokenInv, MintFailsInv DEF Minting
<1>8. CASE \E v \in Visitors : \/ Registering(v) \/ RegistrationFails(v)
                               \/ \E k \in Tokens, n \in Names : Submit(v, k, n)
    BY <1>8, ConsumeTokenInv, ClaimAccountInv, InsertCredentialInv, RegistrationFailsInv, SubmitInv DEF Registering
<1>9. CASE \E k \in Tokens : TokenExpires(k)
    BY <1>9, TokenExpiresInv
<1>10. CASE UNCHANGED vars
    BY <1>10, StutterInv
<1> QED BY <1>1, <1>2, <1>3, <1>4, <1>5, <1>6, <1>7, <1>8, <1>9, <1>10 DEF Next

LEMMA InvHolds == Spec => []Inv
BY InitInv, StepInv, PTL DEF Spec

\* Offsets stay within their topics, every id is one that was given out, and there is
\* always a row for the next token: no account and no fault pays for two.
THEOREM TypeCorrect == Spec => []TypeOK
<1>1. Inv => TypeOK
    BY DEF Inv
<1> QED BY <1>1, InvHolds, PTL

\* replaceFor's locks suffice: however many mints and registrations overlap, fail or are
\* ended by the database, a client has one live link at most.
THEOREM OneLinkLives == Spec => []OneLiveLink
<1>1. Inv => OneLiveLink
    BY DEF Inv, LocksHold
<1> QED BY <1>1, InvHolds, PTL

\* consume, claim and insert are one transaction: an account has one login, exactly when
\* one of its tokens was used.
THEOREM LoginsForUsedTokens == Spec => []UsedTokenIsLogin
<1>1. Inv => UsedTokenIsLogin
    BY DEF Inv, LocksHold
<1> QED BY <1>1, InvHolds, PTL

\* At-least-once delivery at every hop costs no second activation email: only failures of
\* the mailer after a mail do, one each.
THEOREM OneMailEach == Spec => []OneMail
<1>1. Inv => OneMail
    <2> SUFFICES ASSUME Inv, NEW a \in Accounts
                 PROVE  Cardinality(MailsTo(a)) <= 1 + faults["mailer"]
        BY DEF OneMail
    <2>1. Cardinality(MailsTo(a)) <= faults["mailer"] + (IF Delivered(a) THEN 1 ELSE 0)
        BY DEF Inv, MailsHold, MailsPaidFor
    <2>2. faults["mailer"] \in Nat
        BY Counts DEF Inv
    <2>3. Cardinality(MailsTo(a)) \in Nat
        <3>1. IsFiniteSet(DOMAIN mailed) /\ MailsTo(a) \in SUBSET DOMAIN mailed
            <4>1. DOMAIN mailed = 1..Len(mailed) /\ Len(mailed) \in Nat
                BY TypeParts, LenProperties DEF Inv, MailerTypes
            <4> QED BY <4>1, FS_Interval DEF MailsTo
        <3> QED BY <3>1, FS_Subset, FS_CardinalityType
    <2> QED BY <2>1, <2>2, <2>3
<1> QED BY <1>1, InvHolds, PTL

\* As long as the mailer never stopped waiting for a mint: once a mail to an account is
\* recorded, the link of the latest mail to it works or has done its work.  Of mails not
\* recorded yet, and of what follows a late mint, nothing is claimed.
THEOREM LatestLinkWorks == Spec => []LatestLinkLives
<1>1. Inv => LatestLinkLives
    BY DEF Inv, MailsHold
<1> QED BY <1>1, InvHolds, PTL
=============================================================================
