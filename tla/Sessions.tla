------------------------------ MODULE Sessions ------------------------------
(***************************************************************************)
(* Signed-in sessions: the Auth service's refresh tokens, and the browser  *)
(* tabs that hold them.                                                    *)
(*                                                                         *)
(* A refresh token works once.  Exchanging it is three statements without  *)
(* a transaction: read the row, mark it exchanged if it is not, insert the *)
(* next one; presenting a spent token revokes every live one of its user.  *)
(* A tab renews its access token on a timer and, when that has run out, in *)
(* the route guard, one exchange at a time; it may be reloaded, duplicated *)
(* or signed out while an exchange is on its way, and an answer may be     *)
(* lost after the service has acted.                                       *)
(*                                                                         *)
(* Passwords are right here: what a wrong one does is LoginThrottle's.     *)
(* Storage always takes a write, so it holds what memory holds.            *)
(***************************************************************************)
EXTENDS Integers, FiniteSets

CONSTANTS
    Users, NoUser, \* credentials, and none
    Tabs, Nobody,  \* browser tabs, and the caller who stopped listening
    MaxCalls,      \* bound: requests the service works on at once
    MaxTokens,     \* bound: refresh tokens ever issued
    MaxFaults      \* bound: lost answers, failures, reloads, duplicated tabs, expiries

ASSUME SessionsAssumption ==
    /\ NoUser \notin Users /\ Nobody \notin Tabs
    /\ MaxCalls \in Nat /\ MaxTokens \in Nat /\ MaxFaults \in Nat

Calls == 1..MaxCalls
Tokens == 1..MaxTokens
NoToken == 0

VARIABLES
    row,     \* refresh_token: its rows by token
    revoked, \* tokens that an alarm spent, not an exchange
    issued,  \* how many were issued: the last one's name
    calls,   \* requests on their way, in the service or being answered
    tabs,    \* each tab's Session, SessionRefresh and screen
    wanted,  \* whom each tab's customer last signed in as, NoUser once signed out
    refused, \* tabs whose session a refusal ended
    faults

vars == <<row, revoked, issued, calls, tabs, wanted, refused, faults>>

Unissued == [owner |-> NoUser, spent |-> FALSE, parent |-> NoToken, expired |-> FALSE]
NoCall == [kind |-> "none", tab |-> Nobody, user |-> NoUser, token |-> NoToken,
           step |-> "idle", result |-> "none", new |-> NoToken]
Closed == [access |-> "none", refresh |-> NoToken, timer |-> FALSE,
           waiting |-> {}, page |-> "signIn"]

Init ==
    /\ row = [k \in Tokens |-> Unissued] /\ revoked = {} /\ issued = 0
    /\ calls = [c \in Calls |-> NoCall]
    /\ tabs = [t \in Tabs |-> Closed]
    /\ wanted = [t \in Tabs |-> NoUser]
    /\ refused = {} /\ faults = 0

Fault == faults < MaxFaults /\ faults' = faults + 1

-----------------------------------------------------------------------------
(* The Auth service: one request is a sequence of statements. *)

\* The answer to call c; nobody reads it when the tab is gone.
Answer(c, result, new) ==
    calls' = [calls EXCEPT ![c] =
                 IF @.tab = Nobody THEN NoCall
                 ELSE [@ EXCEPT !.step = "answered", !.result = result, !.new = new]]

Find(c) ==
    LET stored == row[calls[c].token] IN
    /\ calls[c].step = "find"
    /\ IF stored.expired THEN Answer(c, "refused", NoToken)
       ELSE calls' = [calls EXCEPT ![c].step = IF stored.spent THEN "revoke" ELSE "mark",
                                   ![c].user = stored.owner]
    /\ UNCHANGED <<row, revoked, issued, tabs, wanted, refused, faults>>

\* Broken variant: markExchanged without AND exchanged_at IS NULL.
AnyRow(k) == TRUE

\* The row an UPDATE ... AND exchanged_at IS NULL still finds.
Unspent(k) == ~row[k].spent

MarkExchanged(c) ==
    LET k == calls[c].token IN
    /\ calls[c].step = "mark"
    /\ IF Unspent(k)
       THEN /\ row' = [row EXCEPT ![k].spent = TRUE]
            /\ calls' = [calls EXCEPT ![c].step = "issue"]
       ELSE Answer(c, "refused", NoToken) /\ UNCHANGED row
    /\ UNCHANGED <<revoked, issued, tabs, wanted, refused, faults>>

RevokeAll(c) ==
    LET live == {k \in Tokens : row[k].owner = calls[c].user /\ ~row[k].spent} IN
    /\ calls[c].step = "revoke"
    /\ row' = [k \in Tokens |-> IF k \in live THEN [row[k] EXCEPT !.spent = TRUE] ELSE row[k]]
    /\ revoked' = revoked \cup live
    /\ Answer(c, "refused", NoToken)
    /\ UNCHANGED <<issued, tabs, wanted, refused, faults>>

\* The new pair, of a sign-in or of an exchange.
Issue(c) ==
    /\ calls[c].step = "issue" /\ issued < MaxTokens
    /\ issued' = issued + 1
    /\ row' = [row EXCEPT ![issued'] = [owner |-> calls[c].user, spent |-> FALSE,
                                        parent |-> calls[c].token, expired |-> FALSE]]
    /\ Answer(c, "ok", issued')
    /\ UNCHANGED <<revoked, tabs, wanted, refused, faults>>

\* Seven days pass.
TokenExpires(k) ==
    /\ k <= issued /\ ~row[k].expired
    /\ row' = [row EXCEPT ![k].expired = TRUE]
    /\ Fault
    /\ UNCHANGED <<revoked, issued, calls, tabs, wanted, refused>>

\* A statement fails or the process dies: what was committed stays.
ServiceFails(c) ==
    /\ calls[c].step \in {"find", "mark", "revoke", "issue"}
    /\ Answer(c, "failed", NoToken)
    /\ Fault
    /\ UNCHANGED <<row, revoked, issued, tabs, wanted, refused>>

-----------------------------------------------------------------------------
(* A tab. *)

\* Broken variant: renew() without inFlight.
NeverExchanging(t) == FALSE

\* The exchange SessionRefresh.inFlight stands for.
Exchanging(t) == \E c \in Calls : calls[c].kind = "refresh" /\ calls[c].tab = t

SigningIn(t) == \E c \in Calls : calls[c].kind = "login" /\ calls[c].tab = t

\* Broken variant: start() called without the refresh token, which then is null.
StartedWithout(tab, k) == [tab EXCEPT !.access = "fresh", !.refresh = NoToken, !.timer = TRUE]

\* Session.start, and the effect that schedules the next renewal.
Started(tab, k) == [tab EXCEPT !.access = "fresh", !.refresh = k, !.timer = TRUE]

\* Session.end, and the effect that cancels the scheduled renewal.
Ended(tab) == [tab EXCEPT !.access = "none", !.refresh = NoToken, !.timer = FALSE]

\* The tokens that the requests cs may still issue: the bound on tokens leaves room for them.
StillToIssue(cs) ==
    Cardinality({c \in Calls : cs[c].step = "issue"})
    + Cardinality({k \in Tokens : ~row[k].spent
                     /\ \E c \in Calls : cs[c].step \in {"find", "mark"} /\ cs[c].token = k})

Send(call) ==
    \E c \in Calls :
        /\ calls[c] = NoCall
        /\ \A d \in Calls : calls[d] = NoCall => c <= d
        /\ calls' = [calls EXCEPT ![c] = call]
        /\ issued + StillToIssue(calls') <= MaxTokens

\* SessionRefresh.renew for the guard or the timer: joins the exchange under way,
\* or starts one with the refresh token of tab t, whose record is now tab.
Renew(t, tab, caller) ==
    /\ tabs' = [tabs EXCEPT ![t] = [tab EXCEPT !.waiting = @ \cup {caller}]]
    /\ \/ Exchanging(t) /\ UNCHANGED calls
       \/ /\ ~Exchanging(t)
          /\ tab.refresh # NoToken
          /\ Send([NoCall EXCEPT !.kind = "refresh", !.tab = t,
                                 !.token = tab.refresh, !.step = "find"])

\* Session.isSignedIn: the access token is there and has not run out.
IsSignedIn(t) == tabs[t].access \in {"fresh", "lapsing"}

\* authGuard: a signed-in tab passes; otherwise the expired token is cleared and a
\* renewal decides.
Navigate(t) ==
    LET cleared == [tabs[t] EXCEPT !.access = "none", !.timer = FALSE] IN
    /\ \/ /\ IsSignedIn(t)
          /\ tabs' = [tabs EXCEPT ![t].page = "app"]
          /\ UNCHANGED calls
       \/ ~IsSignedIn(t) /\ Renew(t, cleared, "guard")
       \/ /\ ~IsSignedIn(t) /\ ~Exchanging(t) /\ tabs[t].refresh = NoToken
          /\ tabs' = [tabs EXCEPT ![t] = [cleared EXCEPT !.page = "signIn"]]
          /\ UNCHANGED calls
    /\ UNCHANGED <<row, revoked, issued, wanted, refused, faults>>

RenewOnTime(t) ==
    /\ tabs[t].timer
    /\ Renew(t, [tabs[t] EXCEPT !.timer = FALSE], "timer")
    /\ UNCHANGED <<row, revoked, issued, wanted, refused, faults>>

\* The access token ages: fresh until thirty seconds before its end, when a failed
\* renewal is no longer tried again.
Age(t) ==
    /\ tabs[t].access \in {"fresh", "lapsing"}
    /\ tabs' = [tabs EXCEPT ![t].access = IF @ = "fresh" THEN "lapsing" ELSE "expired"]
    /\ UNCHANGED <<row, revoked, issued, calls, wanted, refused, faults>>

\* Broken variant: renewOnTime gives up after one failure.
GivesUp(tab, renewed) ==
    [tab EXCEPT !.waiting = {},
                !.page = IF "guard" \in tab.waiting THEN IF renewed THEN "app" ELSE "signIn" ELSE @]

\* What renew()'s two callers do with its answer, on the record tab that exchange()
\* left: the guard lets the customer in or sends them to sign-in; the timer does so
\* when the session is over, and otherwise tries again.
Resolved(tab, renewed) ==
    LET over == "timer" \in tab.waiting /\ tab.refresh = NoToken IN
    [tab EXCEPT !.waiting = {},
                !.page = IF renewed THEN IF "guard" \in tab.waiting THEN "app" ELSE @
                         ELSE IF "guard" \in tab.waiting \/ over THEN "signIn" ELSE @,
                !.timer = @ \/ (~renewed /\ "timer" \in tab.waiting /\ ~over /\ tab.access = "fresh")]

\* exchange(): the answer is applied to whatever session the tab has by now.
ReceiveRenewal(t, c) ==
    /\ calls[c].kind = "refresh" /\ calls[c].tab = t /\ calls[c].step = "answered"
    /\ \/ /\ calls[c].result = "ok"
          /\ tabs' = [tabs EXCEPT ![t] = Resolved(Started(@, calls[c].new), TRUE)]
          /\ UNCHANGED refused
       \/ /\ calls[c].result = "refused"
          /\ tabs' = [tabs EXCEPT ![t] = Resolved(Ended(@), FALSE)]
          /\ refused' = refused \cup {t}
       \/ /\ calls[c].result = "failed"
          /\ tabs' = [tabs EXCEPT ![t] = Resolved(@, FALSE)]
          /\ UNCHANGED refused
    /\ calls' = [calls EXCEPT ![c] = NoCall]
    /\ UNCHANGED <<row, revoked, issued, wanted, faults>>

\* Broken variant: the failure never reaches the callers of renew().
LoseSilently(t, c) ==
    /\ calls[c].tab = t
    /\ calls' = [calls EXCEPT ![c] = [@ EXCEPT !.tab = Nobody]]
    /\ Fault
    /\ UNCHANGED <<row, revoked, issued, tabs, wanted, refused>>

\* The network gives up on a call the service may go on working on.
LoseAnswer(t, c) ==
    /\ calls[c].tab = t
    /\ calls' = [calls EXCEPT ![c] = IF @.step = "answered" THEN NoCall
                                     ELSE [@ EXCEPT !.tab = Nobody]]
    /\ tabs' = IF calls[c].kind = "refresh" THEN [tabs EXCEPT ![t] = Resolved(@, FALSE)] ELSE tabs
    /\ Fault
    /\ UNCHANGED <<row, revoked, issued, wanted, refused>>

\* The sign-in form, one submission at a time.
SignIn(t, u) ==
    /\ tabs[t].page = "signIn" /\ ~SigningIn(t)
    /\ Send([NoCall EXCEPT !.kind = "login", !.tab = t, !.user = u, !.step = "issue"])
    /\ UNCHANGED <<row, revoked, issued, tabs, wanted, refused, faults>>

ReceiveSignIn(t, c) ==
    /\ calls[c].kind = "login" /\ calls[c].tab = t /\ calls[c].step = "answered"
    /\ IF calls[c].result = "ok"
       THEN /\ tabs' = [tabs EXCEPT ![t] = [Started(@, calls[c].new) EXCEPT !.page = "app"]]
            /\ wanted' = [wanted EXCEPT ![t] = calls[c].user]
       ELSE UNCHANGED <<tabs, wanted>>
    /\ calls' = [calls EXCEPT ![c] = NoCall]
    /\ UNCHANGED <<row, revoked, issued, refused, faults>>

\* The header's button is there while the tab holds an access token.
SignOut(t) ==
    /\ tabs[t].access # "none"
    /\ tabs' = [tabs EXCEPT ![t] = [Ended(@) EXCEPT !.page = "signIn"]]
    /\ wanted' = [wanted EXCEPT ![t] = NoUser]
    /\ UNCHANGED <<row, revoked, issued, calls, refused, faults>>

\* The stored pair read back, and the renewal its access token schedules.
Restored(tab) ==
    [Closed EXCEPT !.access = tab.access, !.refresh = tab.refresh,
                   !.timer = tab.access # "none" /\ tab.refresh # NoToken]

\* Nobody waits any more for what tab t had asked.
Abandoned(t) ==
    [c \in Calls |-> IF calls[c].tab # t THEN calls[c]
                     ELSE IF calls[c].step = "answered" THEN NoCall
                     ELSE [calls[c] EXCEPT !.tab = Nobody]]

Reload(t) ==
    /\ tabs[t] # Closed
    /\ tabs' = [tabs EXCEPT ![t] = Restored(@)]
    /\ calls' = Abandoned(t)
    /\ Fault
    /\ UNCHANGED <<row, revoked, issued, wanted, refused>>

\* The browser copies a tab's sessionStorage into its duplicate.
Duplicate(t, s) ==
    /\ IsSignedIn(t) /\ tabs[s] = Closed /\ \A c \in Calls : calls[c].tab # s
    /\ tabs' = [tabs EXCEPT ![s] = Restored(tabs[t])]
    /\ wanted' = [wanted EXCEPT ![s] = wanted[t]]
    /\ Fault
    /\ UNCHANGED <<row, revoked, issued, calls, refused>>

-----------------------------------------------------------------------------
Serve(c) == Find(c) \/ MarkExchanged(c) \/ RevokeAll(c) \/ Issue(c)
Receive(t) == \E c \in Calls : ReceiveRenewal(t, c) \/ ReceiveSignIn(t, c)

Next ==
    \/ \E c \in Calls : Serve(c) \/ ServiceFails(c)
    \/ \E k \in Tokens : TokenExpires(k)
    \/ \E t \in Tabs : \/ Navigate(t) \/ RenewOnTime(t) \/ Age(t) \/ SignOut(t) \/ Reload(t)
                       \/ Receive(t)
                       \/ \E c \in Calls : LoseAnswer(t, c)
                       \/ \E u \in Users : SignIn(t, u)
                       \/ \E s \in Tabs : Duplicate(t, s)

\* The service works on what it has received, and the browser's answers arrive; no
\* tab has to navigate, and no timer has to be on time.
Fairness ==
    /\ \A c \in Calls : WF_vars(Serve(c))
    /\ \A t \in Tabs : WF_vars(Receive(t))

Spec == Init /\ [][Next]_vars
FairSpec == Spec /\ Fairness

-----------------------------------------------------------------------------
TokenRows == [owner : Users \cup {NoUser}, spent : BOOLEAN,
              parent : Tokens \cup {NoToken}, expired : BOOLEAN]
CallRecords == [kind : {"none", "login", "refresh"}, tab : Tabs \cup {Nobody},
                user : Users \cup {NoUser}, token : Tokens \cup {NoToken},
                step : {"idle", "find", "mark", "revoke", "issue", "answered"},
                result : {"none", "ok", "refused", "failed"}, new : Tokens \cup {NoToken}]
TabRecords == [access : {"none", "fresh", "lapsing", "expired"}, refresh : Tokens \cup {NoToken},
               timer : BOOLEAN, waiting : SUBSET {"guard", "timer"}, page : {"signIn", "app"}]

\* Types; and an access token, or a renewal scheduled, comes with the refresh token
\* that renews it (Session.start keeps the pair).
TypeOK ==
    /\ row \in [Tokens -> TokenRows] /\ revoked \in SUBSET Tokens /\ issued \in 0..MaxTokens
    /\ calls \in [Calls -> CallRecords]
    /\ tabs \in [Tabs -> TabRecords]
    /\ \A t \in Tabs : tabs[t].access # "none" \/ tabs[t].timer => tabs[t].refresh # NoToken
    /\ wanted \in [Tabs -> Users \cup {NoUser}]
    /\ refused \in SUBSET Tabs /\ faults \in 0..MaxFaults

\* A refresh token buys one new pair, however many exchanges present it at once: the
\* conditional UPDATE of markExchanged decides, not the row read before it.
OneSuccessor ==
    \A j, k \in Tokens : row[j].parent = row[k].parent /\ row[j].parent # NoToken => j = k

\* A token that the replay alarm revoked never buys a pair, whatever exchange of it had
\* already read it as live.
RevokedIsDead == \A k \in Tokens : row[k].parent \notin revoked

\* With no answer lost, no failure, reload, duplicated tab or expiry, no customer is
\* ever signed out by a refusal: no tab presents a refresh token twice
\* (SessionRefresh: one exchange at a time).
SignedOutForCause == refused # {} => faults > 0

\* While the access token is far from its end, its renewal is scheduled or under way:
\* a renewal that failed, a sign-in or a reload in the middle of one leaves no signed-in
\* tab that nobody will renew.
RenewalUnderWay ==
    \A t \in Tabs : tabs[t].access = "fresh" =>
        tabs[t].timer \/ (Exchanging(t) /\ "timer" \in tabs[t].waiting)

\* A navigation that waits for a renewal is decided: the guard never leaves the
\* customer on a blank screen.
GuardDecides == \A t \in Tabs : "guard" \in tabs[t].waiting ~> "guard" \notin tabs[t].waiting

\* What the specs of SessionRefresh say: sign-out stops the renewal.  A tab holds a
\* session of the customer who last signed in there, and of none once they signed out.
SignOutStopsRenewal ==
    \A t \in Tabs : tabs[t].access # "none" => row[tabs[t].refresh].owner = wanted[t]
=============================================================================
