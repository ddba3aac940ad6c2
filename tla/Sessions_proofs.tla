--------------------------- MODULE Sessions_proofs ---------------------------
(***************************************************************************)
(* What the refresh tokens promise, for any users, tabs, tokens, requests  *)
(* and faults.  The row of a token is marked before its successor exists,  *)
(* and a request that has marked one is the only one that may insert for   *)
(* it; the rest is knowing which tokens were issued.  Until the first      *)
(* fault, every token is with one tab or on its way to one (Calm).  At the *)
(* end, what the throttle of the same service's login route bounds.        *)
(***************************************************************************)
EXTENDS Sessions, LoginThrottle, FiniteSetTheorems, TLAPS

\* The types in parts, for the steps that disturb one of them.
RowsOK == row \in [Tokens -> TokenRows] /\ revoked \in SUBSET Tokens /\ issued \in 0..MaxTokens
TabOK(tab) ==
    tab \in TabRecords /\ (tab.access # "none" \/ tab.timer => tab.refresh # NoToken)
TabsOK == tabs \in [Tabs -> TabRecords] /\ \A t \in Tabs : TabOK(tabs[t])

\* What is known of a request once n tokens were issued: those it names were, and it has
\* the ones its step needs.
CallKnown(call, n) ==
    /\ call \in CallRecords
    /\ call.token <= n /\ call.new <= n
    /\ call.step \in {"find", "mark", "revoke"} => call.token # NoToken
    /\ call.step \in {"mark", "revoke", "issue"} => call.user \in Users
    /\ call.step = "answered" /\ call.result = "ok" => call.new # NoToken

Known ==
    /\ calls \in [Calls -> CallRecords]
    /\ \A c \in Calls : CallKnown(calls[c], issued)
    /\ \A t \in Tabs : tabs[t].refresh <= issued
    /\ \A k \in Tokens : IF k <= issued THEN row[k].owner \in Users ELSE row[k] = Unissued

RestOK == wanted \in [Tabs -> Users \cup {NoUser}] /\ refused \in SUBSET Tabs /\ faults \in 0..MaxFaults

Types == RowsOK /\ TabsOK /\ Known /\ RestOK

\* A request that inserts a successor has its token marked, unrevoked and to itself.
Inserting(c) == calls[c].step = "issue" /\ calls[c].token # NoToken
Marked ==
    /\ \A k \in Tokens : row[k].parent # NoToken => row[row[k].parent].spent
    /\ \A k \in revoked : row[k].spent
    /\ \A c \in Calls : Inserting(c) =>
          /\ row[calls[c].token].spent /\ calls[c].token \notin revoked
          /\ \A k \in Tokens : row[k].parent # calls[c].token
    /\ \A c, d \in Calls : Inserting(c) /\ Inserting(d) /\ calls[c].token = calls[d].token => c = d

Inv == Types /\ Marked /\ OneSuccessor /\ RevokedIsDead /\ RenewalUnderWay

LEMMA TokensNat == Tokens \subseteq Nat \ {0} /\ Calls \subseteq Nat /\ NoToken \notin Tokens
BY SessionsAssumption DEF Tokens, Calls, NoToken

LEMMA NoTokenNat == NoToken \in Nat
BY DEF NoToken

\* The tokens that requests and tabs name.
LEMMA TokenFields ==
    /\ \A call \in CallRecords : call.token \in Tokens \cup {NoToken} /\ call.new \in Tokens \cup {NoToken}
    /\ \A tab \in TabRecords : tab.refresh \in Tokens \cup {NoToken}
    /\ \A k \in Tokens \cup {NoToken} : k \in Nat
<1>1. \A call \in CallRecords : call.token \in Tokens \cup {NoToken} /\ call.new \in Tokens \cup {NoToken}
    BY DEF CallRecords
<1>2. \A tab \in TabRecords : tab.refresh \in Tokens \cup {NoToken}
    BY DEF TabRecords
<1> QED BY <1>1, <1>2, TokensNat, NoTokenNat

LEMMA TypesInParts == Types => TypeOK
BY DEF Types, RowsOK, TabsOK, TabOK, Known, RestOK, TypeOK

LEMMA InitInv == Init => Inv
<1> SUFFICES ASSUME Init PROVE Inv
    OBVIOUS
<1> USE SessionsAssumption, TokensNat
<1>1. NoCall \in CallRecords /\ Unissued \in TokenRows
    BY DEF NoCall, Unissued, CallRecords, TokenRows
<1>2. TabOK(Closed)
    BY DEF Closed, TabRecords, TabOK
<1>3. RowsOK
    BY <1>1 DEF Init, RowsOK
<1>4. TabsOK
    BY <1>2 DEF Init, TabsOK, TabOK
<1>5. Known
    <2>1. \A c \in Calls : CallKnown(calls[c], issued)
        BY <1>1 DEF Init, CallKnown, NoCall, NoToken
    <2>2. \A t \in Tabs : tabs[t].refresh <= issued
        BY DEF Init, Closed, NoToken
    <2> QED BY <1>1, <2>1, <2>2 DEF Init, Known
<1>6. Marked
    BY DEF Init, Marked, Inserting, Unissued, NoCall
<1>7. OneSuccessor /\ RevokedIsDead
    BY DEF Init, OneSuccessor, RevokedIsDead, Unissued
<1>8. RenewalUnderWay
    BY DEF Init, RenewalUnderWay, Closed
<1>9. RestOK
    BY DEF Init, RestOK
<1> QED BY <1>3, <1>4, <1>5, <1>6, <1>7, <1>8, <1>9 DEF Inv, Types

-----------------------------------------------------------------------------
(* What the helpers of the service and of the tab do                       *)

\* The request answered: gone when nobody listens, and otherwise only told the result.
LEMMA Answered ==
    ASSUME Inv, NEW c \in Calls, NEW result \in {"ok", "refused", "failed"},
           NEW new \in Tokens \cup {NoToken}, Answer(c, result, new)
    PROVE  /\ calls' \in [Calls -> CallRecords]
           /\ \A d \in Calls \ {c} : calls'[d] = calls[d]
           /\ calls'[c].token \in {calls[c].token, NoToken}
           /\ calls'[c].new \in {new, NoToken}
           /\ calls'[c] = NoCall \/ (calls'[c].step = "answered" /\ calls'[c].result = result /\ calls'[c].new = new)
           /\ \A t \in Tabs : Exchanging(t) => Exchanging(t)'
<1> USE SessionsAssumption, TokensNat
<1>1. calls \in [Calls -> CallRecords]
    BY DEF Inv, Types, Known
<1>2. NoCall \in CallRecords
    BY DEF NoCall, CallRecords
<1>3. CASE calls[c].tab = Nobody
    <2>1. calls' = [calls EXCEPT ![c] = NoCall]
        BY <1>3 DEF Answer
    <2>2. \A t \in Tabs : Exchanging(t) => Exchanging(t)'
        BY <1>1, <1>3, <2>1 DEF Exchanging
    <2> QED BY <1>1, <1>2, <2>1, <2>2 DEF NoCall
<1>4. CASE calls[c].tab # Nobody
    <2>1. calls' = [calls EXCEPT ![c] = [calls[c] EXCEPT !.step = "answered", !.result = result, !.new = new]]
        BY <1>4 DEF Answer
    <2>2. calls[c] \in CallRecords
        BY <1>1
    <2>3. calls' \in [Calls -> CallRecords]
        <3> DEFINE call == [calls[c] EXCEPT !.step = "answered", !.result = result, !.new = new]
        <3>1. call \in CallRecords
            BY <2>2 DEF CallRecords
        <3>2. calls' = [calls EXCEPT ![c] = call]
            BY <2>1
        <3> HIDE DEF call
        <3> QED BY <1>1, <3>1, <3>2
    <2>4. /\ calls'[c].tab = calls[c].tab /\ calls'[c].kind = calls[c].kind
          /\ calls'[c].token = calls[c].token /\ calls'[c].new = new
          /\ calls'[c].step = "answered" /\ calls'[c].result = result
          /\ \A d \in Calls \ {c} : calls'[d] = calls[d]
        BY <1>1, <2>1, <2>2 DEF CallRecords
    <2>5. \A t \in Tabs : Exchanging(t) => Exchanging(t)'
        BY <2>4 DEF Exchanging
    <2> QED BY <2>3, <2>4, <2>5
<1> QED BY <1>3, <1>4

LEMMA StartedOK ==
    ASSUME NEW tab \in TabRecords, NEW k \in Tokens
    PROVE  /\ TabOK(Started(tab, k)) /\ Started(tab, k).refresh = k
           /\ Started(tab, k).timer /\ Started(tab, k).waiting = tab.waiting
BY TokensNat DEF TabOK, Started, TabRecords

LEMMA EndedOK ==
    ASSUME NEW tab \in TabRecords
    PROVE  TabOK(Ended(tab)) /\ Ended(tab).refresh = NoToken /\ Ended(tab).access = "none"
BY DEF TabOK, Ended, TabRecords

LEMMA RestoredOK ==
    ASSUME NEW tab, TabOK(tab)
    PROVE  /\ TabOK(Restored(tab)) /\ Restored(tab).refresh = tab.refresh
           /\ Restored(tab).access = "fresh" => Restored(tab).timer
BY DEF TabOK, Restored, Closed, TabRecords

\* A renewal that the timer waited for and that failed is scheduled again.
LEMMA ResolvedOK ==
    ASSUME NEW tab, TabOK(tab), NEW renewed \in BOOLEAN
    PROVE  /\ TabOK(Resolved(tab, renewed)) /\ Resolved(tab, renewed).refresh = tab.refresh
           /\ Resolved(tab, renewed).access = tab.access
           /\ tab.timer => Resolved(tab, renewed).timer
           /\ tab.access = "fresh" /\ ~renewed /\ "timer" \in tab.waiting => Resolved(tab, renewed).timer
<1> DEFINE over == "timer" \in tab.waiting /\ tab.refresh = NoToken
           page == IF renewed THEN IF "guard" \in tab.waiting THEN "app" ELSE tab.page
                   ELSE IF "guard" \in tab.waiting \/ over THEN "signIn" ELSE tab.page
           timer == tab.timer \/ (~renewed /\ "timer" \in tab.waiting /\ ~over /\ tab.access = "fresh")
<1>1. Resolved(tab, renewed) = [tab EXCEPT !.waiting = {}, !.page = page, !.timer = timer]
    BY DEF Resolved
<1>2. page \in {"signIn", "app"} /\ timer \in BOOLEAN
    BY DEF TabOK, TabRecords
<1>3. timer => tab.timer \/ tab.access # "none"
    OBVIOUS
<1>4. tab.access = "fresh" => ~over
    BY DEF TabOK
<1> HIDE DEF page, timer
<1>5. Resolved(tab, renewed) \in TabRecords
    BY <1>1, <1>2 DEF TabOK, TabRecords
<1>6. /\ Resolved(tab, renewed).refresh = tab.refresh /\ Resolved(tab, renewed).access = tab.access
      /\ Resolved(tab, renewed).timer = timer
    BY <1>1 DEF TabOK, TabRecords
<1> QED BY <1>3, <1>4, <1>5, <1>6 DEF TabOK, timer
-----------------------------------------------------------------------------
(* What the invariant asks of a step                                       *)

\* A request answered leaves the others alone, and inserts nothing any more.
LEMMA AnsweredKnown ==
    ASSUME Inv, NEW c \in Calls, NEW result \in {"ok", "refused", "failed"},
           NEW new \in Tokens \cup {NoToken}, Answer(c, result, new),
           issued' \in 0..MaxTokens, issued <= issued', new <= issued', result = "ok" => new # NoToken
    PROVE  /\ calls' \in [Calls -> CallRecords]
           /\ \A d \in Calls : CallKnown(calls[d], issued)'
           /\ \A d \in Calls : Inserting(d)' => d # c /\ Inserting(d) /\ calls'[d] = calls[d]
           /\ \A t \in Tabs : Exchanging(t) => Exchanging(t)'
<1> USE SessionsAssumption, TokensNat
<1>1. /\ calls' \in [Calls -> CallRecords]
      /\ \A d \in Calls \ {c} : calls'[d] = calls[d]
      /\ calls'[c].token \in {calls[c].token, NoToken}
      /\ calls'[c].new \in {new, NoToken}
      /\ calls'[c] = NoCall \/ (calls'[c].step = "answered" /\ calls'[c].result = result /\ calls'[c].new = new)
      /\ \A t \in Tabs : Exchanging(t) => Exchanging(t)'
    BY Answered
<1>2. /\ \A d \in Calls : CallKnown(calls[d], issued) /\ calls[d] \in CallRecords
      /\ issued \in Nat /\ issued' \in Nat
    <2>1. Known /\ RowsOK
        BY DEF Inv, Types
    <2>2. issued \in Nat /\ issued' \in Nat
        BY <2>1 DEF RowsOK
    <2> QED BY <2>1, <2>2 DEF Known
<1>3. \A d \in Calls \ {c} : CallKnown(calls[d], issued)'
    <2> TAKE d \in Calls \ {c}
    <2>1. calls'[d] = calls[d] /\ CallKnown(calls[d], issued)
        BY <1>1, <1>2
    <2>2. calls[d].token \in Nat /\ calls[d].new \in Nat
        BY <1>2, TokenFields
    <2>3. calls[d].token <= issued' /\ calls[d].new <= issued'
        BY <1>2, <2>1, <2>2 DEF CallKnown
    <2> QED BY <2>1, <2>3 DEF CallKnown
<1>4. CallKnown(calls[c], issued)'
    <2>1. calls'[c].token <= issued'
        <3>1. calls[c].token \in Nat /\ calls[c].token <= issued
            BY <1>2, TokenFields DEF CallKnown
        <3> QED BY <1>1, <1>2, <3>1 DEF NoToken
    <2>2. calls'[c].new <= issued'
        BY <1>1, <1>2 DEF NoToken
    <2>3. calls'[c] \in CallRecords
        BY <1>1
    <2>4. CASE calls'[c] = NoCall
        BY <2>1, <2>2, <2>3, <2>4 DEF CallKnown, NoCall
    <2>5. CASE calls'[c].step = "answered" /\ calls'[c].result = result /\ calls'[c].new = new
        BY <2>1, <2>2, <2>3, <2>5 DEF CallKnown
    <2> QED BY <1>1, <2>4, <2>5
<1>5. ~Inserting(c)'
    BY <1>1 DEF Inserting, NoCall
<1> QED BY <1>1, <1>3, <1>4, <1>5 DEF Inserting

\* Steps that leave the rows alone: no request comes to insert.
LEMMA RowsKept ==
    ASSUME Inv, UNCHANGED <<row, revoked, issued>>,
           calls' \in [Calls -> CallRecords], \A c \in Calls : CallKnown(calls[c], issued)',
           \A c \in Calls : Inserting(c)' => Inserting(c) /\ calls'[c].token = calls[c].token
    PROVE  /\ Marked' /\ OneSuccessor' /\ RevokedIsDead' /\ RowsOK'
           /\ (\A t \in Tabs : (tabs[t].refresh <= issued)') => Known'
<1>1. Marked'
    BY DEF Inv, Marked, Inserting
<1>2. OneSuccessor' /\ RevokedIsDead' /\ RowsOK'
    BY DEF Inv, Types, OneSuccessor, RevokedIsDead, RowsOK
<1>3. (\A t \in Tabs : (tabs[t].refresh <= issued)') => Known'
    BY DEF Inv, Types, Known
<1> QED BY <1>1, <1>2, <1>3

\* Steps that leave the tabs alone and end no exchange of theirs.
LEMMA TabsKept ==
    ASSUME Inv, UNCHANGED tabs, \A t \in Tabs : Exchanging(t) => Exchanging(t)',
           issued' \in 0..MaxTokens, issued <= issued'
    PROVE  TabsOK' /\ RenewalUnderWay' /\ \A t \in Tabs : (tabs[t].refresh <= issued)'
<1>1. TabsOK'
    BY DEF Inv, Types, TabsOK, TabOK
<1>2. RenewalUnderWay'
    BY DEF Inv, RenewalUnderWay
<1>3. \A t \in Tabs : (tabs[t].refresh <= issued)'
    <2> TAKE t \in Tabs
    <2>1. tabs[t].refresh \in Nat /\ tabs[t].refresh <= issued /\ issued \in Nat
        BY TokenFields DEF Inv, Types, Known, RowsOK, TabsOK
    <2> QED BY <2>1, SessionsAssumption
<1> QED BY <1>1, <1>2, <1>3

LEMMA InvInParts ==
    ASSUME RowsOK', TabsOK', Known', RestOK', Marked', OneSuccessor', RevokedIsDead', RenewalUnderWay'
    PROVE  Inv'
BY DEF Inv, Types
-----------------------------------------------------------------------------
(* The service                                                             *)

LEMMA FindInv ==
    ASSUME Inv, NEW c \in Calls, Find(c)
    PROVE  Inv'
<1> USE SessionsAssumption
<1>1. /\ calls \in [Calls -> CallRecords] /\ CallKnown(calls[c], issued) /\ calls[c].step = "find"
      /\ issued \in 0..MaxTokens /\ row \in [Tokens -> TokenRows]
    BY DEF Find, Inv, Types, Known, RowsOK
<1>2. /\ calls' \in [Calls -> CallRecords] /\ \A d \in Calls : CallKnown(calls[d], issued)'
      /\ \A d \in Calls : Inserting(d)' => Inserting(d) /\ calls'[d].token = calls[d].token
      /\ \A t \in Tabs : Exchanging(t) => Exchanging(t)'
    <2>1. CASE Answer(c, "refused", NoToken)
        <3>1. NoToken <= issued'
            BY <1>1 DEF Find, NoToken
        <3> QED BY <2>1, <3>1, <1>1, AnsweredKnown DEF Find
    <2>2. CASE /\ ~row[calls[c].token].expired
               /\ calls' = [calls EXCEPT ![c].step = IF row[calls[c].token].spent THEN "revoke" ELSE "mark",
                                         ![c].user = row[calls[c].token].owner]
        <3> DEFINE k == calls[c].token
                   step == IF row[k].spent THEN "revoke" ELSE "mark"
                   found == [calls[c] EXCEPT !.step = step, !.user = row[k].owner]
        <3>1. k \in Tokens /\ k <= issued
            BY <1>1, TokenFields DEF CallKnown
        <3>2. row[k].owner \in Users
            BY <3>1 DEF Inv, Types, Known
        <3>3. calls[c] \in CallRecords /\ step \in {"revoke", "mark"}
            BY <1>1
        <3>4. calls' = [calls EXCEPT ![c] = found]
            BY <2>2, <1>1
        <3> HIDE DEF step
        <3>5. /\ found \in CallRecords /\ found.step = step /\ found.user = row[k].owner
              /\ found.token = k /\ found.new = calls[c].new /\ found.kind = calls[c].kind /\ found.tab = calls[c].tab
            BY <3>2, <3>3 DEF CallRecords
        <3> HIDE DEF found
        <3>6. \A d \in Calls : calls'[d] = IF d = c THEN found ELSE calls[d]
            BY <3>4, <1>1
        <3>7. CallKnown(found, issued)
            BY <1>1, <3>1, <3>2, <3>3, <3>5, TokensNat DEF CallKnown, Find
        <3>8. \A d \in Calls : CallKnown(calls[d], issued)'
            BY <3>6, <3>7 DEF Inv, Types, Known, Find
        <3>9. \A d \in Calls : Inserting(d)' => Inserting(d) /\ calls'[d].token = calls[d].token
            BY <3>3, <3>5, <3>6 DEF Inserting
        <3>10. \A t \in Tabs : Exchanging(t) => Exchanging(t)'
            BY <3>5, <3>6 DEF Exchanging
        <3>11. calls' \in [Calls -> CallRecords]
            BY <3>4, <3>5, <1>1
        <3> QED BY <3>8, <3>9, <3>10, <3>11
    <2> QED BY <2>1, <2>2 DEF Find
<1>3. TabsOK' /\ RenewalUnderWay' /\ \A t \in Tabs : (tabs[t].refresh <= issued)'
    BY <1>1, <1>2, TabsKept DEF Find
<1>4. Marked' /\ OneSuccessor' /\ RevokedIsDead' /\ RowsOK' /\ Known'
    BY <1>2, <1>3, RowsKept DEF Find
<1>5. RestOK'
    BY DEF Find, Inv, Types, RestOK
<1> QED BY <1>3, <1>4, <1>5, InvInParts

LEMMA ServiceFailsInv ==
    ASSUME Inv, NEW c \in Calls, ServiceFails(c)
    PROVE  Inv'
<1> USE SessionsAssumption
<1>1. issued \in 0..MaxTokens /\ issued' = issued /\ NoToken <= issued'
    BY DEF ServiceFails, Inv, Types, RowsOK, NoToken
<1>2. Answer(c, "failed", NoToken)
    BY DEF ServiceFails
<1>3. /\ calls' \in [Calls -> CallRecords] /\ \A d \in Calls : CallKnown(calls[d], issued)'
      /\ \A d \in Calls : Inserting(d)' => Inserting(d) /\ calls'[d].token = calls[d].token
      /\ \A t \in Tabs : Exchanging(t) => Exchanging(t)'
    BY <1>1, <1>2, AnsweredKnown
<1>4. TabsOK' /\ RenewalUnderWay' /\ \A t \in Tabs : (tabs[t].refresh <= issued)'
    BY <1>1, <1>3, TabsKept DEF ServiceFails
<1>5. Marked' /\ OneSuccessor' /\ RevokedIsDead' /\ RowsOK' /\ Known'
    BY <1>3, <1>4, RowsKept DEF ServiceFails
<1>6. RestOK'
    BY DEF ServiceFails, Fault, Inv, Types, RestOK
<1> QED BY <1>4, <1>5, <1>6, InvInParts

\* Rows that only come to be spent or expired: what was marked stays so.
LEMMA RowsOnlySpent ==
    ASSUME Inv, UNCHANGED issued, row' \in [Tokens -> TokenRows], revoked' \in SUBSET Tokens,
           calls' \in [Calls -> CallRecords], \A d \in Calls : CallKnown(calls[d], issued)',
           \A t \in Tabs : (tabs[t].refresh <= issued)',
           \A k \in Tokens : /\ row'[k].owner = row[k].owner /\ row'[k].parent = row[k].parent
                             /\ row[k].spent => row'[k].spent
                             /\ k > issued => row'[k] = row[k]
    PROVE  /\ RowsOK' /\ Known' /\ OneSuccessor'
           /\ \A k \in Tokens : row'[k].parent # NoToken => row'[row'[k].parent].spent
<1>1. RowsOK' /\ Known' /\ OneSuccessor'
    <2>1. \A k \in Tokens : k <= issued \/ k > issued
        BY TokensNat DEF Inv, Types, RowsOK
    <2> QED BY <2>1 DEF Inv, Types, RowsOK, Known, OneSuccessor
<1>2. \A k \in Tokens : row[k].parent \in Tokens \cup {NoToken}
    BY DEF Inv, Types, RowsOK, TokenRows
<1> QED BY <1>1, <1>2 DEF Inv, Marked

LEMMA TokenExpiresInv ==
    ASSUME Inv, NEW k \in Tokens, TokenExpires(k)
    PROVE  Inv'
<1> USE SessionsAssumption
<1>1. row \in [Tokens -> TokenRows] /\ row[k] \in TokenRows
    BY DEF Inv, Types, RowsOK
<1>2. row' = [row EXCEPT ![k] = [row[k] EXCEPT !.expired = TRUE]]
    BY <1>1 DEF TokenExpires
<1>3. [row[k] EXCEPT !.expired = TRUE] \in TokenRows
    BY <1>1 DEF TokenRows
<1>4. /\ row' \in [Tokens -> TokenRows]
      /\ \A j \in Tokens : /\ row'[j].owner = row[j].owner /\ row'[j].parent = row[j].parent
                           /\ row'[j].spent = row[j].spent /\ (j # k => row'[j] = row[j])
    BY <1>1, <1>2, <1>3 DEF TokenRows
<1>5. issued \in Nat /\ ~(k > issued)
    BY TokensNat DEF TokenExpires, Inv, Types, RowsOK
<1>6. TabsOK' /\ RenewalUnderWay' /\ \A t \in Tabs : (tabs[t].refresh <= issued)'
    BY DEF TokenExpires, Inv, Types, Known, TabsOK, TabOK, RenewalUnderWay, Exchanging
<1>7. /\ RowsOK' /\ Known' /\ OneSuccessor'
      /\ \A j \in Tokens : row'[j].parent # NoToken => row'[row'[j].parent].spent
    <2>1. revoked' \in SUBSET Tokens /\ calls' \in [Calls -> CallRecords] /\ \A d \in Calls : CallKnown(calls[d], issued)'
        BY DEF TokenExpires, Inv, Types, RowsOK, Known, CallKnown
    <2>2. UNCHANGED issued
        BY DEF TokenExpires
    <2> QED BY <1>4, <1>5, <1>6, <2>1, <2>2, RowsOnlySpent
<1>8. Marked'
    <2>1. \A c \in Calls : calls[c].token \in Tokens \cup {NoToken}
        BY TokenFields DEF Inv, Types, Known
    <2>2. revoked' = revoked /\ calls' = calls /\ revoked \in SUBSET Tokens
        BY DEF TokenExpires, Inv, Types, RowsOK
    <2> QED BY <1>4, <1>7, <2>1, <2>2 DEF Inv, Marked, Inserting
<1>9. RevokedIsDead' /\ RestOK'
    BY <1>4 DEF TokenExpires, Fault, Inv, Types, RevokedIsDead, RestOK
<1> QED BY <1>6, <1>7, <1>8, <1>9, InvInParts
\* The mark: from now on the request is the only one that may insert for its token.
LEMMA MarkExchangedInv ==
    ASSUME Inv, NEW c \in Calls, MarkExchanged(c)
    PROVE  Inv'
<1> USE SessionsAssumption
<1> DEFINE k == calls[c].token
<1>1. /\ calls \in [Calls -> CallRecords] /\ calls[c] \in CallRecords
      /\ CallKnown(calls[c], issued) /\ calls[c].step = "mark"
      /\ issued \in 0..MaxTokens /\ row \in [Tokens -> TokenRows]
    BY DEF MarkExchanged, Inv, Types, Known, RowsOK
<1>2. k \in Tokens /\ k <= issued /\ NoToken <= issued
    BY <1>1, TokenFields DEF CallKnown, NoToken
<1>3. UNCHANGED <<revoked, issued, tabs, wanted, refused, faults>>
    BY DEF MarkExchanged
<1>4. RestOK'
    BY <1>3 DEF Inv, Types, RestOK
<1>5. CASE Answer(c, "refused", NoToken) /\ UNCHANGED row
    <2>1. /\ calls' \in [Calls -> CallRecords] /\ \A d \in Calls : CallKnown(calls[d], issued)'
          /\ \A d \in Calls : Inserting(d)' => Inserting(d) /\ calls'[d].token = calls[d].token
          /\ \A t \in Tabs : Exchanging(t) => Exchanging(t)'
        BY <1>1, <1>2, <1>3, <1>5, AnsweredKnown
    <2>2. TabsOK' /\ RenewalUnderWay' /\ \A t \in Tabs : (tabs[t].refresh <= issued)'
        BY <1>1, <1>3, <2>1, TabsKept
    <2>3. Marked' /\ OneSuccessor' /\ RevokedIsDead' /\ RowsOK' /\ Known'
        BY <1>3, <1>5, <2>1, <2>2, RowsKept
    <2> QED BY <1>4, <2>2, <2>3, InvInParts
<1>6. CASE /\ Unspent(k)
           /\ row' = [row EXCEPT ![k].spent = TRUE]
           /\ calls' = [calls EXCEPT ![c].step = "issue"]
    <2> DEFINE marking == [calls[c] EXCEPT !.step = "issue"]
    <2>1. /\ marking \in CallRecords /\ marking.step = "issue" /\ marking.token = k /\ marking.user = calls[c].user
          /\ marking.new = calls[c].new /\ marking.kind = calls[c].kind /\ marking.tab = calls[c].tab
        BY <1>1 DEF CallRecords
    <2>2. calls' = [calls EXCEPT ![c] = marking]
        BY <1>1, <1>6
    <2> HIDE DEF marking
    <2>3. /\ calls' \in [Calls -> CallRecords]
          /\ \A d \in Calls : calls'[d] = IF d = c THEN marking ELSE calls[d]
        BY <1>1, <2>1, <2>2
    <2>4. CallKnown(marking, issued)
        BY <1>1, <2>1 DEF CallKnown
    <2>5. \A d \in Calls : CallKnown(calls[d], issued)'
        BY <1>3, <2>3, <2>4 DEF Inv, Types, Known
    <2>6. \A t \in Tabs : Exchanging(t) => Exchanging(t)'
        BY <2>1, <2>3 DEF Exchanging
    <2>7. TabsOK' /\ RenewalUnderWay' /\ \A t \in Tabs : (tabs[t].refresh <= issued)'
        BY <1>1, <1>3, <2>6, TabsKept
    <2>8. /\ row' \in [Tokens -> TokenRows] /\ row'[k].spent /\ ~row[k].spent
          /\ \A j \in Tokens : /\ row'[j].owner = row[j].owner /\ row'[j].parent = row[j].parent
                               /\ row[j].spent => row'[j].spent
                               /\ j # k => row'[j] = row[j]
        <3>1. row[k] \in TokenRows
            BY <1>1, <1>2
        <3>2. row' = [row EXCEPT ![k] = [row[k] EXCEPT !.spent = TRUE]]
            BY <1>1, <1>6
        <3>3. [row[k] EXCEPT !.spent = TRUE] \in TokenRows
            BY <3>1 DEF TokenRows
        <3> QED BY <1>1, <1>2, <1>6, <3>1, <3>2, <3>3 DEF TokenRows, Unspent
    <2>9. /\ RowsOK' /\ Known' /\ OneSuccessor'
          /\ \A j \in Tokens : row'[j].parent # NoToken => row'[row'[j].parent].spent
        <3>1. revoked' \in SUBSET Tokens /\ ~(k > issued)
            BY <1>1, <1>2, <1>3, TokenFields DEF Inv, Types, RowsOK
        <3> QED BY <1>3, <2>3, <2>5, <2>7, <2>8, <3>1, RowsOnlySpent
    <2>10. k \notin revoked /\ (\A j \in Tokens : row[j].parent # k) /\ \A d \in Calls : Inserting(d) => calls[d].token # k
        BY <1>2, <2>8, TokensNat DEF Inv, Marked
    <2>11. \A d \in Calls : Inserting(d)' <=> d = c \/ Inserting(d)
        BY <1>1, <1>2, <2>1, <2>3, TokensNat DEF Inserting
    <2>12. Marked'
        <3>1. \A j \in revoked' : row'[j].spent
            BY <1>3, <2>8 DEF Inv, Types, RowsOK, Marked
        <3>2. \A d \in Calls : Inserting(d)' =>
                 /\ row'[calls'[d].token].spent /\ calls'[d].token \notin revoked'
                 /\ \A j \in Tokens : row'[j].parent # calls'[d].token
            <4> SUFFICES ASSUME NEW d \in Calls, Inserting(d)'
                         PROVE  /\ row'[calls'[d].token].spent /\ calls'[d].token \notin revoked'
                                /\ \A j \in Tokens : row'[j].parent # calls'[d].token
                OBVIOUS
            <4>1. CASE d = c
                BY <1>3, <2>1, <2>3, <2>8, <2>10, <4>1
            <4>2. CASE d # c
                <5>1. Inserting(d) /\ calls'[d] = calls[d]
                    BY <2>3, <2>11, <4>2
                <5>2. calls[d].token \in Tokens
                    BY <1>1, <5>1, TokenFields DEF Inserting
                <5> QED BY <1>3, <2>8, <5>1, <5>2 DEF Inv, Marked
            <4> QED BY <4>1, <4>2
        <3>3. \A d, e \in Calls : Inserting(d)' /\ Inserting(e)' /\ calls'[d].token = calls'[e].token => d = e
            BY <2>1, <2>3, <2>10, <2>11 DEF Inv, Marked
        <3> QED BY <2>9, <3>1, <3>2, <3>3 DEF Marked
    <2>13. RevokedIsDead'
        BY <1>3, <2>8 DEF Inv, RevokedIsDead
    <2> QED BY <1>4, <2>7, <2>9, <2>12, <2>13, InvInParts
<1> QED BY <1>5, <1>6 DEF MarkExchanged

\* The alarm: what it spends was unspent, so no request inserts for it, and none has.
LEMMA RevokeAllInv ==
    ASSUME Inv, NEW c \in Calls, RevokeAll(c)
    PROVE  Inv'
<1> USE SessionsAssumption
<1> DEFINE live == {k \in Tokens : row[k].owner = calls[c].user /\ ~row[k].spent}
<1>1. /\ CallKnown(calls[c], issued) /\ calls[c].step = "revoke" /\ calls[c].user \in Users
      /\ issued \in 0..MaxTokens /\ NoToken <= issued /\ row \in [Tokens -> TokenRows] /\ revoked \in SUBSET Tokens
    BY DEF RevokeAll, Inv, Types, Known, RowsOK, CallKnown, NoToken
<1>2. /\ row' = [k \in Tokens |-> IF k \in live THEN [row[k] EXCEPT !.spent = TRUE] ELSE row[k]]
      /\ revoked' = revoked \cup live
      /\ Answer(c, "refused", NoToken)
      /\ UNCHANGED <<issued, tabs, wanted, refused, faults>>
    BY DEF RevokeAll
<1>3. /\ calls' \in [Calls -> CallRecords] /\ \A d \in Calls : CallKnown(calls[d], issued)'
      /\ \A d \in Calls : Inserting(d)' => Inserting(d) /\ calls'[d] = calls[d]
      /\ \A t \in Tabs : Exchanging(t) => Exchanging(t)'
    BY <1>1, <1>2, AnsweredKnown
<1>4. TabsOK' /\ RenewalUnderWay' /\ \A t \in Tabs : (tabs[t].refresh <= issued)'
    BY <1>1, <1>2, <1>3, TabsKept
<1>5. \A k \in live : k <= issued /\ ~row[k].spent
    BY <1>1 DEF Inv, Types, Known, Unissued
<1>6. /\ row' \in [Tokens -> TokenRows]
      /\ \A k \in Tokens : /\ row'[k].owner = row[k].owner /\ row'[k].parent = row[k].parent
                           /\ row[k].spent => row'[k].spent
                           /\ k \in live => row'[k].spent
                           /\ k \notin live => row'[k] = row[k]
    <2>1. \A k \in Tokens : row[k] \in TokenRows
        BY <1>1
    <2>2. \A r \in TokenRows : /\ [r EXCEPT !.spent = TRUE] \in TokenRows /\ [r EXCEPT !.spent = TRUE].spent
                               /\ [r EXCEPT !.spent = TRUE].owner = r.owner /\ [r EXCEPT !.spent = TRUE].parent = r.parent
        BY DEF TokenRows
    <2> HIDE DEF live
    <2> QED BY <1>2, <2>1, <2>2
<1>7. /\ RowsOK' /\ Known' /\ OneSuccessor'
      /\ \A k \in Tokens : row'[k].parent # NoToken => row'[row'[k].parent].spent
    <2>1. revoked' \in SUBSET Tokens /\ UNCHANGED issued
        BY <1>1, <1>2
    <2> HIDE DEF live
    <2>2. \A k \in Tokens : k > issued => k \notin live
        BY <1>1, <1>5, TokensNat
    <2> QED BY <1>3, <1>4, <1>6, <2>1, <2>2, RowsOnlySpent
<1>8. Marked'
    <2>1. \A k \in revoked' : row'[k].spent
        BY <1>1, <1>2, <1>6 DEF Inv, Marked
    <2>2. \A d \in Calls : Inserting(d)' =>
             /\ row'[calls'[d].token].spent /\ calls'[d].token \notin revoked'
             /\ \A k \in Tokens : row'[k].parent # calls'[d].token
        <3> SUFFICES ASSUME NEW d \in Calls, Inserting(d)'
                     PROVE  /\ row'[calls[d].token].spent /\ calls[d].token \notin revoked'
                            /\ \A k \in Tokens : row'[k].parent # calls[d].token
            BY <1>3
        <3>1. Inserting(d)
            BY <1>3
        <3>2. calls[d].token \in Tokens
            BY <3>1, TokenFields DEF Inv, Types, Known, Inserting
        <3>3. row[calls[d].token].spent /\ calls[d].token \notin revoked /\ \A k \in Tokens : row[k].parent # calls[d].token
            BY <3>1 DEF Inv, Marked
        <3> QED BY <1>2, <1>6, <3>2, <3>3
    <2>3. \A d, e \in Calls : Inserting(d)' /\ Inserting(e)' /\ calls'[d].token = calls'[e].token => d = e
        BY <1>3 DEF Inv, Marked
    <2> QED BY <1>7, <2>1, <2>2, <2>3 DEF Marked
<1>9. RevokedIsDead'
    <2>1. \A k \in Tokens : row[k].parent \notin live
        BY <1>5, TokensNat DEF Inv, Marked
    <2> QED BY <1>2, <1>6, <2>1 DEF Inv, RevokedIsDead
<1>10. RestOK'
    BY <1>2 DEF Inv, Types, RestOK
<1> QED BY <1>4, <1>7, <1>8, <1>9, <1>10, InvInParts
\* The insertion: a row of its own for a token that had none, from a token that is spent,
\* unrevoked and nobody else's.
LEMMA IssueInv ==
    ASSUME Inv, NEW c \in Calls, Issue(c)
    PROVE  Inv'
<1> USE SessionsAssumption
<1> DEFINE n == issued + 1
           from == calls[c].token
           new == [owner |-> calls[c].user, spent |-> FALSE, parent |-> from, expired |-> FALSE]
<1>1. /\ calls[c] \in CallRecords /\ CallKnown(calls[c], issued) /\ calls[c].step = "issue" /\ calls[c].user \in Users
      /\ issued \in 0..MaxTokens /\ row \in [Tokens -> TokenRows] /\ revoked \in SUBSET Tokens
      /\ issued < MaxTokens
    BY DEF Issue, Inv, Types, Known, RowsOK, CallKnown
<1>2. /\ issued' = n /\ row' = [row EXCEPT ![n] = new] /\ Answer(c, "ok", n)
      /\ UNCHANGED <<revoked, tabs, wanted, refused, faults>>
    BY DEF Issue
<1>3. /\ n \in Tokens /\ n \in 0..MaxTokens /\ n # NoToken /\ issued <= n /\ ~(n <= issued)
    BY <1>1 DEF Tokens, NoToken
<1>4. from \in Tokens \cup {NoToken} /\ from \in Nat /\ from <= issued /\ from # n
    BY <1>1, <1>3, TokenFields DEF CallKnown
<1>5. row[n] = Unissued
    BY <1>3 DEF Inv, Types, Known
<1>6. new \in TokenRows /\ new.owner \in Users /\ ~new.spent /\ new.parent = from
    BY <1>1, <1>4 DEF TokenRows
<1> HIDE DEF new
<1>7. /\ row' \in [Tokens -> TokenRows] /\ row'[n] = new
      /\ \A k \in Tokens : k # n => row'[k] = row[k]
    BY <1>1, <1>2, <1>3, <1>6
<1>8. /\ calls' \in [Calls -> CallRecords] /\ \A d \in Calls : CallKnown(calls[d], issued)'
      /\ \A d \in Calls : Inserting(d)' => d # c /\ Inserting(d) /\ calls'[d] = calls[d]
      /\ \A t \in Tabs : Exchanging(t) => Exchanging(t)'
    <2> HIDE DEF n
    <2>1. n <= n /\ n \in Tokens \cup {NoToken}
        BY <1>3, TokensNat
    <2> QED BY <1>2, <1>3, <2>1, AnsweredKnown
<1>9. TabsOK' /\ RenewalUnderWay' /\ \A t \in Tabs : (tabs[t].refresh <= issued)'
    BY <1>2, <1>3, <1>8, TabsKept
<1>10. RowsOK'
    BY <1>1, <1>2, <1>3, <1>7 DEF RowsOK
<1>11. Known'
    <2>1. \A k \in Tokens : IF k <= issued' THEN row'[k].owner \in Users ELSE row'[k] = Unissued
        <3> TAKE k \in Tokens
        <3>1. k \in Nat /\ issued \in Nat
            BY <1>1, TokensNat
        <3>2. CASE k = n
            BY <1>2, <1>3, <1>6, <1>7, <3>1, <3>2
        <3>3. CASE k # n
            <4>1. k <= issued' <=> k <= issued
                BY <1>2, <3>1, <3>3
            <4>2. IF k <= issued THEN row[k].owner \in Users ELSE row[k] = Unissued
                BY DEF Inv, Types, Known
            <4> QED BY <1>7, <3>3, <4>1, <4>2
        <3> QED BY <3>2, <3>3
    <2> QED BY <1>8, <1>9, <2>1 DEF Known
<1>12. from # NoToken => /\ Inserting(c) /\ row[from].spent /\ from \notin revoked
                         /\ \A k \in Tokens : row[k].parent # from
    BY <1>1 DEF Inv, Marked, Inserting
<1>13. n \notin revoked /\ \A k \in Tokens : row[k].parent # n
    <2>1. ~row[n].spent
        BY <1>5 DEF Unissued
    <2>2. n \notin revoked
        BY <1>1, <2>1 DEF Inv, Marked
    <2> QED BY <1>3, <2>1, <2>2 DEF Inv, Marked
<1>14. Marked'
    <2>1. \A k \in Tokens : row'[k].parent # NoToken => row'[row'[k].parent].spent
        <3> SUFFICES ASSUME NEW k \in Tokens, row'[k].parent # NoToken
                     PROVE  row'[row'[k].parent].spent
            OBVIOUS
        <3>1. CASE k = n
            BY <1>4, <1>6, <1>7, <1>12, <3>1
        <3>2. CASE k # n
            <4>1. row'[k] = row[k] /\ row[k].parent \in Tokens /\ row[k].parent # n /\ row[row[k].parent].spent
                BY <1>1, <1>7, <1>13, <3>2 DEF TokenRows, Inv, Marked
            <4> QED BY <1>7, <4>1
        <3> QED BY <3>1, <3>2
    <2>2. \A k \in revoked' : row'[k].spent
        BY <1>1, <1>2, <1>7, <1>13 DEF Inv, Marked
    <2>3. \A d \in Calls : Inserting(d)' =>
             /\ row'[calls'[d].token].spent /\ calls'[d].token \notin revoked'
             /\ \A k \in Tokens : row'[k].parent # calls'[d].token
        <3> SUFFICES ASSUME NEW d \in Calls, Inserting(d)'
                     PROVE  /\ row'[calls[d].token].spent /\ calls[d].token \notin revoked'
                            /\ \A k \in Tokens : row'[k].parent # calls[d].token
            BY <1>8
        <3>1. d # c /\ Inserting(d)
            BY <1>8
        <3>2. calls[d].token \in Tokens
            BY <3>1, TokenFields DEF Inv, Types, Known, Inserting
        <3>3. row[calls[d].token].spent /\ calls[d].token \notin revoked /\ \A k \in Tokens : row[k].parent # calls[d].token
            BY <3>1 DEF Inv, Marked
        <3>4. calls[d].token # n
            BY <1>5, <3>3 DEF Unissued
        <3>5. calls[d].token # from
            BY <1>1, <3>1 DEF Inv, Marked, Inserting
        <3> QED BY <1>2, <1>6, <1>7, <3>2, <3>3, <3>4, <3>5
    <2>4. \A d, e \in Calls : Inserting(d)' /\ Inserting(e)' /\ calls'[d].token = calls'[e].token => d = e
        BY <1>8 DEF Inv, Marked
    <2> QED BY <2>1, <2>2, <2>3, <2>4 DEF Marked
<1>15. OneSuccessor'
    <2>1. \A k \in Tokens : k # n /\ row'[k].parent # NoToken => row'[k].parent # from
        BY <1>7, <1>12
    <2> QED BY <1>6, <1>7, <2>1 DEF Inv, OneSuccessor
<1>16. RevokedIsDead'
    <2>1. NoToken \notin revoked
        BY <1>1, TokensNat
    <2> QED BY <1>2, <1>6, <1>7, <1>12, <2>1 DEF Inv, RevokedIsDead
<1>17. RestOK'
    BY <1>2 DEF Inv, Types, RestOK
<1> QED BY <1>9, <1>10, <1>11, <1>14, <1>15, <1>16, <1>17, InvInParts
-----------------------------------------------------------------------------
(* The tabs                                                                *)

LEMMA TabFacts ==
    ASSUME Inv, NEW t \in Tabs
    PROVE  /\ TabOK(tabs[t]) /\ tabs[t] \in TabRecords
           /\ tabs[t].refresh <= issued /\ tabs[t].refresh \in Tokens \cup {NoToken}
           /\ tabs[t].access = "fresh" => tabs[t].timer \/ "timer" \in tabs[t].waiting
           /\ issued \in 0..MaxTokens /\ issued \in Nat /\ NoToken <= issued
BY SessionsAssumption, TokenFields DEF Inv, Types, TabsOK, Known, RowsOK, RenewalUnderWay, NoToken

\* One tab's record replaced: it keeps its renewal under way, the others lose no exchange.
LEMMA TabReplaced ==
    ASSUME Inv, NEW t \in Tabs, NEW tab, tabs' = [tabs EXCEPT ![t] = tab], UNCHANGED issued,
           TabOK(tab), tab.refresh <= issued,
           tab.access = "fresh" => tab.timer \/ (Exchanging(t)' /\ "timer" \in tab.waiting),
           \A s \in Tabs \ {t} : Exchanging(s) => Exchanging(s)'
    PROVE  TabsOK' /\ RenewalUnderWay' /\ \A s \in Tabs : (tabs[s].refresh <= issued)'
<1>1. \A s \in Tabs : tabs'[s] = IF s = t THEN tab ELSE tabs[s]
    BY DEF Inv, Types, TabsOK
<1>2. tabs' \in [Tabs -> TabRecords]
    BY DEF Inv, Types, TabsOK, TabOK
<1>3. TabsOK'
    BY <1>1, <1>2 DEF Inv, Types, TabsOK, TabOK
<1>4. RenewalUnderWay'
    BY <1>1 DEF Inv, RenewalUnderWay
<1>5. \A s \in Tabs : (tabs[s].refresh <= issued)'
    BY <1>1 DEF Inv, Types, Known
<1> QED BY <1>3, <1>4, <1>5

\* A request sent: it inserts no successor yet.
LEMMA Sent ==
    ASSUME Inv, UNCHANGED issued, NEW call, CallKnown(call, issued), Send(call),
           call.step # "issue" \/ call.token = NoToken
    PROVE  /\ calls' \in [Calls -> CallRecords] /\ \A c \in Calls : CallKnown(calls[c], issued)'
           /\ \A c \in Calls : Inserting(c)' => Inserting(c) /\ calls'[c].token = calls[c].token
           /\ \A t \in Tabs : Exchanging(t) => Exchanging(t)'
           /\ call.kind = "refresh" => \A t \in Tabs : call.tab = t => Exchanging(t)'
<1>1. PICK c \in Calls : calls[c] = NoCall /\ calls' = [calls EXCEPT ![c] = call]
    BY DEF Send
<1>2. calls \in [Calls -> CallRecords] /\ call \in CallRecords
    BY DEF Inv, Types, Known, CallKnown
<1>3. calls' \in [Calls -> CallRecords] /\ \A d \in Calls : calls'[d] = IF d = c THEN call ELSE calls[d]
    BY <1>1, <1>2
<1>4. \A d \in Calls : CallKnown(calls[d], issued)'
    BY <1>3 DEF Inv, Types, Known
<1>5. \A d \in Calls : Inserting(d)' => Inserting(d) /\ calls'[d].token = calls[d].token
    BY <1>3 DEF Inserting
<1>6. \A t \in Tabs : Exchanging(t) => Exchanging(t)'
    BY <1>1, <1>3 DEF Exchanging, NoCall
<1>7. call.kind = "refresh" => \A t \in Tabs : call.tab = t => Exchanging(t)'
    BY <1>3 DEF Exchanging
<1> QED BY <1>3, <1>4, <1>5, <1>6, <1>7

\* Requests that end, or that nobody listens to any more.
LEMMA CallsLeft ==
    ASSUME Inv, UNCHANGED issued, NEW left, calls' = [c \in Calls |-> left[c]],
           \A c \in Calls : left[c] \in {calls[c], NoCall, [calls[c] EXCEPT !.tab = Nobody]}
    PROVE  /\ calls' \in [Calls -> CallRecords] /\ \A c \in Calls : CallKnown(calls[c], issued)'
           /\ \A c \in Calls : Inserting(c)' => Inserting(c) /\ calls'[c].token = calls[c].token
<1>1. calls \in [Calls -> CallRecords] /\ \A c \in Calls : CallKnown(calls[c], issued)
    BY DEF Inv, Types, Known
<1>2. issued \in 0..MaxTokens /\ NoToken <= issued
    BY SessionsAssumption DEF Inv, Types, RowsOK, NoToken
<1>3. CallKnown(NoCall, issued) /\ NoCall.step = "idle"
    BY <1>2 DEF CallKnown, NoCall, CallRecords
<1> SUFFICES ASSUME NEW c \in Calls
             PROVE  /\ calls'[c] \in CallRecords /\ CallKnown(calls'[c], issued')
                    /\ Inserting(c)' => Inserting(c) /\ calls'[c].token = calls[c].token
    BY DEF CallKnown
<1> DEFINE unheard == [calls[c] EXCEPT !.tab = Nobody]
<1>4. /\ unheard \in CallRecords /\ unheard.token = calls[c].token /\ unheard.step = calls[c].step
      /\ unheard.new = calls[c].new /\ unheard.user = calls[c].user /\ unheard.result = calls[c].result
    BY <1>1 DEF CallRecords
<1>5. calls'[c] \in {calls[c], NoCall, unheard}
    OBVIOUS
<1> HIDE DEF unheard
<1>6. CallKnown(calls'[c], issued)
    BY <1>1, <1>3, <1>4, <1>5 DEF CallKnown
<1>7. Inserting(c)' => Inserting(c) /\ calls'[c].token = calls[c].token
    BY <1>3, <1>4, <1>5 DEF Inserting
<1> QED BY <1>6, <1>7 DEF CallKnown

\* renew(): whoever asks, an exchange is under way afterwards.
LEMMA RenewInv ==
    ASSUME Inv, NEW t \in Tabs, NEW tab, NEW caller \in {"guard", "timer"},
           TabOK(tab), tab.refresh = tabs[t].refresh, tab.access = "fresh" => caller = "timer",
           Renew(t, tab, caller), UNCHANGED <<row, revoked, issued, wanted, refused, faults>>
    PROVE  Inv'
<1> USE SessionsAssumption
<1> DEFINE waits == [tab EXCEPT !.waiting = @ \cup {caller}]
           call == [NoCall EXCEPT !.kind = "refresh", !.tab = t, !.token = tab.refresh, !.step = "find"]
<1>1. /\ TabOK(waits) /\ waits.refresh = tab.refresh /\ waits.access = tab.access /\ waits.timer = tab.timer
      /\ caller \in waits.waiting
    BY DEF TabOK, TabRecords
<1>2. /\ calls' \in [Calls -> CallRecords] /\ \A c \in Calls : CallKnown(calls[c], issued)'
      /\ \A c \in Calls : Inserting(c)' => Inserting(c) /\ calls'[c].token = calls[c].token
      /\ \A s \in Tabs : Exchanging(s) => Exchanging(s)'
      /\ Exchanging(t)'
    <2>1. CASE Exchanging(t) /\ UNCHANGED calls
        <3>1. \A c \in Calls : CallKnown(calls[c], issued)'
            BY <2>1 DEF Inv, Types, Known, CallKnown
        <3>2. \A s \in Tabs : Exchanging(s) => Exchanging(s)'
            BY <2>1 DEF Exchanging
        <3> QED BY <2>1, <3>1, <3>2 DEF Inv, Types, Known, Inserting
    <2>2. CASE tab.refresh # NoToken /\ Send(call)
        <3>1. tab.refresh \in Tokens /\ tab.refresh <= issued /\ NoToken <= issued
            BY <2>2, TabFacts
        <3>2. /\ call \in CallRecords /\ call.kind = "refresh" /\ call.tab = t /\ call.token = tab.refresh
              /\ call.step = "find" /\ call.new = NoToken
            BY <3>1 DEF NoCall, CallRecords
        <3> HIDE DEF call
        <3>3. CallKnown(call, issued)
            BY <2>2, <3>1, <3>2 DEF CallKnown
        <3> QED BY <2>2, <3>2, <3>3, Sent
    <2> QED BY <2>1, <2>2 DEF Renew
<1>3. TabsOK' /\ RenewalUnderWay' /\ \A s \in Tabs : (tabs[s].refresh <= issued)'
    <2>1. tabs' = [tabs EXCEPT ![t] = waits] /\ UNCHANGED issued
        BY DEF Renew
    <2>2. waits.refresh <= issued
        BY <1>1, TabFacts
    <2> HIDE DEF waits
    <2> QED BY <1>1, <1>2, <2>1, <2>2, TabReplaced
<1>4. Marked' /\ OneSuccessor' /\ RevokedIsDead' /\ RowsOK' /\ Known'
    BY <1>2, <1>3, RowsKept
<1>5. RestOK'
    BY DEF Inv, Types, RestOK
<1> QED BY <1>3, <1>4, <1>5, InvInParts
LEMMA NavigateInv ==
    ASSUME Inv, NEW t \in Tabs, Navigate(t)
    PROVE  Inv'
<1> DEFINE cleared == [tabs[t] EXCEPT !.access = "none", !.timer = FALSE]
           shown == [tabs[t] EXCEPT !.page = "app"]
           turned == [cleared EXCEPT !.page = "signIn"]
<1>1. UNCHANGED <<row, revoked, issued, wanted, refused, faults>>
    BY DEF Navigate
<1>2. TabOK(cleared) /\ cleared.refresh = tabs[t].refresh /\ cleared.access = "none"
    BY TabFacts DEF TabOK, TabRecords
<1>3. TabOK(turned) /\ turned.refresh = tabs[t].refresh /\ turned.access = "none"
    BY TabFacts DEF TabOK, TabRecords
<1>4. /\ TabOK(shown) /\ shown.refresh = tabs[t].refresh /\ shown.access = tabs[t].access
      /\ shown.timer = tabs[t].timer /\ shown.waiting = tabs[t].waiting
    BY TabFacts DEF TabOK, TabRecords
<1>5. CASE Renew(t, cleared, "guard")
    <2> HIDE DEF cleared
    <2> QED BY <1>1, <1>2, <1>5, RenewInv
<1>6. ASSUME UNCHANGED calls, tabs' = [tabs EXCEPT ![t] = shown] \/ tabs' = [tabs EXCEPT ![t] = turned]
      PROVE  Inv'
    <2>1. /\ calls' \in [Calls -> CallRecords] /\ \A c \in Calls : CallKnown(calls[c], issued)'
          /\ \A c \in Calls : Inserting(c)' => Inserting(c) /\ calls'[c].token = calls[c].token
          /\ \A s \in Tabs : Exchanging(s) => Exchanging(s)'
        BY <1>1, <1>6 DEF Inv, Types, Known, CallKnown, Inserting, Exchanging
    <2>2. shown.access = "fresh" => shown.timer \/ (Exchanging(t)' /\ "timer" \in shown.waiting)
        BY <1>4, <2>1 DEF Inv, RenewalUnderWay
    <2>3. shown.refresh <= issued /\ turned.refresh <= issued
        BY <1>3, <1>4, TabFacts
    <2>4. TabsOK' /\ RenewalUnderWay' /\ \A s \in Tabs : (tabs[s].refresh <= issued)'
        <3> HIDE DEF shown, turned
        <3>1. CASE tabs' = [tabs EXCEPT ![t] = shown]
            BY <1>1, <1>4, <2>1, <2>2, <2>3, <3>1, TabReplaced
        <3>2. CASE tabs' = [tabs EXCEPT ![t] = turned]
            BY <1>1, <1>3, <2>1, <2>3, <3>2, TabReplaced
        <3> QED BY <1>6, <3>1, <3>2
    <2>5. Marked' /\ OneSuccessor' /\ RevokedIsDead' /\ RowsOK' /\ Known'
        BY <1>1, <2>1, <2>4, RowsKept
    <2>6. RestOK'
        BY <1>1 DEF Inv, Types, RestOK
    <2> QED BY <2>4, <2>5, <2>6, InvInParts
<1>7. tabs' = [tabs EXCEPT ![t].page = "app"] => tabs' = [tabs EXCEPT ![t] = shown]
    BY DEF Inv, Types, TabsOK
<1> QED BY <1>5, <1>6, <1>7 DEF Navigate

LEMMA RenewOnTimeInv ==
    ASSUME Inv, NEW t \in Tabs, RenewOnTime(t)
    PROVE  Inv'
<1> DEFINE rung == [tabs[t] EXCEPT !.timer = FALSE]
<1>1. TabOK(rung) /\ rung.refresh = tabs[t].refresh
    BY TabFacts DEF TabOK, TabRecords
<1>2. Renew(t, rung, "timer") /\ UNCHANGED <<row, revoked, issued, wanted, refused, faults>>
    BY DEF RenewOnTime
<1> HIDE DEF rung
<1> QED BY <1>1, <1>2, RenewInv

\* Steps of one tab that sends nothing: what remains to be shown of them.
LEMMA TabStep ==
    ASSUME Inv, NEW t \in Tabs, NEW tab, UNCHANGED <<row, revoked, issued>>,
           tabs' = [tabs EXCEPT ![t] = tab], TabOK(tab), tab.refresh <= issued,
           tab.access = "fresh" => tab.timer \/ (Exchanging(t)' /\ "timer" \in tab.waiting),
           \A s \in Tabs \ {t} : Exchanging(s) => Exchanging(s)',
           calls' \in [Calls -> CallRecords], \A c \in Calls : CallKnown(calls[c], issued)',
           \A c \in Calls : Inserting(c)' => Inserting(c) /\ calls'[c].token = calls[c].token,
           RestOK'
    PROVE  Inv'
<1>1. TabsOK' /\ RenewalUnderWay' /\ \A s \in Tabs : (tabs[s].refresh <= issued)'
    BY TabReplaced
<1>2. Marked' /\ OneSuccessor' /\ RevokedIsDead' /\ RowsOK' /\ Known'
    BY <1>1, RowsKept
<1> QED BY <1>1, <1>2, InvInParts

LEMMA CallsKept ==
    ASSUME Inv, UNCHANGED <<issued, calls>>
    PROVE  /\ calls' \in [Calls -> CallRecords] /\ \A c \in Calls : CallKnown(calls[c], issued)'
           /\ \A c \in Calls : Inserting(c)' => Inserting(c) /\ calls'[c].token = calls[c].token
           /\ \A s \in Tabs : Exchanging(s) => Exchanging(s)'
BY DEF Inv, Types, Known, CallKnown, Inserting, Exchanging

LEMMA AgeInv ==
    ASSUME Inv, NEW t \in Tabs, Age(t)
    PROVE  Inv'
<1> DEFINE older == IF tabs[t].access = "fresh" THEN "lapsing" ELSE "expired"
           aged == [tabs[t] EXCEPT !.access = older]
<1>1. TabOK(aged) /\ aged.refresh = tabs[t].refresh /\ aged.access # "fresh"
    BY TabFacts DEF Age, TabOK, TabRecords
<1>2. tabs' = [tabs EXCEPT ![t] = aged] /\ UNCHANGED <<row, revoked, issued, calls, wanted, refused, faults>>
    BY DEF Age, Inv, Types, TabsOK
<1>3. aged.refresh <= issued /\ RestOK'
    BY <1>1, <1>2, TabFacts DEF Inv, Types, RestOK
<1> HIDE DEF aged
<1> QED BY <1>1, <1>2, <1>3, CallsKept, TabStep

LEMMA SignOutInv ==
    ASSUME Inv, NEW t \in Tabs, SignOut(t)
    PROVE  Inv'
<1> USE SessionsAssumption
<1> DEFINE out == [Ended(tabs[t]) EXCEPT !.page = "signIn"]
<1>1. TabOK(out) /\ out.refresh = NoToken /\ out.access = "none"
    BY TabFacts DEF Ended, TabOK, TabRecords
<1>2. tabs' = [tabs EXCEPT ![t] = out] /\ UNCHANGED <<row, revoked, issued, calls, refused, faults>>
    BY DEF SignOut, Inv, Types, TabsOK
<1>3. out.refresh <= issued /\ RestOK'
    BY <1>1, <1>2, TabFacts DEF SignOut, Inv, Types, RestOK
<1> HIDE DEF out
<1> QED BY <1>1, <1>2, <1>3, CallsKept, TabStep

LEMMA SignInInv ==
    ASSUME Inv, NEW t \in Tabs, NEW u \in Users, SignIn(t, u)
    PROVE  Inv'
<1> USE SessionsAssumption
<1> DEFINE call == [NoCall EXCEPT !.kind = "login", !.tab = t, !.user = u, !.step = "issue"]
<1>1. Send(call) /\ UNCHANGED <<row, revoked, issued, tabs, wanted, refused, faults>>
    BY DEF SignIn
<1>2. /\ call \in CallRecords /\ call.token = NoToken /\ call.new = NoToken /\ call.user \in Users /\ call.step = "issue"
    BY DEF NoCall, CallRecords
<1>3. CallKnown(call, issued) /\ issued \in 0..MaxTokens
    <2>1. NoToken <= issued /\ issued \in 0..MaxTokens
        BY TabFacts
    <2> QED BY <1>2, <2>1 DEF CallKnown
<1> HIDE DEF call
<1>4. /\ calls' \in [Calls -> CallRecords] /\ \A c \in Calls : CallKnown(calls[c], issued)'
      /\ \A c \in Calls : Inserting(c)' => Inserting(c) /\ calls'[c].token = calls[c].token
      /\ \A s \in Tabs : Exchanging(s) => Exchanging(s)'
    BY <1>1, <1>2, <1>3, Sent
<1>5. TabsOK' /\ RenewalUnderWay' /\ \A s \in Tabs : (tabs[s].refresh <= issued)'
    BY <1>1, <1>3, <1>4, TabsKept
<1>6. Marked' /\ OneSuccessor' /\ RevokedIsDead' /\ RowsOK' /\ Known'
    BY <1>1, <1>4, <1>5, RowsKept
<1>7. RestOK'
    BY <1>1 DEF Inv, Types, RestOK
<1> QED BY <1>5, <1>6, <1>7, InvInParts
\* A call of tab t that ends, or that nobody listens to any more, ends no exchange of
\* another tab.
LEMMA CallEnds ==
    ASSUME Inv, UNCHANGED issued, NEW t \in Tabs, NEW c \in Calls, calls[c].tab = t,
           NEW end \in {NoCall, [calls[c] EXCEPT !.tab = Nobody]}, calls' = [calls EXCEPT ![c] = end]
    PROVE  /\ calls' \in [Calls -> CallRecords] /\ \A d \in Calls : CallKnown(calls[d], issued)'
           /\ \A d \in Calls : Inserting(d)' => Inserting(d) /\ calls'[d].token = calls[d].token
           /\ \A s \in Tabs \ {t} : Exchanging(s) => Exchanging(s)'
           /\ calls[c].kind # "refresh" => (Exchanging(t) => Exchanging(t)')
<1>1. calls \in [Calls -> CallRecords]
    BY DEF Inv, Types, Known
<1> DEFINE left == [d \in Calls |-> IF d = c THEN end ELSE calls[d]]
<1>2. calls' = [d \in Calls |-> left[d]] /\ \A d \in Calls : calls'[d] = left[d] /\ left[d] = IF d = c THEN end ELSE calls[d]
    BY <1>1
<1> HIDE DEF left
<1>3. \A d \in Calls : left[d] \in {calls[d], NoCall, [calls[d] EXCEPT !.tab = Nobody]}
    BY <1>2
<1>4. /\ calls' \in [Calls -> CallRecords] /\ \A d \in Calls : CallKnown(calls[d], issued)'
      /\ \A d \in Calls : Inserting(d)' => Inserting(d) /\ calls'[d].token = calls[d].token
    BY <1>2, <1>3, CallsLeft
<1>5. /\ \A s \in Tabs \ {t} : Exchanging(s) => Exchanging(s)'
      /\ calls[c].kind # "refresh" => (Exchanging(t) => Exchanging(t)')
    BY <1>2 DEF Exchanging
<1> QED BY <1>4, <1>5

\* The failed renewal's last step, for the record a tab has.
LEMMA FailedOK ==
    ASSUME Inv, NEW t \in Tabs
    PROVE  /\ TabOK(Resolved(tabs[t], FALSE)) /\ Resolved(tabs[t], FALSE).refresh <= issued
           /\ Resolved(tabs[t], FALSE).access = "fresh" => Resolved(tabs[t], FALSE).timer
BY TabFacts, ResolvedOK

LEMMA ReceiveRenewalInv ==
    ASSUME Inv, NEW t \in Tabs, NEW c \in Calls, ReceiveRenewal(t, c)
    PROVE  Inv'
<1> USE SessionsAssumption
<1>1. /\ calls[c].tab = t /\ calls' = [calls EXCEPT ![c] = NoCall] /\ calls[c].step = "answered"
      /\ UNCHANGED <<row, revoked, issued, wanted, faults>> /\ refused' \in SUBSET Tabs
    BY DEF ReceiveRenewal, Inv, Types, RestOK
<1>2. /\ calls' \in [Calls -> CallRecords] /\ \A d \in Calls : CallKnown(calls[d], issued)'
      /\ \A d \in Calls : Inserting(d)' => Inserting(d) /\ calls'[d].token = calls[d].token
      /\ \A s \in Tabs \ {t} : Exchanging(s) => Exchanging(s)'
    BY <1>1, CallEnds
<1>3. RestOK'
    BY <1>1 DEF Inv, Types, RestOK
<1>4. PICK tab : /\ tabs' = [tabs EXCEPT ![t] = tab] /\ TabOK(tab) /\ tab.refresh <= issued
                 /\ tab.access = "fresh" => tab.timer
    <2>1. CASE calls[c].result = "ok"
        <3> DEFINE started == Started(tabs[t], calls[c].new)
        <3>1. calls[c].new \in Tokens /\ calls[c].new <= issued
            BY <1>1, <2>1, TokenFields DEF Inv, Types, Known, CallKnown
        <3>2. TabOK(started) /\ started.refresh = calls[c].new /\ started.timer
            BY <3>1, TabFacts, StartedOK
        <3>3. tabs' = [tabs EXCEPT ![t] = Resolved(started, TRUE)]
            BY <2>1 DEF ReceiveRenewal, Inv, Types, TabsOK
        <3> HIDE DEF started
        <3>4. /\ TabOK(Resolved(started, TRUE)) /\ Resolved(started, TRUE).refresh = calls[c].new
              /\ Resolved(started, TRUE).timer
            BY <3>2, ResolvedOK
        <3> QED BY <3>1, <3>3, <3>4
    <2>2. CASE calls[c].result = "refused"
        <3> DEFINE ended == Ended(tabs[t])
        <3>1. TabOK(ended) /\ ended.refresh = NoToken /\ ended.access = "none"
            BY TabFacts, EndedOK
        <3>2. tabs' = [tabs EXCEPT ![t] = Resolved(ended, FALSE)]
            BY <2>2 DEF ReceiveRenewal, Inv, Types, TabsOK
        <3> HIDE DEF ended
        <3>3. /\ TabOK(Resolved(ended, FALSE)) /\ Resolved(ended, FALSE).refresh = NoToken
              /\ Resolved(ended, FALSE).access = "none"
            BY <3>1, ResolvedOK
        <3>4. NoToken <= issued
            BY TabFacts
        <3> QED BY <3>2, <3>3, <3>4
    <2>3. CASE calls[c].result = "failed"
        <3>1. tabs' = [tabs EXCEPT ![t] = Resolved(tabs[t], FALSE)]
            BY <2>3 DEF ReceiveRenewal, Inv, Types, TabsOK
        <3> QED BY <3>1, FailedOK
    <2> QED BY <2>1, <2>2, <2>3 DEF ReceiveRenewal
<1> QED BY <1>1, <1>2, <1>3, <1>4, TabStep

LEMMA LoseAnswerInv ==
    ASSUME Inv, NEW t \in Tabs, NEW c \in Calls, LoseAnswer(t, c)
    PROVE  Inv'
<1> USE SessionsAssumption
<1> DEFINE end == IF calls[c].step = "answered" THEN NoCall ELSE [calls[c] EXCEPT !.tab = Nobody]
<1>1. /\ calls[c].tab = t /\ calls' = [calls EXCEPT ![c] = end]
      /\ UNCHANGED <<row, revoked, issued, wanted, refused>>
    BY DEF LoseAnswer, Inv, Types, Known
<1>2. end \in {NoCall, [calls[c] EXCEPT !.tab = Nobody]}
    OBVIOUS
<1> HIDE DEF end
<1>3. /\ calls' \in [Calls -> CallRecords] /\ \A d \in Calls : CallKnown(calls[d], issued)'
      /\ \A d \in Calls : Inserting(d)' => Inserting(d) /\ calls'[d].token = calls[d].token
      /\ \A s \in Tabs \ {t} : Exchanging(s) => Exchanging(s)'
      /\ calls[c].kind # "refresh" => (Exchanging(t) => Exchanging(t)')
    BY <1>1, <1>2, CallEnds
<1>4. RestOK'
    BY <1>1 DEF LoseAnswer, Fault, Inv, Types, RestOK
<1>5. CASE calls[c].kind = "refresh"
    <2>1. tabs' = [tabs EXCEPT ![t] = Resolved(tabs[t], FALSE)]
        BY <1>5 DEF LoseAnswer, Inv, Types, TabsOK
    <2> QED BY <1>1, <1>3, <1>4, <2>1, FailedOK, TabStep
<1>6. CASE calls[c].kind # "refresh"
    <2>1. UNCHANGED tabs
        BY <1>6 DEF LoseAnswer
    <2>2. issued' \in 0..MaxTokens /\ issued <= issued' /\ issued' = issued
        BY <1>1, TabFacts
    <2>3. \A s \in Tabs : Exchanging(s) => Exchanging(s)'
        BY <1>3, <1>6
    <2>4. TabsOK' /\ RenewalUnderWay' /\ \A s \in Tabs : (tabs[s].refresh <= issued)'
        BY <2>1, <2>2, <2>3, TabsKept
    <2>5. Marked' /\ OneSuccessor' /\ RevokedIsDead' /\ RowsOK' /\ Known'
        BY <1>1, <1>3, <2>4, RowsKept
    <2> QED BY <1>4, <2>4, <2>5, InvInParts
<1> QED BY <1>5, <1>6

LEMMA ReceiveSignInInv ==
    ASSUME Inv, NEW t \in Tabs, NEW c \in Calls, ReceiveSignIn(t, c)
    PROVE  Inv'
<1> USE SessionsAssumption
<1>1. /\ calls[c].tab = t /\ calls' = [calls EXCEPT ![c] = NoCall] /\ calls[c].step = "answered"
      /\ calls[c].kind = "login" /\ UNCHANGED <<row, revoked, issued, refused, faults>>
    BY DEF ReceiveSignIn
<1>2. /\ calls' \in [Calls -> CallRecords] /\ \A d \in Calls : CallKnown(calls[d], issued)'
      /\ \A d \in Calls : Inserting(d)' => Inserting(d) /\ calls'[d].token = calls[d].token
      /\ \A s \in Tabs \ {t} : Exchanging(s) => Exchanging(s)'
      /\ Exchanging(t) => Exchanging(t)'
    BY <1>1, CallEnds
<1>3. RestOK'
    <2>1. calls[c].user \in Users \cup {NoUser}
        BY DEF Inv, Types, Known, CallRecords
    <2> QED BY <1>1, <2>1 DEF ReceiveSignIn, Inv, Types, RestOK
<1>4. CASE calls[c].result = "ok"
    <2> DEFINE started == Started(tabs[t], calls[c].new)
               tab == [started EXCEPT !.page = "app"]
    <2>1. calls[c].new \in Tokens /\ calls[c].new <= issued
        BY <1>1, <1>4, TokenFields DEF Inv, Types, Known, CallKnown
    <2>2. TabOK(started) /\ started.refresh = calls[c].new /\ started.timer
        BY <2>1, TabFacts, StartedOK
    <2>3. tabs' = [tabs EXCEPT ![t] = tab]
        BY <1>4 DEF ReceiveSignIn, Inv, Types, TabsOK
    <2> HIDE DEF started
    <2>4. TabOK(tab) /\ tab.refresh = calls[c].new /\ tab.timer
        BY <2>2 DEF TabOK, TabRecords
    <2> HIDE DEF tab
    <2> QED BY <1>1, <1>2, <1>3, <2>1, <2>3, <2>4, TabStep
<1>5. CASE calls[c].result # "ok"
    <2>1. UNCHANGED tabs
        BY <1>5 DEF ReceiveSignIn
    <2>2. issued' \in 0..MaxTokens /\ issued <= issued' /\ issued' = issued
        BY <1>1, TabFacts
    <2>3. TabsOK' /\ RenewalUnderWay' /\ \A s \in Tabs : (tabs[s].refresh <= issued)'
        BY <1>2, <2>1, <2>2, TabsKept
    <2>4. Marked' /\ OneSuccessor' /\ RevokedIsDead' /\ RowsOK' /\ Known'
        BY <1>1, <1>2, <2>3, RowsKept
    <2> QED BY <1>3, <2>3, <2>4, InvInParts
<1> QED BY <1>4, <1>5

LEMMA ReloadInv ==
    ASSUME Inv, NEW t \in Tabs, Reload(t)
    PROVE  Inv'
<1> USE SessionsAssumption
<1>1. calls' = Abandoned(t) /\ UNCHANGED <<row, revoked, issued, wanted, refused>>
    BY DEF Reload
<1>2. tabs' = [tabs EXCEPT ![t] = Restored(tabs[t])]
    BY DEF Reload, Inv, Types, TabsOK
<1>3. /\ TabOK(Restored(tabs[t])) /\ Restored(tabs[t]).refresh <= issued
      /\ Restored(tabs[t]).access = "fresh" => Restored(tabs[t]).timer
    BY TabFacts, RestoredOK
<1>4. /\ calls' = [c \in Calls |-> Abandoned(t)[c]]
      /\ \A c \in Calls : Abandoned(t)[c] \in {calls[c], NoCall, [calls[c] EXCEPT !.tab = Nobody]}
      /\ \A c \in Calls : calls[c].tab # t => calls'[c] = calls[c]
    BY <1>1 DEF Abandoned
<1>5. /\ calls' \in [Calls -> CallRecords] /\ \A c \in Calls : CallKnown(calls[c], issued)'
      /\ \A c \in Calls : Inserting(c)' => Inserting(c) /\ calls'[c].token = calls[c].token
    BY <1>1, <1>4, CallsLeft
<1>6. \A s \in Tabs \ {t} : Exchanging(s) => Exchanging(s)'
    BY <1>4 DEF Exchanging
<1>7. RestOK'
    BY <1>1 DEF Reload, Fault, Inv, Types, RestOK
<1> QED BY <1>1, <1>2, <1>3, <1>5, <1>6, <1>7, TabStep

LEMMA DuplicateInv ==
    ASSUME Inv, NEW t \in Tabs, NEW s \in Tabs, Duplicate(t, s)
    PROVE  Inv'
<1> USE SessionsAssumption
<1>1. tabs' = [tabs EXCEPT ![s] = Restored(tabs[t])] /\ UNCHANGED <<row, revoked, issued, calls, refused>>
    BY DEF Duplicate
<1>2. /\ TabOK(Restored(tabs[t])) /\ Restored(tabs[t]).refresh <= issued
      /\ Restored(tabs[t]).access = "fresh" => Restored(tabs[t]).timer
    BY TabFacts, RestoredOK
<1>3. RestOK'
    BY <1>1 DEF Duplicate, Fault, Inv, Types, RestOK
<1> QED BY <1>1, <1>2, <1>3, CallsKept, TabStep

-----------------------------------------------------------------------------
LEMMA StutterInv == Inv /\ UNCHANGED vars => Inv'
<1> SUFFICES ASSUME Inv, UNCHANGED vars PROVE Inv'
    OBVIOUS
<1>1. issued' \in 0..MaxTokens /\ issued <= issued'
    BY SessionsAssumption DEF vars, Inv, Types, RowsOK
<1>2. UNCHANGED <<row, revoked, issued, calls, tabs, wanted, refused, faults>>
    BY DEF vars
<1>3. TabsOK' /\ RenewalUnderWay' /\ \A t \in Tabs : (tabs[t].refresh <= issued)'
    BY <1>1, <1>2, CallsKept, TabsKept
<1>4. Marked' /\ OneSuccessor' /\ RevokedIsDead' /\ RowsOK' /\ Known'
    BY <1>2, <1>3, CallsKept, RowsKept
<1>5. RestOK'
    BY <1>2 DEF Inv, Types, RestOK
<1> QED BY <1>3, <1>4, <1>5, InvInParts

LEMMA StepInv == Inv /\ [Next]_vars => Inv'
<1>1. ASSUME Inv, NEW c \in Calls, Serve(c) \/ ServiceFails(c) PROVE Inv'
    BY <1>1, FindInv, MarkExchangedInv, RevokeAllInv, IssueInv, ServiceFailsInv DEF Serve
<1>2. ASSUME Inv, NEW t \in Tabs, Receive(t) PROVE Inv'
    BY <1>2, ReceiveRenewalInv, ReceiveSignInInv DEF Receive
<1>3. ASSUME Inv, NEW t \in Tabs,
             Navigate(t) \/ RenewOnTime(t) \/ Age(t) \/ SignOut(t) \/ Reload(t)
      PROVE  Inv'
    BY <1>3, NavigateInv, RenewOnTimeInv, AgeInv, SignOutInv, ReloadInv
<1> QED BY <1>1, <1>2, <1>3, StutterInv, TokenExpiresInv, LoseAnswerInv, SignInInv, DuplicateInv DEF Next

-----------------------------------------------------------------------------
(* Without faults: every refresh token is held once                        *)

Refreshing(c) == calls[c].kind = "refresh"

\* No request is of a spent or of another request's token, and none is refused.
CallsCalm ==
    /\ \A c \in Calls :
          /\ calls[c].step # "revoke"
          /\ calls[c].result = IF calls[c].step = "answered" THEN "ok" ELSE "none"
          /\ calls[c].step \in {"find", "mark"} => Refreshing(c) /\ ~row[calls[c].token].spent
          /\ Refreshing(c) => calls[c].tab \in Tabs /\ calls[c].token # NoToken
    /\ \A c, d \in Calls :
          Refreshing(c) /\ Refreshing(d)
            /\ (calls[c].tab = calls[d].tab \/ calls[c].token = calls[d].token) => c = d

\* A token on its way to a tab is unspent, and nobody else's.
NewCalm ==
    \A c \in Calls : calls[c].new # NoToken =>
        /\ ~row[calls[c].new].spent
        /\ \A d \in Calls : calls[d].token # calls[c].new /\ (calls[d].new = calls[c].new => d = c)
        /\ \A t \in Tabs : tabs[t].refresh # calls[c].new

\* A tab's token is its own, and unspent unless the tab's own exchange of it is under way.
TabsCalm ==
    /\ \A s, t \in Tabs : tabs[s].refresh = tabs[t].refresh /\ tabs[s].refresh # NoToken => s = t
    /\ \A c \in Calls, t \in Tabs : Refreshing(c) /\ calls[c].token = tabs[t].refresh => calls[c].tab = t
    /\ \A t \in Tabs : tabs[t].refresh # NoToken =>
          \/ ~row[tabs[t].refresh].spent
          \/ \E c \in Calls : Refreshing(c) /\ calls[c].tab = t /\ calls[c].token = tabs[t].refresh

Calm ==
    /\ refused = {} /\ (\A k \in Tokens : ~row[k].expired)
    /\ CallsCalm /\ NewCalm /\ TabsCalm

LEMMA CalmFacts ==
    ASSUME Inv
    PROVE  /\ calls \in [Calls -> CallRecords] /\ row \in [Tokens -> TokenRows] /\ tabs \in [Tabs -> TabRecords]
           /\ issued \in Nat /\ NoToken \notin Tokens
           /\ \A c \in Calls : /\ calls[c].token \in Tokens \cup {NoToken} /\ calls[c].new \in Tokens \cup {NoToken}
                               /\ calls[c].token \in Nat /\ calls[c].token <= issued
                               /\ calls[c].new \in Nat /\ calls[c].new <= issued
           /\ \A t \in Tabs : /\ tabs[t].refresh \in Tokens \cup {NoToken}
                              /\ tabs[t].refresh \in Nat /\ tabs[t].refresh <= issued
           /\ NoCall.kind = "none" /\ NoCall.token = NoToken /\ NoCall.new = NoToken
           /\ NoCall.step = "idle" /\ NoCall.result = "none"
<1>1. calls \in [Calls -> CallRecords] /\ row \in [Tokens -> TokenRows] /\ tabs \in [Tabs -> TabRecords]
    BY DEF Inv, Types, Known, RowsOK, TabsOK
<1>2. issued \in Nat /\ NoToken \notin Tokens
    BY TokensNat, SessionsAssumption DEF Inv, Types, RowsOK
<1>3. \A c \in Calls : calls[c] \in CallRecords /\ calls[c].token <= issued /\ calls[c].new <= issued
    BY DEF Inv, Types, Known, CallKnown
<1>4. \A t \in Tabs : tabs[t].refresh <= issued
    BY DEF Inv, Types, Known
<1>5. /\ NoCall.kind = "none" /\ NoCall.token = NoToken /\ NoCall.new = NoToken
      /\ NoCall.step = "idle" /\ NoCall.result = "none"
    BY DEF NoCall
<1> QED BY <1>1, <1>2, <1>3, <1>4, <1>5, TokenFields

\* A tab that keeps its token, or lets it go.
LEMMA TokenLetGo ==
    ASSUME Inv, Calm, UNCHANGED <<row, calls, refused>>,
           \A t \in Tabs : tabs'[t].refresh \in {tabs[t].refresh, NoToken}
    PROVE  Calm'
<1>1. CallsCalm' /\ NewCalm'
    BY DEF Calm, CallsCalm, NewCalm, Refreshing
<1>2. TabsCalm'
    BY DEF Calm, CallsCalm, TabsCalm, Refreshing
<1> QED BY <1>1, <1>2 DEF Calm

\* A request under way that moves on, or ends with nothing to tell, holding what it held.
LEMMA MovedOn ==
    ASSUME Inv, Calm, UNCHANGED <<row, refused>>, \A t \in Tabs : tabs'[t].refresh = tabs[t].refresh,
           \A c \in Calls : /\ calls'[c].kind = calls[c].kind /\ calls'[c].tab = calls[c].tab
                            /\ calls'[c].token = calls[c].token /\ calls'[c].new = calls[c].new
                            /\ calls'[c].result = calls[c].result
                            /\ calls'[c].step = calls[c].step \/ (calls[c].step = "find" /\ calls'[c].step = "mark")
    PROVE  Calm'
<1>1. CallsCalm'
    BY DEF Calm, CallsCalm, Refreshing
<1>2. NewCalm'
    BY DEF Calm, NewCalm
<1>3. TabsCalm'
    BY DEF Calm, TabsCalm, Refreshing
<1> QED BY <1>1, <1>2, <1>3 DEF Calm

\* A sign-in sent presents no token.
LEMMA LoginSent ==
    ASSUME Inv, Calm, UNCHANGED <<row, tabs, refused>>, NEW c \in Calls, calls[c] = NoCall, NEW call,
           calls' = [calls EXCEPT ![c] = call],
           call.kind = "login", call.token = NoToken, call.new = NoToken, call.step = "issue", call.result = "none"
    PROVE  Calm'
<1>1. /\ \A d \in Calls : calls'[d] = IF d = c THEN call ELSE calls[d]
      /\ ~Refreshing(c)
    BY CalmFacts DEF Refreshing
<1>2. CallsCalm'
    BY <1>1 DEF Calm, CallsCalm, Refreshing
<1>3. NewCalm'
    BY <1>1 DEF Calm, NewCalm
<1>4. TabsCalm'
    BY <1>1 DEF Calm, TabsCalm, Refreshing
<1> QED BY <1>2, <1>3, <1>4 DEF Calm

\* An exchange sent by a tab that has none under way: its token is unspent and its own.
LEMMA RenewalSent ==
    ASSUME Inv, Calm, UNCHANGED <<row, refused>>, \A s \in Tabs : tabs'[s].refresh = tabs[s].refresh,
           NEW t \in Tabs, ~Exchanging(t), tabs[t].refresh # NoToken,
           NEW c \in Calls, calls[c] = NoCall, NEW call, calls' = [calls EXCEPT ![c] = call],
           call.kind = "refresh", call.tab = t, call.token = tabs[t].refresh, call.new = NoToken,
           call.step = "find", call.result = "none"
    PROVE  Calm'
<1>1. /\ \A d \in Calls : calls'[d] = IF d = c THEN call ELSE calls[d]
      /\ ~Refreshing(c) /\ calls[c].new = NoToken
    BY CalmFacts DEF Refreshing
<1>2. /\ \A d \in Calls : Refreshing(d) => calls[d].tab # t /\ calls[d].token # call.token
      /\ ~row[call.token].spent
      /\ \A s \in Tabs : tabs[s].refresh = call.token => s = t
    BY DEF Calm, TabsCalm, Exchanging, Refreshing
<1>3. \A d \in Calls : Refreshing(d)' <=> d = c \/ Refreshing(d)
    BY <1>1 DEF Refreshing
<1>4. CallsCalm'
    BY <1>1, <1>2, <1>3 DEF Calm, CallsCalm
<1>5. NewCalm'
    BY <1>1 DEF Calm, NewCalm
<1>6. TabsCalm'
    <2>1. \A d \in Calls, s \in Tabs : Refreshing(d)' /\ calls'[d].token = tabs'[s].refresh => calls'[d].tab = s
        BY <1>1, <1>2, <1>3 DEF Calm, TabsCalm
    <2>2. \A s \in Tabs : tabs'[s].refresh # NoToken =>
             \/ ~row'[tabs'[s].refresh].spent
             \/ \E d \in Calls : Refreshing(d)' /\ calls'[d].tab = s /\ calls'[d].token = tabs'[s].refresh
        BY <1>1, <1>3 DEF Calm, TabsCalm
    <2>3. \A r, s \in Tabs : tabs'[r].refresh = tabs'[s].refresh /\ tabs'[r].refresh # NoToken => r = s
        BY DEF Calm, TabsCalm
    <2> QED BY <2>1, <2>2, <2>3 DEF TabsCalm, Refreshing
<1> QED BY <1>4, <1>5, <1>6 DEF Calm

\* An answer received: the tab's new token is unspent and nobody else's.
LEMMA TokenReceived ==
    ASSUME Inv, Calm, UNCHANGED <<row, refused>>, NEW t \in Tabs, NEW c \in Calls,
           calls[c].tab = t, calls[c].new # NoToken, calls' = [calls EXCEPT ![c] = NoCall],
           tabs'[t].refresh = calls[c].new, \A s \in Tabs \ {t} : tabs'[s].refresh = tabs[s].refresh
    PROVE  Calm'
<1>1. \A d \in Calls : calls'[d] = IF d = c THEN NoCall ELSE calls[d]
    BY CalmFacts
<1>2. /\ ~row[calls[c].new].spent
      /\ \A d \in Calls : calls[d].token # calls[c].new /\ (calls[d].new = calls[c].new => d = c)
      /\ \A s \in Tabs : tabs[s].refresh # calls[c].new
    BY DEF Calm, NewCalm
<1>3. \A d \in Calls : Refreshing(d)' <=> d # c /\ Refreshing(d)
    BY <1>1, CalmFacts DEF Refreshing
<1>4. CallsCalm'
    BY <1>1, <1>3, CalmFacts DEF Calm, CallsCalm
<1>5. NewCalm'
    BY <1>1, <1>2, CalmFacts DEF Calm, NewCalm
<1>6. TabsCalm'
    <2>1. \A d \in Calls, s \in Tabs : Refreshing(d)' /\ calls'[d].token = tabs'[s].refresh => calls'[d].tab = s
        BY <1>1, <1>2, <1>3 DEF Calm, TabsCalm
    <2>2. ASSUME NEW s \in Tabs, tabs'[s].refresh # NoToken
          PROVE  \/ ~row'[tabs'[s].refresh].spent
                 \/ \E d \in Calls : Refreshing(d)' /\ calls'[d].tab = s /\ calls'[d].token = tabs'[s].refresh
        <3>1. CASE s = t
            BY <1>2, <3>1
        <3>2. CASE s # t
            <4>1. \/ ~row[tabs[s].refresh].spent
                  \/ \E d \in Calls : Refreshing(d) /\ calls[d].tab = s /\ calls[d].token = tabs[s].refresh
                BY <2>2, <3>2 DEF Calm, TabsCalm
            <4> QED BY <1>1, <1>3, <3>2, <4>1
        <3> QED BY <3>1, <3>2
    <2>3. \A r, s \in Tabs : tabs'[r].refresh = tabs'[s].refresh /\ tabs'[r].refresh # NoToken => r = s
        BY <1>2 DEF Calm, TabsCalm
    <2> QED BY <2>1, <2>2, <2>3 DEF TabsCalm, Refreshing
<1> QED BY <1>4, <1>5, <1>6 DEF Calm

\* The mark: only the exchange that makes it holds the token, and its tab.
LEMMA MarkedCalm ==
    ASSUME Inv, Calm, NEW c \in Calls, MarkExchanged(c)
    PROVE  Calm'
<1> DEFINE k == calls[c].token
           marking == [calls[c] EXCEPT !.step = "issue"]
<1>1. calls[c] \in CallRecords /\ calls[c].step = "mark"
    BY CalmFacts DEF MarkExchanged
<1>2. Refreshing(c) /\ ~row[k].spent /\ k \in Tokens
    BY <1>1, CalmFacts DEF Calm, CallsCalm
<1>3. /\ row' = [row EXCEPT ![k].spent = TRUE] /\ calls' = [calls EXCEPT ![c] = marking]
      /\ UNCHANGED <<revoked, issued, tabs, wanted, refused, faults>>
    BY <1>1, <1>2, CalmFacts DEF MarkExchanged, Unspent
<1>4. /\ marking.kind = calls[c].kind /\ marking.tab = calls[c].tab /\ marking.token = k
      /\ marking.new = calls[c].new /\ marking.result = calls[c].result /\ marking.step = "issue"
    BY <1>1 DEF CallRecords
<1> HIDE DEF marking
<1>5. \A d \in Calls : calls'[d] = IF d = c THEN marking ELSE calls[d]
    BY <1>3, CalmFacts
<1>6. \A d \in Calls : Refreshing(d)' <=> Refreshing(d)
    BY <1>4, <1>5 DEF Refreshing
<1>7. /\ \A j \in Tokens : j # k => row'[j] = row[j]
      /\ \A j \in Tokens : row'[j].expired = row[j].expired
    <2>1. row[k] \in TokenRows
        BY <1>2, CalmFacts
    <2> QED BY <1>2, <1>3, <2>1, CalmFacts DEF TokenRows
<1>8. CallsCalm'
    <2>1. \A d \in Calls : d # c /\ Refreshing(d) => calls[d].token # k
        BY <1>2 DEF Calm, CallsCalm
    <2>2. \A d \in Calls : calls'[d].step # "revoke" /\ calls'[d].result = IF calls'[d].step = "answered" THEN "ok" ELSE "none"
        BY <1>1, <1>4, <1>5 DEF Calm, CallsCalm
    <2>3. \A d \in Calls : calls'[d].step \in {"find", "mark"} => Refreshing(d)' /\ ~row'[calls'[d].token].spent
        BY <1>4, <1>5, <1>6, <1>7, <2>1, CalmFacts DEF Calm, CallsCalm
    <2>4. \A d \in Calls : Refreshing(d)' => calls'[d].tab \in Tabs /\ calls'[d].token # NoToken
        BY <1>4, <1>5, <1>6 DEF Calm, CallsCalm
    <2>5. \A d, e \in Calls : Refreshing(d)' /\ Refreshing(e)'
             /\ (calls'[d].tab = calls'[e].tab \/ calls'[d].token = calls'[e].token) => d = e
        BY <1>4, <1>5, <1>6 DEF Calm, CallsCalm
    <2> QED BY <2>2, <2>3, <2>4, <2>5 DEF CallsCalm, Refreshing
<1>9. NewCalm'
    <2>1. \A d \in Calls : calls'[d].token = calls[d].token /\ calls'[d].new = calls[d].new
        BY <1>4, <1>5
    <2> QED BY <1>3, <1>7, <2>1, CalmFacts DEF Calm, NewCalm
<1>10. TabsCalm'
    <2>1. \A d \in Calls : calls'[d].token = calls[d].token /\ calls'[d].tab = calls[d].tab
        BY <1>4, <1>5
    <2>2. \A s \in Tabs : tabs[s].refresh = k => calls[c].tab = s
        BY <1>2 DEF Calm, TabsCalm
    <2> QED BY <1>2, <1>3, <1>6, <1>7, <2>1, <2>2, CalmFacts DEF Calm, TabsCalm, Refreshing
<1> QED BY <1>3, <1>7, <1>8, <1>9, <1>10 DEF Calm

\* The insertion: nobody can hold a token that was not issued before.
LEMMA IssuedCalm ==
    ASSUME Inv, Calm, NEW c \in Calls, Issue(c)
    PROVE  Calm'
<1> DEFINE n == issued + 1
           new == [owner |-> calls[c].user, spent |-> FALSE, parent |-> calls[c].token, expired |-> FALSE]
           told == [calls[c] EXCEPT !.step = "answered", !.result = "ok", !.new = n]
           answer == IF calls[c].tab = Nobody THEN NoCall ELSE told
<1>1. calls[c] \in CallRecords /\ calls[c].step = "issue" /\ issued < MaxTokens
    BY CalmFacts DEF Issue
<1>2. /\ row' = [row EXCEPT ![n] = new] /\ UNCHANGED <<tabs, refused>>
      /\ calls' = [calls EXCEPT ![c] = answer]
    BY DEF Issue, Answer
<1>3. n \in Tokens /\ n # NoToken /\ \A m \in Nat : m <= issued => m # n
    BY <1>1, CalmFacts, SessionsAssumption DEF Tokens, NoToken
<1>4. /\ told.kind = calls[c].kind /\ told.tab = calls[c].tab /\ told.token = calls[c].token
      /\ told.new = n /\ told.result = "ok" /\ told.step = "answered"
    BY <1>1 DEF CallRecords
<1>5. ~new.spent /\ ~new.expired
    OBVIOUS
<1>6. Refreshing(c) => answer = told
    BY SessionsAssumption DEF Calm, CallsCalm
<1>7. answer \in {NoCall, told}
    OBVIOUS
<1> HIDE DEF n, new, told, answer
<1>8. /\ \A d \in Calls : calls'[d] = IF d = c THEN answer ELSE calls[d]
      /\ row'[n] = new /\ \A k \in Tokens : k # n => row'[k] = row[k]
    BY <1>2, <1>3, CalmFacts
<1>9. \A d \in Calls : /\ Refreshing(d)' <=> Refreshing(d)
                       /\ Refreshing(d) => calls'[d].tab = calls[d].tab /\ calls'[d].token = calls[d].token
    BY <1>4, <1>6, <1>7, <1>8, CalmFacts DEF Refreshing
<1>10. CallsCalm'
    <2>1. \A d \in Calls : calls'[d].step # "revoke" /\ calls'[d].result = IF calls'[d].step = "answered" THEN "ok" ELSE "none"
        BY <1>4, <1>7, <1>8, CalmFacts DEF Calm, CallsCalm
    <2>2. \A d \in Calls : calls'[d].step \in {"find", "mark"} => Refreshing(d)' /\ ~row'[calls'[d].token].spent
        <3> SUFFICES ASSUME NEW d \in Calls, calls'[d].step \in {"find", "mark"}
                     PROVE  Refreshing(d)' /\ ~row'[calls'[d].token].spent
            OBVIOUS
        <3>1. d # c /\ calls'[d] = calls[d]
            BY <1>4, <1>7, <1>8, CalmFacts
        <3>2. Refreshing(d) /\ ~row[calls[d].token].spent /\ calls[d].token \in Tokens
            BY <3>1, CalmFacts DEF Calm, CallsCalm
        <3>3. calls[d].token # n
            BY <1>3, CalmFacts
        <3> QED BY <1>8, <1>9, <3>1, <3>2, <3>3
    <2>3. \A d \in Calls : Refreshing(d)' => calls'[d].tab \in Tabs /\ calls'[d].token # NoToken
        BY <1>9 DEF Calm, CallsCalm
    <2>4. \A d, e \in Calls : Refreshing(d)' /\ Refreshing(e)'
             /\ (calls'[d].tab = calls'[e].tab \/ calls'[d].token = calls'[e].token) => d = e
        BY <1>9 DEF Calm, CallsCalm
    <2> QED BY <2>1, <2>2, <2>3, <2>4 DEF CallsCalm, Refreshing
<1>11. NewCalm'
    <2>1. /\ calls'[c].token \in {calls[c].token, NoToken} /\ calls'[c].new \in {n, NoToken}
          /\ \A d \in Calls : d # c => calls'[d] = calls[d]
        BY <1>4, <1>7, <1>8, CalmFacts
    <2>2. \A d \in Calls : calls[d].token # n /\ calls[d].new # n
        BY <1>3, CalmFacts
    <2>3. \A t \in Tabs : tabs[t].refresh # n
        BY <1>3, CalmFacts
    <2> SUFFICES ASSUME NEW d \in Calls, calls'[d].new # NoToken
                 PROVE  /\ ~row'[calls'[d].new].spent
                        /\ \A e \in Calls : calls'[e].token # calls'[d].new /\ (calls'[e].new = calls'[d].new => e = d)
                        /\ \A t \in Tabs : tabs'[t].refresh # calls'[d].new
        BY DEF NewCalm
    <2>4. CASE d = c
        <3>1. calls'[d].new = n
            BY <2>1, <2>4
        <3>2. \A e \in Calls : calls'[e].token # n /\ (calls'[e].new = n => e = d)
            BY <1>3, <2>1, <2>2, <2>4
        <3> QED BY <1>2, <1>5, <1>8, <2>3, <3>1, <3>2
    <2>5. CASE d # c
        <3>1. calls'[d].new = calls[d].new /\ calls[d].new \in Tokens /\ calls[d].new # n
            BY <2>1, <2>2, <2>5, CalmFacts
        <3>2. /\ ~row[calls[d].new].spent
              /\ \A e \in Calls : calls[e].token # calls[d].new /\ (calls[e].new = calls[d].new => e = d)
              /\ \A t \in Tabs : tabs[t].refresh # calls[d].new
            BY <2>1, <2>5 DEF Calm, NewCalm
        <3>3. \A e \in Calls : calls'[e].token # calls[d].new /\ (calls'[e].new = calls[d].new => e = d)
            BY <2>1, <2>5, <3>1, <3>2, CalmFacts
        <3> QED BY <1>2, <1>8, <3>1, <3>2, <3>3
    <2> QED BY <2>4, <2>5
<1>12. TabsCalm'
    <2>1. \A t \in Tabs : tabs[t].refresh # n /\ tabs'[t].refresh = tabs[t].refresh
        BY <1>2, <1>3, CalmFacts
    <2>2. \A t \in Tabs : tabs[t].refresh # NoToken => row'[tabs[t].refresh] = row[tabs[t].refresh]
        BY <1>8, <2>1, CalmFacts
    <2>3. \A d \in Calls, t \in Tabs : Refreshing(d)' /\ calls'[d].token = tabs'[t].refresh => calls'[d].tab = t
        BY <1>9, <2>1 DEF Calm, TabsCalm
    <2>4. ASSUME NEW t \in Tabs, tabs'[t].refresh # NoToken
          PROVE  \/ ~row'[tabs'[t].refresh].spent
                 \/ \E d \in Calls : Refreshing(d)' /\ calls'[d].tab = t /\ calls'[d].token = tabs'[t].refresh
        <3>1. \/ ~row[tabs[t].refresh].spent
              \/ \E d \in Calls : Refreshing(d) /\ calls[d].tab = t /\ calls[d].token = tabs[t].refresh
            BY <2>1, <2>4 DEF Calm, TabsCalm
        <3> QED BY <1>9, <2>1, <2>2, <2>4, <3>1
    <2>5. \A r, s \in Tabs : tabs'[r].refresh = tabs'[s].refresh /\ tabs'[r].refresh # NoToken => r = s
        BY <2>1 DEF Calm, TabsCalm
    <2> QED BY <2>3, <2>4, <2>5 DEF TabsCalm, Refreshing
<1>13. refused' = {} /\ \A k \in Tokens : ~row'[k].expired
    BY <1>2, <1>5, <1>8 DEF Calm
<1> QED BY <1>10, <1>11, <1>12, <1>13 DEF Calm

LEMMA FindCalm ==
    ASSUME Inv, Calm, NEW c \in Calls, Find(c)
    PROVE  Calm'
<1> DEFINE found == [calls[c] EXCEPT !.step = "mark", !.user = row[calls[c].token].owner]
<1>1. calls[c] \in CallRecords /\ calls[c].step = "find"
    BY CalmFacts DEF Find
<1>2. calls[c].token \in Tokens /\ ~row[calls[c].token].spent /\ ~row[calls[c].token].expired
    BY <1>1, CalmFacts DEF Calm, CallsCalm
<1>3. calls' = [calls EXCEPT ![c] = found] /\ UNCHANGED <<row, tabs, refused>>
    BY <1>1, <1>2, CalmFacts DEF Find
<1>4. /\ found.kind = calls[c].kind /\ found.tab = calls[c].tab /\ found.token = calls[c].token
      /\ found.new = calls[c].new /\ found.result = calls[c].result /\ found.step = "mark"
    BY <1>1 DEF CallRecords
<1> HIDE DEF found
<1>5. \A d \in Calls : calls'[d] = IF d = c THEN found ELSE calls[d]
    BY <1>3, CalmFacts
<1> QED BY <1>1, <1>3, <1>4, <1>5, MovedOn

\* renew(): the exchange under way is joined, or the tab's own token is presented.
LEMMA RenewCalm ==
    ASSUME Inv, Calm, NEW t \in Tabs, NEW tab, TabOK(tab), tab.refresh = tabs[t].refresh,
           NEW caller, Renew(t, tab, caller), UNCHANGED <<row, refused>>
    PROVE  Calm'
<1> DEFINE call == [NoCall EXCEPT !.kind = "refresh", !.tab = t, !.token = tab.refresh, !.step = "find"]
           waits == [tab EXCEPT !.waiting = @ \cup {caller}]
<1>1. \A s \in Tabs : tabs'[s].refresh = tabs[s].refresh
    <2>1. tabs' = [tabs EXCEPT ![t] = waits]
        BY DEF Renew
    <2>2. waits.refresh = tabs[t].refresh
        BY DEF TabOK, TabRecords
    <2> HIDE DEF waits
    <2> QED BY <2>1, <2>2, CalmFacts
<1>2. CASE UNCHANGED calls
    BY <1>1, <1>2, TokenLetGo
<1>3. CASE ~Exchanging(t) /\ tab.refresh # NoToken /\ Send(call)
    <2>1. /\ call.kind = "refresh" /\ call.tab = t /\ call.token = tabs[t].refresh /\ call.new = NoToken
          /\ call.step = "find" /\ call.result = "none"
        BY DEF NoCall
    <2> HIDE DEF call
    <2>2. PICK c \in Calls : calls[c] = NoCall /\ calls' = [calls EXCEPT ![c] = call]
        BY <1>3 DEF Send
    <2> QED BY <1>1, <1>3, <2>1, <2>2, RenewalSent
<1> QED BY <1>2, <1>3 DEF Renew

LEMMA SignInCalm ==
    ASSUME Inv, Calm, NEW t \in Tabs, NEW u \in Users, SignIn(t, u)
    PROVE  Calm'
<1> DEFINE call == [NoCall EXCEPT !.kind = "login", !.tab = t, !.user = u, !.step = "issue"]
<1>1. /\ call.kind = "login" /\ call.token = NoToken /\ call.new = NoToken /\ call.step = "issue" /\ call.result = "none"
    BY DEF NoCall
<1>2. Send(call) /\ UNCHANGED <<row, tabs, refused>>
    BY DEF SignIn
<1> HIDE DEF call
<1>3. PICK c \in Calls : calls[c] = NoCall /\ calls' = [calls EXCEPT ![c] = call]
    BY <1>2 DEF Send
<1> QED BY <1>1, <1>2, <1>3, LoginSent

\* What a tab does by itself leaves its token, or lets it go.
LEMMA TabsCalmly ==
    ASSUME Inv, Calm, NEW t \in Tabs, Navigate(t) \/ RenewOnTime(t) \/ Age(t) \/ SignOut(t)
    PROVE  Calm'
<1> DEFINE cleared == [tabs[t] EXCEPT !.access = "none", !.timer = FALSE]
           rung == [tabs[t] EXCEPT !.timer = FALSE]
<1>1. TabOK(cleared) /\ cleared.refresh = tabs[t].refresh /\ TabOK(rung) /\ rung.refresh = tabs[t].refresh
    BY TabFacts DEF TabOK, TabRecords
<1>2. tabs[t] \in TabRecords
    BY CalmFacts
<1>3. UNCHANGED <<row, refused>>
    BY DEF Navigate, RenewOnTime, Age, SignOut
<1>4. CASE Renew(t, cleared, "guard") \/ Renew(t, rung, "timer")
    <2> HIDE DEF cleared, rung
    <2> QED BY <1>1, <1>3, <1>4, RenewCalm
<1>5. CASE Age(t)
    <2> DEFINE aged == [tabs[t] EXCEPT !.access = IF @ = "fresh" THEN "lapsing" ELSE "expired"]
    <2>1. aged.refresh = tabs[t].refresh /\ tabs' = [tabs EXCEPT ![t] = aged] /\ UNCHANGED calls
        BY <1>2, <1>5, CalmFacts DEF Age, TabRecords
    <2> HIDE DEF aged
    <2>2. \A s \in Tabs : tabs'[s].refresh \in {tabs[s].refresh, NoToken}
        BY <2>1, CalmFacts
    <2> QED BY <1>3, <2>1, <2>2, TokenLetGo
<1>6. CASE SignOut(t)
    <2> DEFINE out == [Ended(tabs[t]) EXCEPT !.page = "signIn"]
    <2>1. out.refresh = NoToken /\ tabs' = [tabs EXCEPT ![t] = out] /\ UNCHANGED calls
        BY <1>2, <1>6, CalmFacts DEF SignOut, Ended, TabRecords
    <2> HIDE DEF out
    <2>2. \A s \in Tabs : tabs'[s].refresh \in {tabs[s].refresh, NoToken}
        BY <2>1, CalmFacts
    <2> QED BY <1>3, <2>1, <2>2, TokenLetGo
<1>7. CASE Navigate(t)
    <2> DEFINE shown == [tabs[t] EXCEPT !.page = "app"]
               turned == [cleared EXCEPT !.page = "signIn"]
    <2>1. shown.refresh = tabs[t].refresh /\ turned.refresh = tabs[t].refresh
        BY <1>2 DEF TabRecords
    <2>2. \/ Renew(t, cleared, "guard")
          \/ UNCHANGED calls /\ (tabs' = [tabs EXCEPT ![t] = shown] \/ tabs' = [tabs EXCEPT ![t] = turned])
        BY <1>7, CalmFacts DEF Navigate
    <2> HIDE DEF shown, turned
    <2>3. ~Renew(t, cleared, "guard") => \A s \in Tabs : tabs'[s].refresh = tabs[s].refresh
        BY <2>1, <2>2, CalmFacts
    <2> QED BY <1>3, <1>4, <2>2, <2>3, TokenLetGo
<1> QED BY <1>4, <1>5, <1>6, <1>7 DEF RenewOnTime

LEMMA ReceiveCalm ==
    ASSUME Inv, Calm, NEW t \in Tabs, NEW c \in Calls, ReceiveRenewal(t, c) \/ ReceiveSignIn(t, c)
    PROVE  Calm'
<1> DEFINE started == Started(tabs[t], calls[c].new)
           shown == [started EXCEPT !.page = "app"]
<1>1. /\ calls[c].tab = t /\ calls[c].step = "answered" /\ calls' = [calls EXCEPT ![c] = NoCall] /\ UNCHANGED row
      /\ tabs[t] \in TabRecords
    BY CalmFacts DEF ReceiveRenewal, ReceiveSignIn
<1>2. calls[c].result = "ok"
    BY <1>1 DEF Calm, CallsCalm
<1>3. calls[c].new # NoToken /\ calls[c].new \in Tokens
    <2>1. calls[c].new # NoToken
        BY <1>1, <1>2 DEF Inv, Types, Known, CallKnown
    <2> QED BY <2>1, CalmFacts
<1>4. /\ TabOK(started) /\ started.refresh = calls[c].new
    BY <1>1, <1>3, StartedOK
<1>5. UNCHANGED refused /\ (tabs' = [tabs EXCEPT ![t] = Resolved(started, TRUE)] \/ tabs' = [tabs EXCEPT ![t] = shown])
    BY <1>2, CalmFacts DEF ReceiveRenewal, ReceiveSignIn
<1> HIDE DEF started
<1>6. Resolved(started, TRUE).refresh = calls[c].new /\ shown.refresh = calls[c].new
    BY <1>4, ResolvedOK DEF TabOK, TabRecords
<1> HIDE DEF shown
<1>7. tabs'[t].refresh = calls[c].new /\ \A s \in Tabs \ {t} : tabs'[s].refresh = tabs[s].refresh
    BY <1>5, <1>6, CalmFacts
<1> QED BY <1>1, <1>3, <1>5, <1>7, TokenReceived

LEMMA CalmStep ==
    ASSUME Inv, faults = 0 => Calm, [Next]_vars, faults' = 0
    PROVE  Calm'
<1>1. faults \in Nat /\ ~Fault
    BY SessionsAssumption DEF Inv, Types, RestOK, Fault
<1>2. CASE UNCHANGED vars
    BY <1>2, TokenLetGo DEF vars
<1>3. CASE Next
    <2>1. Calm
        <3>1. UNCHANGED faults
            BY <1>1, <1>3 DEF Next, Serve, Find, MarkExchanged, RevokeAll, Issue, ServiceFails, TokenExpires,
               Navigate, RenewOnTime, Age, SignOut, Reload, Receive, ReceiveRenewal, ReceiveSignIn,
               LoseAnswer, SignIn, Duplicate
        <3> QED BY <3>1
    <2>2. ASSUME NEW c \in Calls, Serve(c) \/ ServiceFails(c) PROVE Calm'
        <3>1. ~RevokeAll(c) /\ ~ServiceFails(c)
            BY <1>1, <2>1 DEF RevokeAll, ServiceFails, Calm, CallsCalm
        <3> QED BY <2>1, <2>2, <3>1, FindCalm, MarkedCalm, IssuedCalm DEF Serve
    <2>3. ASSUME NEW t \in Tabs, Receive(t) PROVE Calm'
        BY <2>1, <2>3, ReceiveCalm DEF Receive
    <2>4. ASSUME NEW t \in Tabs, NEW u \in Users, SignIn(t, u) PROVE Calm'
        BY <2>1, <2>4, SignInCalm
    <2>5. ASSUME NEW t \in Tabs, Navigate(t) \/ RenewOnTime(t) \/ Age(t) \/ SignOut(t) PROVE Calm'
        BY <2>1, <2>5, TabsCalmly
    <2>6. ASSUME NEW t \in Tabs PROVE /\ ~Reload(t) /\ \A c \in Calls : ~LoseAnswer(t, c)
                                      /\ \A s \in Tabs : ~Duplicate(t, s)
        BY <1>1 DEF Reload, LoseAnswer, Duplicate
    <2>7. \A k \in Tokens : ~TokenExpires(k)
        BY <1>1 DEF TokenExpires
    <2> QED BY <1>3, <2>2, <2>3, <2>4, <2>5, <2>6, <2>7 DEF Next
<1> QED BY <1>2, <1>3

LEMMA InitCalm == Init => Calm
<1> SUFFICES ASSUME Init PROVE Calm
    OBVIOUS
<1>1. /\ \A c \in Calls : calls[c] = NoCall
      /\ \A t \in Tabs : tabs[t].refresh = NoToken
      /\ refused = {} /\ \A k \in Tokens : ~row[k].expired
    BY DEF Init, Closed, Unissued
<1> QED BY <1>1 DEF Calm, CallsCalm, NewCalm, TabsCalm, Refreshing, NoCall

-----------------------------------------------------------------------------
\* Every table, request and tab holds what its type says, and no tab holds an access
\* token, or schedules a renewal, without the refresh token to renew it with.
THEOREM TypeCorrect == Spec => []TypeOK
<1>1. Inv => TypeOK
    BY TypesInParts DEF Inv
<1> QED BY <1>1, InitInv, StepInv, PTL DEF Spec

\* However many exchanges present a refresh token at once, in any order of their three
\* statements, one of them inserts a successor (RefreshTokenRepository.markExchanged).
THEOREM OneSuccessorHolds == Spec => []OneSuccessor
<1>1. Inv => OneSuccessor
    BY DEF Inv
<1> QED BY <1>1, InitInv, StepInv, PTL DEF Spec

\* What the replay alarm spends buys nothing, even for an exchange that read the row as
\* live before the alarm.
THEOREM RevokedIsDeadHolds == Spec => []RevokedIsDead
<1>1. Inv => RevokedIsDead
    BY DEF Inv
<1> QED BY <1>1, InitInv, StepInv, PTL DEF Spec

\* Through lost answers, failures, reloads, duplicated tabs and sign-ins in the middle of
\* an exchange, no signed-in tab is left that nobody will renew (SessionRefresh).
THEOREM RenewalUnderWayHolds == Spec => []RenewalUnderWay
<1>1. Inv => RenewalUnderWay
    BY DEF Inv
<1> QED BY <1>1, InitInv, StepInv, PTL DEF Spec

\* Without a fault, whatever the tabs and their customers do and in whatever order the
\* service works, no refusal ends a session (SessionRefresh, one exchange at a time).
THEOREM SignedOutForCauseHolds == Spec => []SignedOutForCause
<1>1. Inv /\ (faults = 0 => Calm) /\ [Next]_vars => (Inv /\ (faults = 0 => Calm))'
    BY StepInv, CalmStep
<1>2. Inv /\ (faults = 0 => Calm) => SignedOutForCause
    BY SessionsAssumption DEF SignedOutForCause, Calm, Inv, Types, RestOK
<1> QED BY <1>1, <1>2, InitInv, InitCalm, PTL DEF Spec

-----------------------------------------------------------------------------
(* The login throttle of the same service: how many failures one window can hold,        *)
(* whatever overlaps and whatever Redis answers.                                         *)

LoginSteps == {"idle", "verify", "success", "failure"}

\* The types in parts, for the steps that disturb one of them.
CounterOK(counter) == counter \in Counters /\ (counter.count > 0 => counter.left > 0)
CountersOK == CounterOK(redis) /\ memory \in [Instances -> Counters] /\ \A i \in Instances : CounterOK(memory[i])
LoginsOK == login \in [Logins -> [at : Instances, step : LoginSteps]]

ThrottleInv == CountersOK /\ LoginsOK /\ commandFaults \in 0..MaxCommandFaults /\ FailuresBounded

LEMMA CounterTypes == CountersOK /\ LoginsOK /\ commandFaults \in 0..MaxCommandFaults <=> ThrottleTypeOK
BY DEF CountersOK, CounterOK, LoginsOK, ThrottleTypeOK, Counters, LoginSteps

LEMMA NoWindowOK == CounterOK(NoWindow) /\ NoWindow.count = 0
BY LoginThrottleAssumption DEF CounterOK, Counters, NoWindow

LEMMA IncrementedOK ==
    ASSUME NEW counter, CounterOK(counter)
    PROVE  CounterOK(Incremented(counter)) /\ Incremented(counter).count = counter.count + 1
<1>1. CASE counter.count = 0
    BY <1>1, LoginThrottleAssumption DEF Incremented, CounterOK, Counters
<1>2. CASE counter.count # 0
    BY <1>2 DEF Incremented, CounterOK, Counters
<1> QED BY <1>1, <1>2

LEMMA AgedOK ==
    ASSUME NEW counter, CounterOK(counter)
    PROVE  CounterOK(Aged(counter)) /\ Aged(counter).count <= counter.count
<1>1. CASE counter.left = 1
    <2>1. Aged(counter) = NoWindow
        BY <1>1 DEF Aged
    <2>2. counter.count \in Nat
        BY DEF CounterOK, Counters
    <2> QED BY <2>1, <2>2, NoWindowOK DEF CounterOK, Counters
<1>2. CASE counter.left > 1
    BY <1>2, LoginThrottleAssumption DEF Aged, CounterOK, Counters
<1>3. CASE counter.left = 0
    BY <1>3 DEF Aged, CounterOK, Counters
<1> QED BY <1>1, <1>2, <1>3, LoginThrottleAssumption DEF CounterOK, Counters

\* The logins under way are no more than those there are.
LEMMA UnderWayBounded ==
    ASSUME NEW S \in SUBSET Logins
    PROVE  IsFiniteSet(S) /\ Cardinality(S) \in Nat /\ Cardinality(S) <= Parallel
<1>1. IsFiniteSet(Logins) /\ Cardinality(Logins) = Parallel
    BY FS_Interval, LoginThrottleAssumption DEF Logins
<1>2. IsFiniteSet(S) /\ Cardinality(S) <= Cardinality(Logins)
    BY <1>1, FS_Subset
<1> QED BY <1>1, <1>2, FS_CardinalityType

LEMMA ThrottleInitInv == ThrottleInit => ThrottleInv
<1> SUFFICES ASSUME ThrottleInit PROVE ThrottleInv
    OBVIOUS
<1>1. CountersOK
    BY NoWindowOK DEF ThrottleInit, CountersOK, CounterOK
<1>2. LoginsOK
    BY LoginThrottleAssumption DEF ThrottleInit, LoginsOK, LoginSteps
<1>3. 0 \in 0..MaxCommandFaults
    BY LoginThrottleAssumption
<1>4. FailuresBounded
    <2>1. redis.count = 0 /\ commandFaults = 0
        BY NoWindowOK DEF ThrottleInit
    <2>2. Cardinality(UnderWay) \in Nat /\ Cardinality(UnderWay) <= Parallel
        BY UnderWayBounded DEF UnderWay
    <2> QED BY <2>1, <2>2, LoginThrottleAssumption DEF FailuresBounded
<1> QED BY <1>1, <1>2, <1>3, <1>4 DEF ThrottleInv, ThrottleInit

\* A login let in, or refused: at the count of Redis there is room for all that may
\* overlap, and at an instance's own a command has failed.
LEMMA ArriveInv ==
    ASSUME ThrottleInv, NEW l \in Logins, NEW i \in Instances, Arrive(l, i)
    PROVE  ThrottleInv'
<1>1. PICK n \in {redis.count, memory[i].count} :
          /\ Counted(i, n)
          /\ login' = [login EXCEPT ![l] = [at |-> i, step |-> IF n >= MaxAttempts THEN "idle" ELSE "verify"]]
    BY DEF Arrive
<1>2. redis' = redis /\ memory' = memory /\ Idle(l)
    BY DEF Arrive
<1>3. CountersOK' /\ LoginsOK'
    BY <1>1, <1>2 DEF ThrottleInv, CountersOK, CounterOK, LoginsOK, LoginSteps
<1>4. commandFaults' \in 0..MaxCommandFaults /\ (commandFaults' = commandFaults \/ commandFaults' = commandFaults + 1)
    BY <1>1, LoginThrottleAssumption DEF ThrottleInv, Counted, CommandFault
<1>5. redis.count \in Nat /\ commandFaults \in Nat /\ memory[i].count \in Nat /\ n \in Nat
    BY <1>1, LoginThrottleAssumption DEF ThrottleInv, CountersOK, CounterOK, Counters
<1>6. UnderWay \in SUBSET Logins /\ UnderWay' \in SUBSET Logins
    BY DEF UnderWay
<1>7. FailuresBounded'
    <2>1. CASE n >= MaxAttempts
        <3>1. UnderWay' = UnderWay
            BY <1>1, <1>2, <2>1 DEF ThrottleInv, LoginsOK, UnderWay, Idle
        <3> QED BY <3>1, <1>2, <1>4, <1>5, <1>6, UnderWayBounded, LoginThrottleAssumption DEF ThrottleInv, FailuresBounded
    <2>2. CASE n < MaxAttempts /\ n = redis.count
        <3>1. Cardinality(UnderWay') \in Nat /\ Cardinality(UnderWay') <= Parallel
            BY <1>6, UnderWayBounded
        <3>2. commandFaults' \in Nat
            BY <1>4, LoginThrottleAssumption
        <3> QED BY <2>2, <3>1, <3>2, <1>2, <1>5, LoginThrottleAssumption DEF FailuresBounded
    <2>3. CASE n < MaxAttempts /\ n # redis.count
        <3>1. commandFaults' = commandFaults + 1
            BY <2>3, <1>1 DEF Counted, CommandFault
        <3>2. UnderWay' = UnderWay \cup {l} /\ l \notin UnderWay
            <4>1. ~(n >= MaxAttempts)
                BY <2>3, <1>5, LoginThrottleAssumption
            <4>2. login' = [login EXCEPT ![l] = [at |-> i, step |-> "verify"]]
                BY <4>1, <1>1
            <4> QED BY <4>2, <1>2 DEF ThrottleInv, LoginsOK, UnderWay, Idle
        <3>3. Cardinality(UnderWay') = Cardinality(UnderWay) + 1 /\ Cardinality(UnderWay) \in Nat
            BY <3>2, <1>6, UnderWayBounded, FS_AddElement
        <3> QED BY <3>1, <3>3, <1>2, <1>5, LoginThrottleAssumption DEF ThrottleInv, FailuresBounded
    <2> QED BY <1>1, <1>5, <2>1, <2>2, <2>3, LoginThrottleAssumption
<1> QED BY <1>3, <1>4, <1>7 DEF ThrottleInv

\* A login recorded: it is no longer under way, and Redis counts at most one more.
LEMMA RecordedInv ==
    ASSUME ThrottleInv, NEW l \in Logins, ~Idle(l), login' = [login EXCEPT ![l].step = "idle"],
           NEW shared, NEW own, CounterOK(shared), CounterOK(own), shared.count <= redis.count + 1,
           Store(login[l].at, shared, own)
    PROVE  ThrottleInv'
<1>1. login[l].at \in Instances
    BY DEF ThrottleInv, LoginsOK
<1>2. /\ redis' \in {redis, shared} /\ (commandFaults' = commandFaults \/ commandFaults' = commandFaults + 1)
      /\ memory' = memory \/ memory' = [memory EXCEPT ![login[l].at] = own]
      /\ commandFaults' \in 0..MaxCommandFaults
    BY LoginThrottleAssumption DEF Store, CommandFault, ThrottleInv
<1>3. CountersOK'
    <2>1. CounterOK(redis')
        BY <1>2 DEF ThrottleInv, CountersOK
    <2>2. memory' \in [Instances -> Counters] /\ \A i \in Instances : CounterOK(memory'[i])
        BY <1>1, <1>2 DEF ThrottleInv, CountersOK, CounterOK
    <2> QED BY <2>1, <2>2 DEF CountersOK, CounterOK
<1>4. LoginsOK'
    BY DEF ThrottleInv, LoginsOK, LoginSteps
<1>5. UnderWay' = UnderWay \ {l} /\ l \in UnderWay /\ UnderWay \in SUBSET Logins
    BY DEF ThrottleInv, LoginsOK, UnderWay, Idle
<1>6. Cardinality(UnderWay') = Cardinality(UnderWay) - 1 /\ Cardinality(UnderWay) \in Nat
    BY <1>5, UnderWayBounded, FS_RemoveElement
<1>7. redis.count \in Nat /\ redis'.count \in Nat /\ redis'.count <= redis.count + 1 /\ commandFaults \in Nat
    BY <1>2, LoginThrottleAssumption DEF ThrottleInv, CountersOK, CounterOK, Counters
<1>8. FailuresBounded'
    BY <1>2, <1>6, <1>7, LoginThrottleAssumption DEF ThrottleInv, FailuresBounded
<1> QED BY <1>2, <1>3, <1>4, <1>8 DEF ThrottleInv

LEMMA TickInv ==
    ASSUME ThrottleInv, Tick
    PROVE  ThrottleInv'
<1>1. CountersOK'
    <2>1. CounterOK(redis')
        BY AgedOK DEF Tick, ThrottleInv, CountersOK
    <2>2. \A i \in Instances : CounterOK(memory'[i])
        BY AgedOK DEF Tick, ThrottleInv, CountersOK
    <2>3. memory' \in [Instances -> Counters]
        BY <2>2 DEF Tick, CounterOK
    <2> QED BY <2>1, <2>2, <2>3 DEF CountersOK, CounterOK
<1>2. redis'.count <= redis.count /\ redis'.count \in Nat /\ redis.count \in Nat
    BY <1>1, AgedOK DEF Tick, ThrottleInv, CountersOK, CounterOK, Counters
<1>3. UnderWay' = UnderWay /\ UnderWay \in SUBSET Logins
    BY DEF Tick, UnderWay, Idle
<1>4. FailuresBounded'
    BY <1>2, <1>3, UnderWayBounded, LoginThrottleAssumption DEF Tick, ThrottleInv, FailuresBounded
<1> QED BY <1>1, <1>4 DEF Tick, ThrottleInv, LoginsOK

LEMMA ThrottleStepInv == ThrottleInv /\ [ThrottleNext]_throttleVars => ThrottleInv'
<1> SUFFICES ASSUME ThrottleInv, [ThrottleNext]_throttleVars PROVE ThrottleInv'
    OBVIOUS
<1>1. ASSUME NEW l \in Logins, NEW i \in Instances, Arrive(l, i) PROVE ThrottleInv'
    BY <1>1, ArriveInv
<1>2. ASSUME NEW l \in Logins, Verify(l) PROVE ThrottleInv'
    <2>1. CountersOK' /\ LoginsOK'
        BY <1>2 DEF Verify, ThrottleInv, CountersOK, CounterOK, LoginsOK, LoginSteps
    <2>2. UnderWay' = UnderWay
        BY <1>2 DEF Verify, ThrottleInv, LoginsOK, UnderWay, Idle
    <2> QED BY <1>2, <2>1, <2>2 DEF Verify, ThrottleInv, FailuresBounded
<1>3. ASSUME NEW l \in Logins, RecordFailure(l) PROVE ThrottleInv'
    <2>1. login[l].at \in Instances /\ ~Idle(l)
        BY <1>3 DEF RecordFailure, ThrottleInv, LoginsOK, Idle
    <2>2. CounterOK(redis) /\ CounterOK(memory[login[l].at])
        BY <2>1 DEF ThrottleInv, CountersOK
    <2>3. /\ CounterOK(Incremented(redis)) /\ CounterOK(Incremented(memory[login[l].at]))
          /\ Incremented(redis).count <= redis.count + 1
        BY <2>2, IncrementedOK DEF CounterOK, Counters
    <2> QED BY <1>3, <2>1, <2>3, RecordedInv DEF RecordFailure
<1>4. ASSUME NEW l \in Logins, RecordSuccess(l) PROVE ThrottleInv'
    <2>1. ~Idle(l) /\ NoWindow.count <= redis.count + 1
        BY <1>4, NoWindowOK DEF RecordSuccess, Idle, ThrottleInv, CountersOK, CounterOK, Counters
    <2> QED BY <1>4, <2>1, NoWindowOK, RecordedInv DEF RecordSuccess
<1>5. CASE Tick
    BY <1>5, TickInv
<1>6. CASE UNCHANGED throttleVars
    BY <1>6 DEF throttleVars, ThrottleInv, CountersOK, CounterOK, LoginsOK, FailuresBounded, UnderWay, Idle
<1> QED BY <1>1, <1>2, <1>3, <1>4, <1>5, <1>6 DEF ThrottleNext

\* Every counter that counts has a window that will close, on every instance.
THEOREM ThrottleTypeCorrect == ThrottleSpec => []ThrottleTypeOK
<1>1. ThrottleInv => ThrottleTypeOK
    BY CounterTypes DEF ThrottleInv
<1> QED BY <1>1, ThrottleInitInv, ThrottleStepInv, PTL DEF ThrottleSpec

\* The failures of one window exceed the limit only by the logins that overlap at its edge
\* and by the commands Redis did not answer: for any number of instances and any limit.
THEOREM ThrottleBounds == ThrottleSpec => []FailuresBounded
<1>1. ThrottleInv => FailuresBounded
    BY DEF ThrottleInv
<1> QED BY <1>1, ThrottleInitInv, ThrottleStepInv, PTL DEF ThrottleSpec
=============================================================================
