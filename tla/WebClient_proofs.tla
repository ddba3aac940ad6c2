--------------------------- MODULE WebClient_proofs ---------------------------
(***************************************************************************)
(* What the web client asks of the servers, and what it shows of their     *)
(* answers: the token goes exactly where it is due, for every pair of      *)
(* origins; each symbol is asked for once, whatever screens want it, and   *)
(* what one lookup holds can be read on return; and which screens show     *)
(* only what was asked for last, in whatever order the answers come.       *)
(***************************************************************************)
EXTENDS Screens, InstrumentCatalog, FiniteSetTheorems, WellFoundedInduction, TLAPS

(* The token. *)

\* A request of the Trade REST API's protected routes: due, carried and asked for.
Protected(request) ==
    \E verb, path, required : path # <<>> /\ request = Trade(verb, path, required)

Public == {Login, Refresh, Register, ApplyForAccount, GetHealth}

LEMMA ProtectedCarries ==
    ASSUME NEW request, Protected(request)
    PROVE  CarriesToken(request) /\ request.bearer /\ Guarded(request)
BY DEF Protected, Trade, Request, CarriesToken, Guarded

\* The routes of the Trade REST API that need a token.
LEMMA TradeRequests ==
    ASSUME NEW request \in Requests \ (Public \cup {GetCurrentUser})
    PROVE  Protected(request)
<1> USE DEF Protected
<1>1. CASE request \in TradeApi \cup MarketDataApi \cup InstrumentsApi
    BY <1>1 DEF TradeApi, MarketDataApi, InstrumentsApi, GetAccount, GetBalance, GetOrders, GetPositions,
                CancelOrder, PlaceOrder, GetTradableInstruments, GetCandles, GetQuotes
<1>2. CASE request \in PaymentsApi \cup NotificationsApi
    BY <1>2 DEF PaymentsApi, NotificationsApi, Deposit, Withdraw, GetBankAccount, GetTransfers,
                GetNotifications, GetUnreadCount, MarkRead
<1>3. CASE request \in PortfolioApi \cup PreferencesApi \cup AdviceApi
    BY <1>3 DEF PortfolioApi, PreferencesApi, AdviceApi, GetPortfolioSummary, GetPricedPositions, GetPnl,
                GetPreferences, SavePreferences, GetAccountAdvice, GetSignal
<1>4. CASE request \in StrategiesApi
    BY <1>4 DEF StrategiesApi, GetStrategies, CreateStrategy, DeleteStrategy, GetStrategyRuns, SetStrategyEnabled
<1>5. CASE request \in WatchlistsApi \cup {RenameWatchlist}
    BY <1>5 DEF WatchlistsApi, GetWatchlists, CreateWatchlist, RenameWatchlist, DeleteWatchlist,
                AddWatchlistItem, RemoveWatchlistItem, Entry, GetAlerts, CreateAlert, CancelAlert, RearmAlert
<1>6. request \in Sent => \/ request \in AuthApi \cup OnboardingApi
                          \/ request \in TradeApi \cup MarketDataApi \cup InstrumentsApi
                          \/ request \in PaymentsApi \cup NotificationsApi
                          \/ request \in PortfolioApi \cup PreferencesApi \cup AdviceApi
                          \/ request \in StrategiesApi \cup WatchlistsApi
    BY DEF Sent
<1>7. request \notin AuthApi \cup OnboardingApi
    BY DEF Public, AuthApi, OnboardingApi
<1> QED BY <1>1, <1>2, <1>3, <1>4, <1>5, <1>6, <1>7 DEF Requests, Public

\* No protected request is refused the token, no public one is given it or asked for it:
\* for every choice of the two origins, equal or not.
THEOREM EveryRequestCarriesItsToken == TokenWhereDue
<1> SUFFICES ASSUME NEW request \in Requests
             PROVE  (CarriesToken(request) <=> request.bearer) /\ (Guarded(request) <=> request.bearer)
    BY DEF TokenWhereDue
<1>1. CASE request \in {Login, Refresh, Register}
    BY <1>1 DEF Login, Refresh, Register, Auth, Request, CarriesToken, Guarded
<1>2. CASE request \in {ApplyForAccount, GetHealth}
    BY <1>2 DEF ApplyForAccount, GetHealth, Request, CarriesToken, Guarded
<1>3. CASE request = GetCurrentUser
    BY <1>3 DEF GetCurrentUser, Auth, Request, CarriesToken, Guarded
<1>4. CASE request \notin Public \cup {GetCurrentUser}
    BY <1>4, TradeRequests, ProtectedCarries
<1> QED BY <1>1, <1>2, <1>3, <1>4 DEF Public

\* A customer whose token has not run out gets past every guard, on both servers, with
\* what the interceptor adds and nothing else, as a strategy does; and one without a token
\* gets just the requests whose description asks for none.  The two services must be given
\* the same issuer.
THEOREM TokenOpensEveryGuard ==
    ASSUME ExpectedIssuer = AuthIssuer, NEW request \in Requests, NEW credential,
           NEW iat \in Nat, NEW now \in Nat,
           IssueToken(credential, iat) # None, IssueForStrategy(credential, iat) # None
    PROVE  /\ now < iat + 900 => Admitted(request, IssueToken(credential, iat), now)
           /\ now < iat + 300 => Admitted(request, IssueForStrategy(credential, iat), now)
           /\ Admitted(request, None, now) <=> ~request.bearer
<1>1. (CarriesToken(request) <=> request.bearer) /\ (Guarded(request) <=> request.bearer)
    BY EveryRequestCarriesItsToken DEF TokenWhereDue
<1>2. ASSUME now < iat + 900 PROVE Verified(request, IssueToken(credential, iat), now)
    BY <1>2 DEF Verified, IssueToken, Claims
<1>3. ASSUME now < iat + 300 PROVE Verified(request, IssueForStrategy(credential, iat), now)
    BY <1>3 DEF Verified, IssueForStrategy, Claims
<1> QED BY <1>1, <1>2, <1>3 DEF Admitted
-----------------------------------------------------------------------------
(* The shared catalog of instruments. *)

CatalogTypes ==
    /\ step \in [Calls -> {"idle", "resolving", "returned"}]
    /\ symbols \in [Calls -> SUBSET Symbols]
    /\ rest \in [Calls -> SUBSET Symbols]
    /\ chunk \in [Calls -> SUBSET Symbols]
    /\ underWay \in [Calls -> SUBSET (Calls \X SUBSET Symbols)]

\* What is outstanding or answered is in asked, so no other call wants it; what a lookup
\* holds is no longer to be sent.
AskedOrTold ==
    /\ \A c \in Calls : Outstanding(c) \subseteq asked
    /\ \A c \in Calls : chunk[c] \cap rest[c] = {}
    /\ answered \subseteq asked

CatalogInv == CatalogTypes /\ AskedOrTold /\ AskedOnce

LEMMA CatalogInitInv == CatalogInit => CatalogInv
BY DEF CatalogInit, CatalogInv, CatalogTypes, AskedOrTold, AskedOnce, Outstanding

\* A lookup sent splits what a call wants, and is no business of the other calls.
LEMMA LookUpSplits ==
    ASSUME CatalogTypes, NEW c \in Calls, NEW wanted \in SUBSET Symbols, LookUp(c, wanted)
    PROVE  /\ chunk' \in [Calls -> SUBSET Symbols] /\ rest' \in [Calls -> SUBSET Symbols]
           /\ chunk'[c] \cup rest'[c] = wanted /\ chunk'[c] \cap rest'[c] = {}
           /\ \A d \in Calls \ {c} : chunk'[d] = chunk[d] /\ rest'[d] = rest[d]
BY DEF CatalogTypes, LookUp, Chunks

LEMMA ResolveInv ==
    ASSUME CatalogInv, NEW c \in Calls, NEW wanted \in SUBSET Symbols, Resolve(c, wanted)
    PROVE  CatalogInv'
<1>1. LookUp(c, wanted \ asked) /\ asked' = asked \cup wanted /\ answered' = answered
    BY DEF Resolve
<1>2. /\ chunk' \in [Calls -> SUBSET Symbols] /\ rest' \in [Calls -> SUBSET Symbols]
      /\ chunk'[c] \cup rest'[c] = wanted \ asked /\ chunk'[c] \cap rest'[c] = {}
      /\ \A d \in Calls \ {c} : chunk'[d] = chunk[d] /\ rest'[d] = rest[d]
    BY <1>1, LookUpSplits DEF CatalogInv
<1>3. Pending(wanted) \in SUBSET (Calls \X SUBSET Symbols)
    BY DEF Pending, CatalogInv, CatalogTypes
<1>4. CatalogTypes'
    BY <1>2, <1>3 DEF CatalogInv, CatalogTypes, Resolve
<1>5. AskedOrTold'
    BY <1>1, <1>2 DEF CatalogInv, AskedOrTold, Outstanding
<1>6. AskedOnce'
    BY <1>1, <1>2 DEF CatalogInv, AskedOrTold, AskedOnce, Outstanding
<1> QED BY <1>4, <1>5, <1>6 DEF CatalogInv

\* A lookup over: what is left is what was to be sent.
LEMMA LookupOverInv ==
    ASSUME CatalogInv, NEW c \in Calls, LookUp(c, rest[c]), UNCHANGED <<step, symbols, underWay>>,
           asked \ chunk[c] \subseteq asked',
           \/ answered' = answered
           \/ answered' = answered \cup chunk[c] /\ chunk[c] \subseteq asked'
    PROVE  CatalogInv'
<1>1. rest[c] \in SUBSET Symbols
    BY DEF CatalogInv, CatalogTypes
<1>2. /\ chunk' \in [Calls -> SUBSET Symbols] /\ rest' \in [Calls -> SUBSET Symbols]
      /\ chunk'[c] \cup rest'[c] = rest[c] /\ chunk'[c] \cap rest'[c] = {}
      /\ \A d \in Calls \ {c} : chunk'[d] = chunk[d] /\ rest'[d] = rest[d]
    BY <1>1, LookUpSplits DEF CatalogInv
<1>3. CatalogTypes'
    BY <1>2 DEF CatalogInv, CatalogTypes
<1>4. AskedOrTold'
    BY <1>2 DEF CatalogInv, AskedOrTold, AskedOnce, Outstanding
<1>5. AskedOnce'
    BY <1>2 DEF CatalogInv, AskedOrTold, AskedOnce, Outstanding
<1> QED BY <1>3, <1>4, <1>5 DEF CatalogInv

LEMMA CatalogStepInv == CatalogInv /\ [CatalogNext]_catalogVars => CatalogInv'
<1> SUFFICES ASSUME CatalogInv, [CatalogNext]_catalogVars PROVE CatalogInv'
    OBVIOUS
<1>1. ASSUME NEW c \in Calls, NEW wanted \in SUBSET Symbols, Resolve(c, wanted) PROVE CatalogInv'
    BY <1>1, ResolveInv
<1>2. ASSUME NEW c \in Calls, LookupAnswered(c) PROVE CatalogInv'
    <2>1. chunk[c] \subseteq asked
        BY DEF CatalogInv, AskedOrTold, Outstanding
    <2> QED BY <1>2, <2>1, LookupOverInv DEF LookupAnswered
<1>3. ASSUME NEW c \in Calls, LookupFails(c) PROVE CatalogInv'
    BY <1>3, LookupOverInv DEF LookupFails
<1>4. ASSUME NEW c \in Calls, Return(c) PROVE CatalogInv'
    <2>1. CatalogTypes'
        BY <1>4 DEF CatalogInv, CatalogTypes, Return
    <2>2. AskedOrTold' /\ AskedOnce'
        BY <1>4 DEF CatalogInv, AskedOrTold, AskedOnce, Outstanding, Return
    <2> QED BY <2>1, <2>2 DEF CatalogInv
<1>5. ASSUME NEW found \in SUBSET (Symbols \cap Listed), Remember(found) PROVE CatalogInv'
    BY <1>5 DEF CatalogInv, CatalogTypes, AskedOrTold, AskedOnce, Outstanding, Remember, calls
<1>6. CASE UNCHANGED catalogVars
    BY <1>6 DEF CatalogInv, CatalogTypes, AskedOrTold, AskedOnce, Outstanding, catalogVars, calls
<1> QED BY <1>1, <1>2, <1>3, <1>4, <1>5, <1>6 DEF CatalogNext

\* No two screens look a symbol up at once, and none looks up again what a lookup has
\* answered: for every set of symbols and calls, and every size of a lookup.
THEOREM SymbolsAskedOnce == CatalogSpec => []AskedOnce
<1>1. CatalogInv => AskedOnce
    BY DEF CatalogInv
<1> QED BY <1>1, CatalogInitInv, CatalogStepInv, PTL DEF CatalogSpec

-----------------------------------------------------------------------------
(* Readable on return, as long as no list is longer than one lookup takes  *)

Fits(list) == IsFiniteSet(list) /\ Cardinality(list) <= LookupLimit

\* What each screen asks for; together the screens may ask for many times as much.
ListsFit == \A c \in Calls : Fits(symbols[c])

Told == known \cup missing \cup failed

\* Nothing is ever left to be sent, so whatever was asked for is told or being looked up,
\* and a call that has not returned waits for what is.
Whole == \A c \in Calls : rest[c] = {} /\ (step[c] = "idle" => chunk[c] = {})
Heard == \A s \in asked : s \in known \cup missing \/ \E d \in Calls : s \in chunk[d]
Awaited ==
    \A c \in Calls : step[c] = "resolving" =>
        \A s \in symbols[c] :
            \/ s \in Told
            \/ s \in chunk[c]
            \/ \E d \in Calls : s \in chunk[d] /\ <<d, chunk[d]>> \in underWay[c]

WholeInv == CatalogTypes /\ Whole /\ Heard /\ Awaited /\ ReadableOnReturn

LEMMA WholeInit == CatalogInit => WholeInv
BY DEF CatalogInit, WholeInv, CatalogTypes, Whole, Heard, Awaited, ReadableOnReturn

LEMMA PartFits ==
    ASSUME LookupLimit \in Nat, NEW list, Fits(list), NEW part \in SUBSET list
    PROVE  Fits(part)
<1>1. IsFiniteSet(part) /\ Cardinality(part) <= Cardinality(list)
    BY FS_Subset DEF Fits
<1>2. Cardinality(part) \in Nat /\ Cardinality(list) \in Nat
    BY <1>1, FS_CardinalityType DEF Fits
<1> QED BY <1>1, <1>2 DEF Fits

\* One lookup takes all a call wants.
LEMMA AllSent ==
    ASSUME CatalogTypes, NEW c \in Calls, NEW wanted \in SUBSET Symbols, Fits(wanted), LookUp(c, wanted)
    PROVE  chunk' = [chunk EXCEPT ![c] = wanted] /\ rest' = [rest EXCEPT ![c] = {}]
<1>1. PICK p \in Chunks(wanted) : chunk' = [chunk EXCEPT ![c] = p] /\ rest' = [rest EXCEPT ![c] = wanted \ p]
    BY DEF LookUp
<1>2. p \in SUBSET wanted /\ Cardinality(p) = Cardinality(wanted)
    BY <1>1 DEF Chunks, Fits
<1>3. p = wanted
    BY <1>2, FS_Subset DEF Fits
<1>4. wanted \ p = {}
    BY <1>3
<1> QED BY <1>1, <1>3, <1>4

LEMMA ResolveWhole ==
    ASSUME LookupLimit \in Nat, WholeInv, ListsFit', NEW c \in Calls, NEW wanted \in SUBSET Symbols, Resolve(c, wanted)
    PROVE  WholeInv'
<1>1. /\ step[c] = "idle" /\ chunk[c] = {}
      /\ step' = [step EXCEPT ![c] = "resolving"] /\ symbols' = [symbols EXCEPT ![c] = wanted]
      /\ underWay' = [underWay EXCEPT ![c] = Pending(wanted)] /\ asked' = asked \cup wanted
      /\ known' = known /\ missing' = missing /\ failed' = failed
    BY DEF Resolve, WholeInv, Whole
<1>2. chunk' = [chunk EXCEPT ![c] = wanted \ asked] /\ rest' = [rest EXCEPT ![c] = {}]
    <2>1. symbols'[c] = wanted
        BY <1>1 DEF WholeInv, CatalogTypes
    <2>2. Fits(wanted)
        BY <2>1 DEF ListsFit, Fits
    <2>3. Fits(wanted \ asked)
        BY <2>2, PartFits
    <2> QED BY <2>3, AllSent DEF Resolve, WholeInv
<1>3. Pending(wanted) \in SUBSET (Calls \X SUBSET Symbols)
    BY DEF Pending, WholeInv, CatalogTypes
<1>4. CatalogTypes'
    BY <1>1, <1>2, <1>3 DEF WholeInv, CatalogTypes
<1>5. Whole'
    BY <1>1, <1>2 DEF WholeInv, Whole, CatalogTypes
<1>6. Heard'
    <2> SUFFICES ASSUME NEW s \in asked', s \notin known \cup missing
                 PROVE  \E d \in Calls : s \in chunk'[d]
        BY <1>1 DEF Heard
    <2>1. CASE s \in wanted \ asked
        BY <2>1, <1>2 DEF WholeInv, CatalogTypes
    <2>2. CASE s \in asked
        <3>1. PICK d \in Calls : s \in chunk[d]
            BY <2>2 DEF WholeInv, Heard
        <3> QED BY <3>1, <1>1, <1>2 DEF WholeInv, CatalogTypes
    <2> QED BY <1>1, <2>1, <2>2
<1>7. Awaited'
    <2> SUFFICES ASSUME NEW b \in Calls, step'[b] = "resolving", NEW s \in symbols'[b], s \notin Told
                 PROVE  \/ s \in chunk'[b]
                        \/ \E d \in Calls : s \in chunk'[d] /\ <<d, chunk'[d]>> \in underWay'[b]
        BY <1>1 DEF Awaited, Told
    <2>1. CASE b = c
        <3>1. s \in wanted
            BY <2>1, <1>1 DEF WholeInv, CatalogTypes
        <3>2. CASE s \notin asked
            BY <3>1, <3>2, <2>1, <1>2 DEF WholeInv, CatalogTypes
        <3>3. CASE s \in asked
            <4>1. PICK d \in Calls : s \in chunk[d]
                BY <3>3 DEF WholeInv, Heard, Told
            <4>2. <<d, chunk[d]>> \in Pending(wanted)
                BY <4>1, <3>1 DEF Pending
            <4>3. d # c /\ chunk'[d] = chunk[d] /\ underWay'[b] = Pending(wanted)
                BY <4>1, <2>1, <1>1, <1>2 DEF WholeInv, CatalogTypes
            <4> QED BY <4>1, <4>2, <4>3
        <3> QED BY <3>2, <3>3
    <2>2. CASE b # c
        <3>1. step[b] = "resolving" /\ s \in symbols[b] /\ underWay'[b] = underWay[b] /\ chunk'[b] = chunk[b]
            BY <2>2, <1>1, <1>2 DEF WholeInv, CatalogTypes
        <3>2. CASE s \in chunk[b]
            BY <3>1, <3>2
        <3>3. CASE \E d \in Calls : s \in chunk[d] /\ <<d, chunk[d]>> \in underWay[b]
            <4>1. PICK d \in Calls : s \in chunk[d] /\ <<d, chunk[d]>> \in underWay[b]
                BY <3>3
            <4>2. d # c /\ chunk'[d] = chunk[d]
                BY <4>1, <1>1, <1>2 DEF WholeInv, CatalogTypes
            <4> QED BY <4>1, <4>2, <3>1
        <3> QED BY <3>1, <3>2, <3>3 DEF WholeInv, Awaited
    <2> QED BY <2>1, <2>2
<1>8. ReadableOnReturn'
    BY <1>1 DEF WholeInv, ReadableOnReturn, CatalogTypes
<1> QED BY <1>4, <1>5, <1>6, <1>7, <1>8 DEF WholeInv

\* A lookup over: all it asked for is told.
LEMMA LookupOverWhole ==
    ASSUME LookupLimit \in Nat, WholeInv, NEW c \in Calls, chunk[c] # {}, LookUp(c, rest[c]),
           UNCHANGED <<step, symbols, underWay>>,
           known \subseteq known', missing \subseteq missing', failed \subseteq failed',
           \A s \in asked' : s \in asked \ chunk[c] \/ s \in known' \cup missing',
           chunk[c] \subseteq Told'
    PROVE  WholeInv'
<1>1. chunk' = [chunk EXCEPT ![c] = {}] /\ rest' = [rest EXCEPT ![c] = {}]
    <2>1. rest[c] = {} /\ Fits({})
        BY FS_EmptySet DEF WholeInv, Whole, Fits
    <2> QED BY <2>1, AllSent DEF WholeInv
<1>2. CatalogTypes' /\ Whole'
    BY <1>1 DEF WholeInv, CatalogTypes, Whole
<1>3. Heard'
    <2> SUFFICES ASSUME NEW s \in asked', s \notin known' \cup missing'
                 PROVE  \E d \in Calls : s \in chunk'[d]
        BY DEF Heard
    <2>1. s \in asked \ chunk[c] /\ s \notin known \cup missing
        OBVIOUS
    <2>2. PICK d \in Calls : s \in chunk[d]
        BY <2>1 DEF WholeInv, Heard
    <2> QED BY <2>1, <2>2, <1>1 DEF WholeInv, CatalogTypes
<1>4. Awaited'
    <2> SUFFICES ASSUME NEW b \in Calls, step[b] = "resolving", NEW s \in symbols[b], s \notin Told'
                 PROVE  \/ s \in chunk'[b]
                        \/ \E d \in Calls : s \in chunk'[d] /\ <<d, chunk'[d]>> \in underWay[b]
        BY DEF Awaited
    <2>1. s \notin Told /\ s \notin chunk[c]
        BY DEF Told
    <2>2. \A d \in Calls : s \in chunk[d] => chunk'[d] = chunk[d]
        BY <2>1, <1>1 DEF WholeInv, CatalogTypes
    <2> QED BY <2>1, <2>2 DEF WholeInv, Awaited
<1>5. ReadableOnReturn'
    BY DEF WholeInv, ReadableOnReturn
<1> QED BY <1>2, <1>3, <1>4, <1>5 DEF WholeInv

LEMMA WholeStep == LookupLimit \in Nat /\ WholeInv /\ ListsFit' /\ [CatalogNext]_catalogVars => WholeInv'
<1> SUFFICES ASSUME LookupLimit \in Nat, WholeInv, ListsFit', [CatalogNext]_catalogVars PROVE WholeInv'
    OBVIOUS
<1>1. ASSUME NEW c \in Calls, NEW wanted \in SUBSET Symbols, Resolve(c, wanted) PROVE WholeInv'
    BY <1>1, ResolveWhole
<1>2. ASSUME NEW c \in Calls, LookupAnswered(c) PROVE WholeInv'
    <2>1. \A s \in asked' : s \in asked \ chunk[c] \/ s \in known' \cup missing'
        BY <1>2 DEF LookupAnswered
    <2> QED BY <1>2, <2>1, LookupOverWhole DEF LookupAnswered, Told
<1>3. ASSUME NEW c \in Calls, LookupFails(c) PROVE WholeInv'
    BY <1>3, LookupOverWhole DEF LookupFails, Told
<1>4. ASSUME NEW c \in Calls, Return(c) PROVE WholeInv'
    <2>1. symbols[c] \subseteq Told
        <3> SUFFICES ASSUME NEW s \in symbols[c], s \notin Told PROVE FALSE
            OBVIOUS
        <3>1. \E d \in Calls : s \in chunk[d] /\ <<d, chunk[d]>> \in underWay[c]
            BY <1>4 DEF Return, WholeInv, Awaited
        <3> QED BY <1>4, <3>1 DEF Return
    <2>2. CatalogTypes' /\ Whole' /\ Heard'
        BY <1>4 DEF WholeInv, CatalogTypes, Whole, Heard, Return
    <2>3. Awaited'
        BY <1>4 DEF WholeInv, CatalogTypes, Awaited, Told, Return
    <2>4. ReadableOnReturn'
        BY <1>4, <2>1 DEF WholeInv, CatalogTypes, ReadableOnReturn, Told, Return
    <2> QED BY <2>2, <2>3, <2>4 DEF WholeInv
<1>5. ASSUME NEW found \in SUBSET (Symbols \cap Listed), Remember(found) PROVE WholeInv'
    BY <1>5 DEF WholeInv, CatalogTypes, Whole, Heard, Awaited, ReadableOnReturn, Told, Remember, calls
<1>6. CASE UNCHANGED catalogVars
    BY <1>6 DEF WholeInv, CatalogTypes, Whole, Heard, Awaited, ReadableOnReturn, Told, catalogVars, calls
<1> QED BY <1>1, <1>2, <1>3, <1>4, <1>5, <1>6 DEF CatalogNext

\* What a call asked for can be read when it returns, as its callers expect, as long as no
\* screen asks for more symbols at a time than one lookup takes: whatever other screens ask
\* for meanwhile, which may be more altogether, and whatever fails.
THEOREM ReadableWithOneLookup ==
    ASSUME LookupLimit \in Nat
    PROVE  CatalogSpec /\ []ListsFit => []ReadableOnReturn
<1>1. WholeInv /\ ListsFit' /\ [CatalogNext]_catalogVars => WholeInv'
    BY WholeStep
<1>2. WholeInv => ReadableOnReturn
    BY DEF WholeInv
<1> QED BY <1>1, <1>2, WholeInit, PTL DEF CatalogSpec
-----------------------------------------------------------------------------
(* The pages and stores: what each shows is what was asked, and its bursts end.        *)

Bursts == {Blotter, CashPage}

\* Those that are about something as long as they are open.
Steady == Lasting \cup {Chart, YearRange, AdviceSignal}

\* What the rows have in common, field by field.
LEMMA RowFields ==
    ASSUME NEW row \in Screens
    PROVE  /\ row.reread = "burst" <=> row \in Bursts
           /\ row.keeps = "latest" <=> row \in {Chart, Search}
           /\ row.after \in {"reload", "restart", "refresh", "answer"} => row \in Lasting
           /\ row.after \in {"restart", "refresh"} <=> row \in Bursts
           /\ row.after = "expected" => row.keeps = "own" /\ row \notin {CashPage, Settings, NewStrategy, SetAlert, Apply}
           /\ row.keeps = "own" => row \in {CurrentAccount, WatchList}
           /\ row.keeps = "latest" => row.reread = "never" /\ row.button = "never" /\ row.acts = {}
           /\ row \in {CurrentAccount, WatchList} => row.keeps = "own"
           /\ row \in Bursts => row \in Lasting
           /\ row.acts = {} => row \notin Bursts
BY DEF Screens, Lasting, Stores, Bursts, Row, Blotter, CashPage, Alerts, StrategiesPage, NewStrategy, Notifications,
       Holdings, Dashboard, Settings, Signals, SetAlert, Apply, CurrentAccount, WatchList, LivePrices, Inbox, Chart, Search,
       YearRange, AdviceSignal, StrategyRuns

\* Alike but for what they read.
LEMMA ChartIsNotSearch == Chart # Search
<1>1. GetCandles.required # GetTradableInstruments.required
    BY DEF GetCandles, GetTradableInstruments, Trade, Request
<1>2. Chart.reads # Search.reads
    BY <1>1 DEF Chart, Search, Row
<1> QED BY <1>2

\* What changes its question to none is not of them.
LEMMA SteadyRows == Steady \cap (Stores \cup {Search, StrategyRuns}) = {}
BY ChartIsNotSearch
   DEF Steady, Lasting, Stores, Row, Blotter, CashPage, Alerts, StrategiesPage, NewStrategy, Notifications,
       Holdings, Dashboard, Settings, Signals, SetAlert, Apply, CurrentAccount, WatchList, LivePrices, Inbox, Chart, Search,
       YearRange, AdviceSignal, StrategyRuns

\* The two that show the latest question's answer only are none of the others whose
\* question changes.
LEMMA LatestRows == {Chart, Search} \cap (Stores \cup {YearRange, AdviceSignal, StrategyRuns, LivePrices}) = {}
BY DEF Stores, Row, CurrentAccount, WatchList, LivePrices, Inbox, Chart, Search, YearRange, AdviceSignal, StrategyRuns

\* The two that keep to their account are no form, and none of the others.
LEMMA OwnRows ==
    {CurrentAccount, WatchList} \cap
        {Inbox, YearRange, AdviceSignal, StrategyRuns, Search, Chart, CashPage, Settings, NewStrategy, SetAlert, Apply} = {}
BY DEF Row, CurrentAccount, WatchList, Inbox, Chart, Search, YearRange, AdviceSignal, StrategyRuns, CashPage, Settings,
       NewStrategy, SetAlert, Apply

-----------------------------------------------------------------------------
(* The slots *)

ReadsOK ==
    /\ reads \in [Slots -> [about : Asks, latest : BOOLEAN, answer : Answers \cup {None}]]
    /\ \A s \in Slots : reads[s].about = None => reads[s] = Idle

Used == {s \in Slots : reads[s] # Idle}

LEMMA FreeSlot ==
    ASSUME Free # {}
    PROVE  Slot \in Slots \ Used
<1>1. PICK first \in Free : \A s \in Free : first <= s
    <2> DEFINE before == OpToRel(<, Nat)
    <2>1. Free \subseteq Nat
        BY ScreensAssumption DEF Free, Slots
    <2>2. \A i, j \in Nat : <<i, j>> \in before <=> i < j
        BY DEF OpToRel
    <2>3. IsWellFoundedOn(before, Nat)
        BY NatLessThanWellFounded
    <2> HIDE DEF before
    <2>4. PICK first \in Free : \A s \in Free : ~(<<s, first>> \in before)
        BY <2>1, <2>3, WFMin
    <2>5. first \in Nat /\ \A s \in Free : s \in Nat /\ ~(s < first)
        BY <2>1, <2>2, <2>4
    <2>6. \A s \in Free : first <= s
        BY <2>5
    <2> QED BY <2>4, <2>6
<1>2. \E s \in Free : \A t \in Free : s <= t
    BY <1>1
<1>3. Slot \in Free
    BY <1>2 DEF Slot
<1> QED BY <1>3 DEF Free, Used

LEMMA SupersededOK ==
    ASSUME ReadsOK
    PROVE  /\ Superseded \in [Slots -> [about : Asks, latest : {FALSE}, answer : Answers \cup {None}]]
           /\ \A s \in Slots : Superseded[s] = Idle <=> reads[s] = Idle
           /\ \A s \in Slots : Superseded[s].about = reads[s].about
BY DEF ReadsOK, Superseded, Idle, Asks

\* A read sent is the only one that is for the latest question.
LEMMA AskedOK ==
    ASSUME ReadsOK, NEW q \in Questions, Free # {}, reads' = Asked(q)
    PROVE  /\ ReadsOK' /\ Slot \in Slots \ Used /\ Used' = Used \cup {Slot}
           /\ reads'[Slot].about = q
           /\ \A s \in Slots \ {Slot} : ~reads'[s].latest
<1>1. Slot \in Slots \ Used
    BY FreeSlot
<1>2. reads' = [Superseded EXCEPT ![Slot] = Unanswered(q)]
    BY DEF Asked
<1>3. Unanswered(q) \in [about : Asks, latest : BOOLEAN, answer : Answers \cup {None}] /\ Unanswered(q) # Idle /\ Unanswered(q).about = q /\ q # None
    BY ScreensAssumption DEF Unanswered, Idle, Asks
<1>4. reads' \in [Slots -> [about : Asks, latest : BOOLEAN, answer : Answers \cup {None}]]
    <2>1. Superseded \in [Slots -> [about : Asks, latest : BOOLEAN, answer : Answers \cup {None}]]
        BY SupersededOK
    <2> QED BY <1>1, <1>2, <1>3, <2>1
<1>5. \A s \in Slots : IF s = Slot THEN reads'[s] = Unanswered(q) ELSE reads'[s] = Superseded[s]
    BY <1>1, <1>2, SupersededOK
<1>6. ReadsOK'
    <2>1. \A s \in Slots : reads'[s].about = None => reads'[s] = Idle
        BY <1>3, <1>5, SupersededOK DEF ReadsOK
    <2> QED BY <1>4, <2>1 DEF ReadsOK, Idle, Slots, Answers, Asks
<1>7. Used' = Used \cup {Slot}
    BY <1>1, <1>3, <1>5, SupersededOK DEF Used, Slots, Idle
<1>8. \A s \in Slots \ {Slot} : ~reads'[s].latest
    BY <1>5, SupersededOK
<1> QED BY <1>1, <1>3, <1>5, <1>6, <1>7, <1>8

LEMMA SendsOK ==
    ASSUME ReadsOK, NEW q \in Questions, Sends(q)
    PROVE  /\ ReadsOK' /\ Slot \in Slots \ Used /\ Used' = Used \cup {Slot}
           /\ loading' \in BOOLEAN /\ error' \in BOOLEAN
           /\ reads'[Slot].about = q
           /\ \A s \in Slots \ {Slot} : ~reads'[s].latest
BY AskedOK DEF Sends

LEMMA ReadOver ==
    ASSUME ReadsOK, NEW s \in Slots, reads' = [reads EXCEPT ![s] = Idle]
    PROVE  /\ ReadsOK' /\ Used' = Used \ {s}
           /\ \A t \in Slots : reads'[t] = IF t = s THEN Idle ELSE reads[t]
<1>1. Idle \in [about : Asks, latest : BOOLEAN, answer : Answers \cup {None}]
    BY DEF Idle, Asks
<1> QED BY <1>1 DEF ReadsOK, Used, Idle, Slots, Asks, Answers

LEMMA ReadAnswered ==
    ASSUME ReadsOK, server \in Answers, NEW s \in Slots, reads[s] # Idle, reads' = [reads EXCEPT ![s].answer = server]
    PROVE  /\ ReadsOK' /\ Used' = Used
           /\ \A t \in Slots : reads'[t].about = reads[t].about /\ reads'[t].latest = reads[t].latest
<1>1. [reads[s] EXCEPT !.answer = server] \in [about : Asks, latest : BOOLEAN, answer : Answers \cup {None}]
    BY DEF ReadsOK
<1>2. \A t \in Slots : reads'[t] = IF t = s THEN [reads[s] EXCEPT !.answer = server] ELSE reads[t]
    BY DEF ReadsOK
<1>3. reads' \in [Slots -> [about : Asks, latest : BOOLEAN, answer : Answers \cup {None}]]
    BY <1>1 DEF ReadsOK
<1>4. reads[s].about # None
    BY DEF ReadsOK
<1>5. \A t \in Slots : reads'[t].about = reads[t].about /\ reads'[t].latest = reads[t].latest
    BY <1>2 DEF ReadsOK
<1>6. \A t \in Slots : reads'[t] = Idle <=> reads[t] = Idle
    BY <1>2, <1>4, <1>5 DEF Idle
<1>7. ReadsOK'
    BY <1>3, <1>5, <1>6 DEF ReadsOK, Idle, Slots, Asks, Answers
<1>8. Used' = Used
    BY <1>6 DEF Used, Idle, Slots
<1> QED BY <1>5, <1>7, <1>8

LEMMA AllSuperseded ==
    ASSUME ReadsOK, reads' = Superseded
    PROVE  /\ ReadsOK' /\ Used' = Used
           /\ \A s \in Slots : ~reads'[s].latest
<1>1. reads' \in [Slots -> [about : Asks, latest : BOOLEAN, answer : Answers \cup {None}]]
    BY SupersededOK
<1> QED BY <1>1, SupersededOK DEF ReadsOK, Used, Idle, Slots, Asks, Answers

-----------------------------------------------------------------------------
(* Types *)

PageTypes ==
    /\ screen \in Screens /\ open \in BOOLEAN /\ visible \in BOOLEAN /\ about \in Asks
    /\ server \in Answers
    /\ loading \in BOOLEAN /\ error \in BOOLEAN /\ gaveUp \in BOOLEAN
    /\ shown \in [about : Questions, version : -2..MaxVersion, working : BOOLEAN] \cup {None}
    /\ timer \in Asks /\ strays \in Nat /\ rereads \in Nat
    /\ clicks \in 0..MaxClicks /\ faults \in 0..MaxFaults

ActTypes == [phase : {"none", "sent", "done", "refused", "reload"}, slot : 0..MaxReads, version : 0..MaxVersion,
             maker : Asks]

ActOK ==
    /\ act \in ActTypes
    /\ act.phase = "reload" => act.slot \in Used

\* What waits before it reads, or reads again.
Waiting == Bursts \cup {Search, Chart, YearRange}

\* Only a burst counts rereads and loses hold of timers.
TimersOK ==
    /\ screen \notin Bursts => strays = 0 /\ rereads = 0
    /\ screen \notin Waiting => timer = None
    /\ screen \in Steady => about # None

PageOK == PageTypes /\ ReadsOK /\ ActOK /\ TimersOK

LEMMA InitPageOK == Init => PageOK
<1> SUFFICES ASSUME Init PROVE PageOK
    OBVIOUS
<1>1. screen \in Screens /\ about \in Asks /\ (screen \in Steady => about # None)
    BY SteadyRows, ScreensAssumption DEF Init, Asks
<1>2. PageTypes
    <2>1. loading \in BOOLEAN /\ error \in BOOLEAN /\ gaveUp \in BOOLEAN /\ open \in BOOLEAN /\ visible \in BOOLEAN
        BY DEF Init
    <2>2. server \in Answers /\ clicks \in 0..MaxClicks /\ faults \in 0..MaxFaults
        BY ScreensAssumption DEF Init, Answers
    <2>3. timer \in Asks
        BY <1>1 DEF Init, Asks
    <2> QED BY <1>1, <2>1, <2>2, <2>3 DEF Init, PageTypes, Asks
<1>3. ReadsOK
    <2>1. Idle \in [about : Asks, latest : BOOLEAN, answer : Answers \cup {None}]
        BY DEF Idle, Asks
    <2>2. Unanswered(about) \in [about : Asks, latest : BOOLEAN, answer : Answers \cup {None}]
        BY <1>1 DEF Unanswered
    <2> QED BY <2>1, <2>2 DEF Init, ReadsOK, Unanswered, Idle
<1>4. ActOK
    BY ScreensAssumption DEF Init, ActOK, ActTypes, Quiet, Asks
<1>5. TimersOK
    BY <1>1 DEF Init, TimersOK, Waiting
<1> QED BY <1>2, <1>3, <1>4, <1>5 DEF PageOK

\* A read sent, whatever else happens to what the page shows.
LEMMA SendsPageOK ==
    ASSUME PageOK, NEW q \in Questions, Sends(q), UNCHANGED <<screen, open, visible, server, act, faults>>,
           about' \in Asks, screen \in Steady => about' # None,
           gaveUp' \in BOOLEAN, shown' \in [about : Questions, version : -2..MaxVersion, working : BOOLEAN] \cup {None},
           timer' \in {timer, None}, strays' \in Nat, rereads' \in Nat, clicks' \in 0..MaxClicks,
           screen \notin Bursts => strays' = strays /\ rereads' = rereads
    PROVE  PageOK'
<1>1. ReadsOK' /\ Used \subseteq Used' /\ loading' \in BOOLEAN /\ error' \in BOOLEAN
    BY SendsOK DEF PageOK
<1>2. PageTypes'
    BY <1>1 DEF PageOK, PageTypes, Asks, Answers
<1>3. ActOK'
    BY <1>1 DEF PageOK, ActOK
<1>4. TimersOK'
    BY DEF PageOK, TimersOK
<1> QED BY <1>1, <1>2, <1>3, <1>4 DEF PageOK

LEMMA AboutAsked ==
    ASSUME PageOK
    PROVE  /\ about # None => about \in Questions
           /\ timer # None => timer \in Questions
           /\ screen \in Bursts => about # None
BY RowFields DEF PageOK, PageTypes, TimersOK, Steady, Asks

LEMMA PollPageOK == ASSUME PageOK, Poll PROVE PageOK'
<1>1. Sends(about) /\ about \in Questions
    BY AboutAsked DEF Poll
<1>2. UNCHANGED <<screen, open, visible, about, server, shown, act, timer, strays, rereads, gaveUp, clicks, faults>>
    BY DEF Poll
<1> QED BY <1>1, <1>2, SendsPageOK DEF PageOK, PageTypes, TimersOK

LEMMA AskAgainPageOK == ASSUME PageOK, AskAgain PROVE PageOK'
<1>1. /\ Sends(about) /\ about \in Questions /\ about # None
      /\ UNCHANGED <<screen, open, visible, about, server, shown, strays, act, faults>>
    BY AboutAsked DEF AskAgain, Restarted
<1>2. clicks' \in 0..MaxClicks
    BY ScreensAssumption DEF AskAgain, PageOK, PageTypes
<1>3. timer' \in {timer, None} /\ rereads' \in Nat /\ gaveUp' \in BOOLEAN
    <2>1. CASE screen.reread = "burst"
        <3>1. timer' = None /\ rereads' = 0 /\ gaveUp' = FALSE
            BY <2>1 DEF AskAgain, Restarted
        <3> QED BY <3>1
    <2>2. CASE screen.reread # "burst"
        BY <2>2 DEF AskAgain, PageOK, PageTypes
    <2> QED BY <2>1, <2>2
<1>4. screen \notin Bursts => rereads' = rereads
    BY RowFields DEF AskAgain, PageOK, PageTypes
<1> QED BY <1>1, <1>2, <1>3, <1>4, SendsPageOK DEF PageOK, PageTypes

\* A search that comes after the text has gone asks all the same.
LEMMA StaleSent ==
    ASSUME ReadsOK, NEW q \in Questions, Free # {},
           reads' = [reads EXCEPT ![Slot] = [Unanswered(q) EXCEPT !.latest = FALSE]]
    PROVE  /\ ReadsOK' /\ Used \subseteq Used'
           /\ \A s \in Slots : reads'[s].latest => reads[s].latest /\ reads'[s] = reads[s]
<1>1. Slot \in Slots \ Used
    BY FreeSlot
<1> DEFINE stale == [Unanswered(q) EXCEPT !.latest = FALSE]
<1>2. Unanswered(q) \in [about : {q}, latest : BOOLEAN, answer : {None}]
    BY DEF Unanswered
<1>3. /\ stale \in [about : Asks, latest : BOOLEAN, answer : Answers \cup {None}]
      /\ stale.about # None /\ ~stale.latest
    BY <1>2, ScreensAssumption DEF Asks
<1> HIDE DEF stale
<1>4. \A s \in Slots : reads'[s] = IF s = Slot THEN stale ELSE reads[s]
    BY <1>1 DEF ReadsOK, stale
<1>5. reads' \in [Slots -> [about : Asks, latest : BOOLEAN, answer : Answers \cup {None}]]
    BY <1>1, <1>3 DEF ReadsOK, stale
<1>6. ReadsOK'
    <2>1. \A s \in Slots : reads'[s].about = None => reads'[s] = Idle
        BY <1>3, <1>4 DEF ReadsOK
    <2> QED BY <1>5, <2>1 DEF ReadsOK, Idle, Slots, Answers, Asks
<1>7. Used \subseteq Used'
    BY <1>1, <1>4 DEF Used, Idle, Slots
<1>8. \A s \in Slots : reads'[s].latest => reads[s].latest /\ reads'[s] = reads[s]
    BY <1>3, <1>4
<1> QED BY <1>6, <1>7, <1>8

LEMMA TimerFiresPageOK == ASSUME PageOK, TimerFires PROVE PageOK'
<1>1. /\ timer \in Questions /\ timer' = None /\ Free # {}
      /\ UNCHANGED <<screen, open, visible, about, server, shown, act, strays, gaveUp, clicks, faults>>
      /\ screen \in Bursts \cup {Search}
    BY AboutAsked DEF TimerFires, PageOK, TimersOK, Waiting
<1>2. rereads' \in Nat /\ (screen \notin Bursts => rereads' = rereads)
    BY <1>1 DEF TimerFires, PageOK, PageTypes
<1>3. CASE screen = Search /\ timer # about
    <2>1. reads' = [reads EXCEPT ![Slot] = [Unanswered(timer) EXCEPT !.latest = FALSE]] /\ UNCHANGED <<loading, error>>
        BY <1>3 DEF TimerFires
    <2>2. ReadsOK' /\ Used \subseteq Used'
        BY <1>1, <2>1, StaleSent DEF PageOK
    <2>3. PageTypes'
        BY <1>1, <1>2, <2>1 DEF PageOK, PageTypes, Asks, Answers
    <2>4. ActOK' /\ TimersOK'
        BY <1>1, <1>2, <2>2 DEF PageOK, ActOK, TimersOK
    <2> QED BY <2>2, <2>3, <2>4 DEF PageOK
<1>4. CASE ~(screen = Search /\ timer # about)
    <2>1. Sends(timer)
        BY <1>4 DEF TimerFires
    <2> QED BY <1>1, <1>2, <2>1, SendsPageOK DEF PageOK, PageTypes, TimersOK
<1> QED BY <1>3, <1>4

LEMMA StrayFiresPageOK == ASSUME PageOK, StrayFires PROVE PageOK'
<1>1. /\ strays \in Nat /\ strays > 0 /\ screen \in Bursts /\ rereads \in Nat
    BY DEF StrayFires, PageOK, PageTypes, TimersOK
<1>2. about \in Questions /\ about # None /\ Sends(about)
    BY <1>1, AboutAsked DEF StrayFires
<1>3. strays' \in Nat /\ rereads' \in Nat /\ timer' = None
    BY <1>1 DEF StrayFires
<1> QED BY <1>1, <1>2, <1>3, SendsPageOK DEF StrayFires, PageOK, PageTypes

LEMMA ServePageOK == ASSUME PageOK, NEW s \in Slots, Serve(s) PROVE PageOK'
<1>1. UNCHANGED <<screen, open, visible, about, server, page, clicks, faults>>
    BY DEF Serve
<1>2. ReadsOK' /\ Used' = Used
    BY ReadAnswered DEF Serve, PageOK, PageTypes
<1> QED BY <1>1, <1>2 DEF page, PageOK, PageTypes, ActOK, TimersOK, Asks, Answers

LEMMA QuietOK == Quiet \in ActTypes
BY ScreensAssumption DEF Quiet, ActTypes, Asks

LEMMA ActOver ==
    ASSUME ActOK, NEW s \in Slots, ActOverWith(s), Used' = Used \ {s}
    PROVE  ActOK'
<1>1. CASE act' = Quiet
    BY <1>1, QuietOK DEF ActOK, Quiet
<1>2. CASE act' = act /\ ~(act.phase = "reload" /\ act.slot = s)
    BY <1>2 DEF ActOK
<1> QED BY <1>1, <1>2 DEF ActOverWith

LEMMA ReceivePageOK == ASSUME PageOK, NEW s \in Slots, Receive(s) PROVE PageOK'
<1>1. /\ reads[s].answer # None /\ reads' = [reads EXCEPT ![s] = Idle]
      /\ loading' = FALSE /\ error' \in BOOLEAN
      /\ UNCHANGED <<screen, open, visible, about, server, rereads, clicks, faults>>
      /\ ActOverWith(s)
    BY DEF Receive
<1>2. ReadsOK' /\ Used' = Used \ {s}
    BY <1>1, ReadOver DEF PageOK
<1>3. reads[s].about \in Questions /\ reads[s].answer \in Answers
    BY <1>1 DEF PageOK, ReadsOK, Idle, Asks
<1>4. shown' \in [about : Questions, version : -2..MaxVersion, working : BOOLEAN] \cup {None}
    <2>1. reads[s].answer.version \in -2..MaxVersion /\ reads[s].answer.working \in BOOLEAN
        BY <1>3, ScreensAssumption DEF Answers
    <2> QED BY <1>3, <2>1 DEF Receive, PageOK, PageTypes
<1>5. timer' \in Asks /\ strays' \in Nat /\ gaveUp' \in BOOLEAN
    <2>1. UNCHANGED <<timer, strays, gaveUp>> \/ ScheduleReread(reads[s].answer)
        BY DEF Receive
    <2>2. CASE UNCHANGED <<timer, strays, gaveUp>>
        BY <2>2 DEF PageOK, PageTypes
    <2>3. CASE ScheduleReread(reads[s].answer)
        <3>1. timer' \in {timer, about} /\ strays' \in {strays, strays + 1}
            BY <2>3 DEF ScheduleReread
        <3>2. gaveUp' = gaveUp \/ gaveUp' = TRUE
            BY <2>3 DEF ScheduleReread
        <3>3. gaveUp' \in BOOLEAN
            BY <3>2 DEF PageOK, PageTypes
        <3> QED BY <3>1, <3>3 DEF PageOK, PageTypes
    <2> QED BY <2>1, <2>2, <2>3
<1>6. screen \notin Bursts => UNCHANGED <<timer, strays>>
    BY RowFields DEF Receive, PageOK, PageTypes
<1>7. PageTypes'
    BY <1>1, <1>4, <1>5 DEF PageOK, PageTypes, Asks, Answers
<1>8. ActOK' /\ TimersOK'
    BY <1>1, <1>2, <1>6, ActOver DEF PageOK, TimersOK, Waiting
<1> QED BY <1>2, <1>7, <1>8 DEF PageOK

LEMMA ReadFailsPageOK == ASSUME PageOK, NEW s \in Slots, ReadFails(s) PROVE PageOK'
<1>1. /\ reads' = [reads EXCEPT ![s] = Idle]
      /\ loading' = FALSE /\ error' \in BOOLEAN /\ shown' \in {shown, None}
      /\ UNCHANGED <<screen, open, visible, about, server, timer, strays, rereads, gaveUp, clicks>>
      /\ ActOverWith(s)
    BY DEF ReadFails
<1>2. faults' \in 0..MaxFaults
    BY ScreensAssumption DEF ReadFails, PageOK, PageTypes
<1>3. ReadsOK' /\ Used' = Used \ {s}
    BY <1>1, ReadOver DEF PageOK
<1>4. PageTypes'
    BY <1>1, <1>2 DEF PageOK, PageTypes, Asks, Answers
<1>5. ActOK' /\ TimersOK'
    BY <1>1, <1>3, ActOver DEF PageOK, TimersOK
<1> QED BY <1>3, <1>4, <1>5 DEF PageOK

\* No read sent: the rest of the page as the action leaves it.
LEMMA SameReadsPageOK ==
    ASSUME PageOK, ReadsOK', Used' = Used, UNCHANGED <<screen, server, act, loading, error, strays, rereads, gaveUp, faults>>,
           open' \in BOOLEAN, visible' \in BOOLEAN,
           about' \in Asks, screen \in Steady => about' # None,
           shown' \in [about : Questions, version : -2..MaxVersion, working : BOOLEAN] \cup {None},
           timer' \in Asks, screen \in Waiting \/ timer' = timer, clicks' \in 0..MaxClicks
    PROVE  PageOK'
<1>1. PageTypes'
    BY DEF PageOK, PageTypes, Asks, Answers
<1>2. ActOK' /\ TimersOK'
    BY DEF PageOK, ActOK, TimersOK
<1> QED BY <1>1, <1>2 DEF PageOK

LEMMA UnchangedReads == ASSUME ReadsOK, UNCHANGED reads PROVE ReadsOK' /\ Used' = Used
BY DEF ReadsOK, Used, Idle, Slots, Asks, Answers

LEMMA ChoosePageOK == ASSUME PageOK, NEW q \in Questions \cup {None}, Choose(q) PROVE PageOK'
<1>1. /\ about' = q /\ q \in Asks
      /\ UNCHANGED <<screen, open, visible, server, act, strays, rereads, gaveUp, faults>>
    BY DEF Choose, Asks
<1>2. clicks' \in 0..MaxClicks
    BY ScreensAssumption DEF Choose, PageOK, PageTypes
<1>3. screen \in Steady => q # None
    BY SteadyRows DEF Choose, ChooseRange, Steady, Stores
<1>4. shown' \in {shown, None}
    BY DEF Choose, ChooseRange, Type, ShowRuns, Follow
<1>5. \/ Sends(q) /\ q # None /\ timer' \in {timer, None}
      \/ /\ reads' \in {reads, Superseded} /\ UNCHANGED <<loading, error>>
         /\ timer' = timer \/ (screen \in Waiting /\ timer' = q)
    <2>1. CASE screen \in {Chart, YearRange, AdviceSignal} /\ ChooseRange(q)
        BY <2>1 DEF ChooseRange, Waiting
    <2>2. CASE screen = Search /\ Type(q)
        BY <2>2 DEF Type, Waiting
    <2>3. CASE ShowRuns(q)
        BY <2>3 DEF ShowRuns
    <2>4. CASE Follow(q)
        BY <2>4 DEF Follow
    <2> QED BY <2>1, <2>2, <2>3, <2>4 DEF Choose
<1>6. CASE Sends(q) /\ q # None /\ timer' \in {timer, None}
    BY <1>1, <1>2, <1>3, <1>4, <1>6, SendsPageOK DEF PageOK, PageTypes
<1>7. CASE /\ reads' \in {reads, Superseded} /\ UNCHANGED <<loading, error>>
           /\ timer' = timer \/ (screen \in Waiting /\ timer' = q)
    <2>1. ReadsOK' /\ Used' = Used
        BY <1>7, AllSuperseded, UnchangedReads DEF PageOK
    <2> QED BY <1>1, <1>2, <1>3, <1>4, <1>7, <2>1, SameReadsPageOK DEF PageOK, PageTypes
<1> QED BY <1>5, <1>6, <1>7

LEMMA CatalogKnowsPageOK == ASSUME PageOK, CatalogKnows PROVE PageOK'
<1>1. Sends(timer) /\ timer \in Questions /\ timer' = None
    BY AboutAsked DEF CatalogKnows
<1>2. UNCHANGED <<screen, open, visible, about, server, shown, act, strays, rereads, gaveUp, clicks, faults>>
    BY DEF CatalogKnows
<1> QED BY <1>1, <1>2, SendsPageOK DEF PageOK, PageTypes, TimersOK

LEMMA PickFoundPageOK == ASSUME PageOK, PickFound PROVE PageOK'
<1>1. /\ screen = Search /\ shown' = None
      /\ UNCHANGED <<screen, open, visible, server, loading, error, act, timer, strays, rereads, gaveUp, clicks, faults>>
      /\ about' \in {about, None} /\ reads' \in {reads, Superseded}
    BY DEF PickFound
<1>2. ReadsOK' /\ Used' = Used
    BY <1>1, AllSuperseded, UnchangedReads DEF PageOK
<1>3. screen \notin Steady
    BY <1>1, SteadyRows
<1> QED BY <1>1, <1>2, <1>3, SameReadsPageOK DEF PageOK, PageTypes, Asks

LEMMA LeavePageOK == ASSUME PageOK, Leave PROVE PageOK'
<1>1. /\ UNCHANGED <<screen, visible, about, server, reads, loading, shown, error, act, strays, rereads, gaveUp, clicks, faults>>
      /\ open' = FALSE
      /\ timer' = timer \/ (timer' = None /\ (screen.reread = "burst" \/ screen \in {Chart, YearRange}))
    BY DEF Leave
<1>2. ReadsOK' /\ Used' = Used
    BY <1>1, UnchangedReads DEF PageOK
<1>3. timer' \in Asks /\ (screen \in Waiting \/ timer' = timer)
    BY <1>1, RowFields DEF PageOK, PageTypes, Asks, Waiting
<1> QED BY <1>1, <1>2, <1>3, SameReadsPageOK DEF PageOK, PageTypes, TimersOK

LEMMA LookPageOK == ASSUME PageOK, Look PROVE PageOK'
<1>1. /\ visible' = ~visible
      /\ UNCHANGED <<screen, open, about, server, shown, act, timer, strays, rereads, gaveUp, clicks, faults>>
    BY DEF Look
<1>2. visible' \in BOOLEAN
    BY <1>1
<1>3. CASE screen = LivePrices /\ Sends(about)
    <2>1. about \in Questions
        BY <1>3, AboutAsked DEF PageOK, TimersOK, Steady, Lasting
    <2>2. ReadsOK' /\ Used \subseteq Used' /\ loading' \in BOOLEAN /\ error' \in BOOLEAN
        BY <1>3, <2>1, SendsOK DEF PageOK
    <2>3. PageTypes'
        BY <1>1, <1>2, <2>2 DEF PageOK, PageTypes, Asks, Answers
    <2>4. ActOK' /\ TimersOK'
        BY <1>1, <2>2 DEF PageOK, ActOK, TimersOK
    <2> QED BY <2>2, <2>3, <2>4 DEF PageOK
<1>4. CASE UNCHANGED <<reads, loading, error>>
    BY <1>1, <1>2, <1>4, UnchangedReads, SameReadsPageOK DEF PageOK, PageTypes, TimersOK
<1> QED BY <1>3, <1>4 DEF Look

LEMMA ActPageOK == ASSUME PageOK, Act PROVE PageOK'
<1>1. /\ act' = [Quiet EXCEPT !.phase = "sent"] /\ error' \in BOOLEAN
      /\ UNCHANGED <<screen, open, visible, about, server, reads, loading, timer, strays, rereads, gaveUp, faults>>
    BY DEF Act
<1>2. ReadsOK' /\ Used' = Used
    BY <1>1, UnchangedReads DEF PageOK
<1>3. clicks' \in 0..MaxClicks
    BY ScreensAssumption DEF Act, PageOK, PageTypes
<1>4. ActOK'
    BY <1>1, ScreensAssumption DEF ActOK, ActTypes, Quiet, Asks
<1>5. shown' \in [about : Questions, version : -2..MaxVersion, working : BOOLEAN] \cup {None}
    <2>1. CASE screen # SetAlert /\ screen.after = "expected"
        <3>1. /\ shown' = [shown EXCEPT !.version = IF @ = Made THEN Made ELSE Expected]
              /\ shown # None
            BY <2>1, RowFields DEF Act, Actionable, PageOK, PageTypes
        <3> QED BY <3>1, ScreensAssumption DEF PageOK, PageTypes, Made, Expected
    <2>2. CASE ~(screen # SetAlert /\ screen.after = "expected")
        BY <2>2 DEF Act, PageOK, PageTypes
    <2> QED BY <2>1, <2>2
<1>6. PageTypes'
    BY <1>1, <1>3, <1>5 DEF PageOK, PageTypes, Asks, Answers
<1>7. TimersOK'
    BY <1>1 DEF PageOK, TimersOK
<1> QED BY <1>2, <1>4, <1>6, <1>7 DEF PageOK

LEMMA CreatePageOK == ASSUME PageOK, Create PROVE PageOK'
<1>1. /\ act' = [Quiet EXCEPT !.phase = "sent", !.maker = about]
      /\ UNCHANGED <<screen, open, visible, about, server, reads, loading, shown, error, timer, strays, rereads, gaveUp, faults>>
    BY DEF Create
<1>2. ReadsOK' /\ Used' = Used
    BY <1>1, UnchangedReads DEF PageOK
<1>3. clicks' \in 0..MaxClicks
    BY ScreensAssumption DEF Create, PageOK, PageTypes
<1>4. ActOK'
    <2>1. about \in Asks
        BY DEF PageOK, PageTypes
    <2>2. act' = [phase |-> "sent", slot |-> 0, version |-> 0, maker |-> about]
        BY <1>1 DEF Quiet
    <2>3. act' \in ActTypes
        BY <2>1, <2>2, ScreensAssumption DEF ActTypes
    <2> QED BY <2>2, <2>3 DEF ActOK
<1>5. PageTypes'
    BY <1>1, <1>3 DEF PageOK, PageTypes, Asks, Answers
<1>6. TimersOK'
    BY <1>1 DEF PageOK, TimersOK
<1> QED BY <1>2, <1>4, <1>5, <1>6 DEF PageOK

LEMMA ServerStep ==
    ASSUME server \in Answers, server.version < MaxVersion,
           server' \in [version : {server.version + 1}, working : BOOLEAN]
    PROVE  server' \in Answers /\ server'.version \in 0..MaxVersion
BY ScreensAssumption DEF Answers

LEMMA ServeActPageOK == ASSUME PageOK, ServeAct PROVE PageOK'
<1>1. /\ UNCHANGED <<screen, open, visible, about, reads, loading, shown, error, timer, strays, rereads, gaveUp, clicks>>
    BY DEF ServeAct
<1>2. ReadsOK' /\ Used' = Used
    BY <1>1, UnchangedReads DEF PageOK
<1>3. /\ server' \in Answers
      /\ \/ act' = [act EXCEPT !.phase = "refused"]
         \/ act' = [act EXCEPT !.phase = "done", !.version = server'.version] /\ server'.version \in 0..MaxVersion
    <2>1. CASE server.version < MaxVersion /\ server' \in [version : {server.version + 1}, working : BOOLEAN]
        <3>1. server' \in Answers /\ server'.version \in 0..MaxVersion
            BY <2>1, ServerStep DEF PageOK, PageTypes
        <3> QED BY <3>1 DEF ServeAct
    <2>2. CASE act' = [act EXCEPT !.phase = "refused"] /\ server' = server
        BY <2>2 DEF PageOK, PageTypes
    <2> QED BY <2>1, <2>2 DEF ServeAct
<1>4. faults' \in 0..MaxFaults
    <2>1. faults' = faults \/ (faults < MaxFaults /\ faults' = faults + 1)
        BY DEF ServeAct
    <2> QED BY <2>1, ScreensAssumption DEF PageOK, PageTypes
<1>5. ActOK'
    <2>1. act' \in ActTypes /\ act'.phase \in {"refused", "done"}
        BY <1>3 DEF PageOK, ActOK, ActTypes
    <2> QED BY <2>1 DEF ActOK
<1>6. PageTypes'
    BY <1>1, <1>3, <1>4 DEF PageOK, PageTypes, Asks, Answers
<1>7. TimersOK'
    BY <1>1 DEF PageOK, TimersOK
<1> QED BY <1>2, <1>5, <1>6, <1>7 DEF PageOK

\* The act is over, or waits for the read that was sent.
LEMMA ActSentPageOK ==
    ASSUME PageOK, Sends(about), about \in Questions,
           act' \in {Quiet, [Quiet EXCEPT !.phase = "reload", !.slot = Slot]},
           UNCHANGED <<screen, open, visible, about, server, shown, strays, clicks, faults>>,
           timer' \in {timer, None}, gaveUp' \in BOOLEAN, rereads' \in {rereads, 0}
    PROVE  PageOK'
<1>1. ReadsOK' /\ Slot \in Used' /\ Slot \in Slots /\ loading' \in BOOLEAN /\ error' \in BOOLEAN
    BY SendsOK DEF PageOK
<1>2. PageTypes'
    BY <1>1 DEF PageOK, PageTypes, Asks, Answers
<1>3. ActOK'
    <2>1. Slot \in 0..MaxReads
        BY <1>1, ScreensAssumption DEF Slots
    <2>2. CASE act' = Quiet
        BY <2>2, QuietOK DEF ActOK, Quiet
    <2>3. CASE act' = [Quiet EXCEPT !.phase = "reload", !.slot = Slot]
        <3>1. act' \in ActTypes /\ act'.slot = Slot
            BY <2>1, <2>3, QuietOK DEF ActTypes
        <3> QED BY <3>1, <1>1 DEF ActOK
    <2> QED BY <2>2, <2>3
<1>4. TimersOK'
    BY DEF PageOK, TimersOK
<1> QED BY <1>1, <1>2, <1>3, <1>4 DEF PageOK

\* It is over, and no read is sent for it.
LEMMA ActOverPageOK ==
    ASSUME PageOK, act' = Quiet, UNCHANGED <<screen, open, visible, about, server, reads, loading, timer, strays, rereads,
                                             gaveUp, clicks, faults>>,
           error' \in BOOLEAN, shown' \in [about : Questions, version : -2..MaxVersion, working : BOOLEAN] \cup {None}
    PROVE  PageOK'
<1>1. ReadsOK'
    BY UnchangedReads DEF PageOK
<1>2. PageTypes'
    BY DEF PageOK, PageTypes, Asks, Answers
<1>3. ActOK' /\ TimersOK'
    BY QuietOK DEF PageOK, ActOK, Quiet, TimersOK
<1> QED BY <1>1, <1>2, <1>3 DEF PageOK

LEMMA RestartedOK ==
    ASSUME Restarted
    PROVE  Sends(about) /\ timer' = None /\ rereads' = 0 /\ gaveUp' = FALSE /\ UNCHANGED <<shown, strays>>
BY DEF Restarted

LEMMA DonePageOK ==
    ASSUME PageOK, Done, UNCHANGED <<screen, open, visible, about, server, clicks, faults>>
    PROVE  PageOK'
<1>1. screen.after \in {"reload", "restart", "answer"} => about \in Questions
    BY AboutAsked, RowFields DEF PageOK, PageTypes, TimersOK, Steady
<1>2. CASE screen.after = "reload" /\ Sends(about) /\ Reloading /\ UNCHANGED <<shown, timer, strays, rereads, gaveUp>>
    BY <1>1, <1>2, ActSentPageOK DEF Reloading, PageOK, PageTypes
<1>3. CASE screen.after = "restart" /\ Restarted /\ Reloading
    <2>1. gaveUp' \in BOOLEAN
        BY <1>3, RestartedOK
    <2> QED BY <1>1, <1>3, <2>1, RestartedOK, ActSentPageOK DEF Reloading
<1>4. CASE /\ screen.after = "answer"
           /\ shown' = [about |-> about, version |-> act.version, working |-> FALSE]
           /\ act' = Quiet /\ UNCHANGED <<reads, loading, error, timer, strays, rereads, gaveUp>>
    <2>1. act.version \in -2..MaxVersion
        BY ScreensAssumption DEF PageOK, ActOK, ActTypes
    <2>2. error' \in BOOLEAN
        BY <1>4 DEF PageOK, PageTypes
    <2> QED BY <1>1, <1>4, <2>1, <2>2, ActOverPageOK
<1>5. CASE /\ error' = (error /\ screen.after = "mark")
           /\ shown' = IF act.maker = None THEN shown
                       ELSE [about |-> act.maker, version |-> Made, working |-> FALSE]
           /\ act' = Quiet /\ UNCHANGED <<reads, loading, timer, strays, rereads, gaveUp>>
    <2>1. error' \in BOOLEAN
        BY <1>5
    <2>2. act.maker # None => act.maker \in Questions
        BY DEF PageOK, ActOK, ActTypes, Asks
    <2>3. shown' \in [about : Questions, version : -2..MaxVersion, working : BOOLEAN] \cup {None}
        BY <1>5, <2>2, ScreensAssumption DEF PageOK, PageTypes, Made
    <2> QED BY <1>5, <2>1, <2>3, ActOverPageOK
<1> QED BY <1>2, <1>3, <1>4, <1>5 DEF Done

LEMMA RefusedPageOK ==
    ASSUME PageOK, Refused, UNCHANGED <<screen, open, visible, about, server, clicks, faults>>
    PROVE  PageOK'
<1>1. /\ error' = TRUE /\ act' = Quiet /\ UNCHANGED <<shown, timer, strays, rereads, gaveUp, loading>>
      /\ UNCHANGED reads \/ (about # None /\ Free # {} /\ reads' = Asked(about))
    BY DEF Refused
<1>2. ReadsOK'
    BY <1>1, AboutAsked, AskedOK, UnchangedReads DEF PageOK
<1>3. PageTypes'
    BY <1>1 DEF PageOK, PageTypes, Asks, Answers
<1>4. ActOK' /\ TimersOK'
    BY <1>1, QuietOK DEF PageOK, ActOK, Quiet, TimersOK
<1> QED BY <1>2, <1>3, <1>4 DEF PageOK

LEMMA ActAnsweredPageOK == ASSUME PageOK, ActAnswered PROVE PageOK'
<1>1. UNCHANGED <<screen, open, visible, about, server, clicks, faults>>
    BY DEF ActAnswered
<1>2. CASE CancelAnswered
    <2>1. gaveUp' \in BOOLEAN
        BY <1>2, RestartedOK DEF CancelAnswered
    <2>2. about \in Questions
        BY <1>2, AboutAsked, RowFields DEF CancelAnswered, PageOK, PageTypes
    <2> QED BY <1>1, <1>2, <2>1, <2>2, RestartedOK, ActSentPageOK DEF CancelAnswered
<1> QED BY <1>1, <1>2, DonePageOK, RefusedPageOK DEF ActAnswered

LEMMA ServerMovesPageOK == ASSUME PageOK, ServerMoves PROVE PageOK'
<1>1. server' \in Answers /\ UNCHANGED <<screen, open, visible, about, reads, page, clicks, faults>>
    BY ServerStep DEF ServerMoves, PageOK, PageTypes
<1>2. ReadsOK' /\ Used' = Used
    BY <1>1, UnchangedReads DEF PageOK
<1> QED BY <1>1, <1>2 DEF page, PageOK, PageTypes, ActOK, TimersOK, Asks, Answers

LEMMA StepPageOK == PageOK /\ [Next]_vars => PageOK'
<1> SUFFICES ASSUME PageOK, [Next]_vars PROVE PageOK'
    OBVIOUS
<1>1. ASSUME NEW s \in Slots, Serve(s) \/ Receive(s) \/ ReadFails(s) PROVE PageOK'
    BY <1>1, ServePageOK, ReceivePageOK, ReadFailsPageOK
<1>2. ASSUME NEW q \in Questions \cup {None}, Choose(q) PROVE PageOK'
    BY <1>2, ChoosePageOK
<1>3. CASE UNCHANGED vars
    BY <1>3, UnchangedReads DEF vars, page, PageOK, PageTypes, ActOK, TimersOK, Asks, Answers
<1> QED BY <1>1, <1>2, <1>3, PollPageOK, AskAgainPageOK, TimerFiresPageOK, StrayFiresPageOK, PickFoundPageOK, ActPageOK,
           CatalogKnowsPageOK, CreatePageOK, ServeActPageOK, ActAnsweredPageOK, ServerMovesPageOK, LeavePageOK, LookPageOK DEF Next

-----------------------------------------------------------------------------
(* The bursts: each read, timer and act under way goes back to the first read or to    *)
(* something the customer did, so no more of them overlap than there were clicks.      *)

Held == IF timer = None THEN 0 ELSE 1
Answering == IF act.phase \in {"sent", "done", "refused"} THEN 1 ELSE 0

Overlaps ==
    screen \in Bursts =>
        /\ strays + Held + Cardinality(Used) + Answering <= 1 + clicks
        /\ strays <= clicks
        /\ rereads + strays + Held <= MaxRereads + clicks

\* The numbers it is about.
LEMMA Counts ==
    ASSUME PageOK
    PROVE  /\ IsFiniteSet(Used) /\ Cardinality(Used) \in Nat
           /\ Held \in 0..1 /\ Answering \in 0..1 /\ strays \in Nat /\ rereads \in Nat /\ clicks \in Nat
<1>1. IsFiniteSet(Slots)
    BY FS_Interval, ScreensAssumption DEF Slots
<1>2. IsFiniteSet(Used)
    BY <1>1, FS_Subset DEF Used
<1> QED BY <1>2, FS_CardinalityType, ScreensAssumption DEF PageOK, PageTypes, Held, Answering

LEMMA OneMoreRead ==
    ASSUME PageOK, Slot \in Slots \ Used, Used' = Used \cup {Slot}
    PROVE  Cardinality(Used)' = Cardinality(Used) + 1
BY Counts, FS_AddElement

LEMMA OneReadLess ==
    ASSUME PageOK, NEW s \in Used, Used' = Used \ {s}
    PROVE  Cardinality(Used)' = Cardinality(Used) - 1 /\ Cardinality(Used)' \in Nat
BY Counts, FS_RemoveElement, FS_CardinalityType

LEMMA BurstRows == Bursts \cap ({Chart, YearRange, AdviceSignal, Search, StrategyRuns} \cup Stores) = {}
BY DEF Bursts, Stores, Row, Blotter, CashPage, Chart, YearRange, AdviceSignal, Search, StrategyRuns, CurrentAccount,
       WatchList, Inbox

LEMMA InitOverlaps == Init /\ PageOK => Overlaps
<1> SUFFICES ASSUME Init, PageOK, screen \in Bursts PROVE Overlaps
    BY DEF Overlaps
<1>1. Used \subseteq {1}
    BY DEF Init, Used
<1>2. Cardinality(Used) <= 1
    <2>1. IsFiniteSet({1}) /\ Cardinality({1}) = 1
        BY FS_Singleton
    <2> QED BY <1>1, <2>1, FS_Subset
<1>3. Held = 0 /\ Answering = 0 /\ strays = 0 /\ rereads = 0 /\ clicks = 0
    BY BurstRows DEF Init, Held, Answering, Quiet
<1> QED BY <1>2, <1>3, Counts, ScreensAssumption DEF Overlaps

LEMMA BurstFields ==
    ASSUME screen \in Bursts
    PROVE  screen.reread = "burst" /\ screen.after \in {"refresh", "restart"}
BY DEF Bursts, Row, Blotter, CashPage

\* A fresh burst, after the customer asked or an act was answered.
LEMMA RestartedOverlaps ==
    ASSUME PageOK, Overlaps, Restarted, about \in Questions, clicks' \in Nat, screen' = screen,
           clicks' + Answering = clicks + 1 + Answering' \/ (clicks' = clicks /\ Answering = 1 /\ Answering' = 0)
    PROVE  Overlaps'
<1>1. Slot \in Slots \ Used /\ Used' = Used \cup {Slot}
    BY SendsOK DEF Restarted, PageOK
<1>2. Cardinality(Used)' = Cardinality(Used) + 1
    BY <1>1, OneMoreRead
<1>3. timer' = None /\ rereads' = 0 /\ strays' = strays
    BY DEF Restarted
<1>4. Held' = 0
    BY <1>3 DEF Held
<1>5. Answering' \in 0..1
    BY DEF Answering
<1> QED BY <1>2, <1>3, <1>4, <1>5, Counts, ScreensAssumption DEF Overlaps

LEMMA AskAgainOverlaps == ASSUME PageOK, Overlaps, AskAgain, screen \in Bursts PROVE Overlaps'
<1>1. Restarted /\ clicks' = clicks + 1 /\ screen' = screen /\ act' = act
    BY BurstFields DEF AskAgain
<1>2. Answering' = Answering
    BY <1>1 DEF Answering
<1>3. clicks' \in Nat /\ clicks' + Answering = clicks + 1 + Answering'
    BY <1>1, <1>2, Counts
<1>4. about \in Questions
    BY AboutAsked
<1> QED BY <1>1, <1>3, <1>4, RestartedOverlaps

LEMMA TimerFiresOverlaps == ASSUME PageOK, Overlaps, TimerFires, screen \in Bursts PROVE Overlaps'
<1>1. /\ Sends(timer) /\ timer' = None /\ rereads' = rereads + 1
      /\ UNCHANGED <<screen, act, strays, clicks>> /\ timer \in Questions /\ timer # None
    BY BurstRows, AboutAsked DEF TimerFires
<1>2. Cardinality(Used)' = Cardinality(Used) + 1
    BY <1>1, SendsOK, OneMoreRead DEF PageOK
<1>3. Held' = 0 /\ Held = 1 /\ Answering' = Answering
    BY <1>1 DEF Held, Answering
<1> QED BY <1>1, <1>2, <1>3, Counts, ScreensAssumption DEF Overlaps

LEMMA StrayFiresOverlaps == ASSUME PageOK, Overlaps, StrayFires, screen \in Bursts PROVE Overlaps'
<1>1. /\ Sends(about) /\ timer' = None /\ rereads' = rereads + 1
      /\ UNCHANGED <<screen, act, clicks>> /\ about \in Questions /\ strays > 0
    BY AboutAsked DEF StrayFires
<1>2. Cardinality(Used)' = Cardinality(Used) + 1
    BY <1>1, SendsOK, OneMoreRead DEF PageOK
<1>3. Held' = 0 /\ Answering' = Answering
    BY <1>1 DEF Held, Answering
<1>4. strays' \in Nat /\ strays' + 1 = strays + Held
    BY Counts DEF StrayFires, Held
<1>5. /\ strays' + Held' + Cardinality(Used)' + Answering' <= 1 + clicks
      /\ strays' <= clicks
    BY <1>2, <1>3, <1>4, Counts DEF Overlaps
<1>6. rereads' + strays' + Held' <= MaxRereads + clicks
    BY <1>1, <1>3, <1>4, Counts, ScreensAssumption DEF Overlaps
<1> QED BY <1>1, <1>5, <1>6 DEF Overlaps

LEMMA ReceiveOverlaps == ASSUME PageOK, Overlaps, NEW s \in Slots, Receive(s), screen \in Bursts PROVE Overlaps'
<1>1. /\ reads[s].answer # None /\ reads' = [reads EXCEPT ![s] = Idle]
      /\ UNCHANGED <<screen, rereads, clicks>> /\ ActOverWith(s) /\ ScheduleReread(reads[s].answer)
    BY BurstFields DEF Receive
<1>2. s \in Used
    BY <1>1 DEF Used, Idle
<1>3. Cardinality(Used)' = Cardinality(Used) - 1 /\ Cardinality(Used)' \in Nat
    BY <1>1, <1>2, ReadOver, OneReadLess DEF PageOK
<1>4. Answering' = Answering
    BY <1>1 DEF ActOverWith, Answering, Quiet
<1>5. CASE UNCHANGED <<timer, strays>>
    BY <1>1, <1>3, <1>4, <1>5, Counts, ScreensAssumption DEF Overlaps, Held
<1>6. CASE rereads < MaxRereads /\ timer' = about /\ strays' = strays + Held
    <2>1. Held' = 1
        BY <1>6, AboutAsked DEF Held
    <2> QED BY <1>1, <1>3, <1>4, <1>6, <2>1, Counts, ScreensAssumption DEF Overlaps
<1>7. UNCHANGED <<timer, strays>> \/ (rereads < MaxRereads /\ timer' = about /\ strays' = strays + Held)
    BY <1>1, Counts, ScreensAssumption DEF ScheduleReread, Held
<1> QED BY <1>5, <1>6, <1>7

LEMMA ReadFailsOverlaps == ASSUME PageOK, Overlaps, NEW s \in Slots, ReadFails(s), screen \in Bursts PROVE Overlaps'
<1>1. /\ s \in Used /\ reads' = [reads EXCEPT ![s] = Idle]
      /\ UNCHANGED <<screen, timer, strays, rereads, clicks>> /\ ActOverWith(s)
    BY DEF ReadFails, Used
<1>2. Cardinality(Used)' = Cardinality(Used) - 1
    BY <1>1, ReadOver, OneReadLess DEF PageOK
<1>3. Answering' = Answering /\ Held' = Held
    BY <1>1 DEF ActOverWith, Answering, Quiet, Held
<1> QED BY <1>1, <1>2, <1>3, Counts, ScreensAssumption DEF Overlaps

\* No read, no timer and no act more than there were.
LEMMA NoMoreOverlaps ==
    ASSUME PageOK, Overlaps, UNCHANGED <<screen, strays, rereads>>, Used' = Used, timer' \in {timer, None},
           clicks' \in Nat, clicks + Answering' <= clicks' + Answering, clicks <= clicks', Answering' \in 0..1
    PROVE  Overlaps'
<1>1. Cardinality(Used)' = Cardinality(Used)
    OBVIOUS
<1>2. Held' \in 0..1 /\ Held' <= Held
    BY DEF Held
<1> QED BY <1>1, <1>2, Counts, ScreensAssumption DEF Overlaps

LEMMA ActOverlaps == ASSUME PageOK, Overlaps, Act, screen \in Bursts PROVE Overlaps'
<1>1. /\ UNCHANGED <<screen, reads, timer, strays, rereads>> /\ clicks' = clicks + 1
      /\ act.phase = "none" /\ act' = [Quiet EXCEPT !.phase = "sent"]
    BY DEF Act, Busy
<1>2. Answering = 0 /\ Answering' = 1
    BY <1>1 DEF Answering, Quiet
<1>3. Used' = Used
    BY <1>1, UnchangedReads DEF PageOK
<1> QED BY <1>1, <1>2, <1>3, Counts, NoMoreOverlaps

LEMMA ServeActOverlaps == ASSUME PageOK, Overlaps, ServeAct, screen \in Bursts PROVE Overlaps'
<1>1. UNCHANGED <<screen, reads, timer, strays, rereads, clicks>> /\ act.phase = "sent"
    BY DEF ServeAct
<1>2. Answering = 1 /\ Answering' \in 0..1
    BY <1>1 DEF Answering
<1>3. Used' = Used
    BY <1>1, UnchangedReads DEF PageOK
<1> QED BY <1>1, <1>2, <1>3, Counts, NoMoreOverlaps

LEMMA ActAnsweredOverlaps == ASSUME PageOK, Overlaps, ActAnswered, screen \in Bursts PROVE Overlaps'
<1>1. UNCHANGED <<screen, about, clicks>> /\ (Done \/ Refused \/ CancelAnswered) /\ about \in Questions
    BY AboutAsked DEF ActAnswered
<1>2. CASE Restarted /\ act.phase \in {"done", "refused"} /\ act'.phase \in {"none", "reload"}
    <2>1. Answering = 1 /\ Answering' = 0
        BY <1>2 DEF Answering
    <2> QED BY <1>1, <1>2, <2>1, Counts, RestartedOverlaps
<1>3. CASE Refused
    <2>1. act.phase = "refused" /\ act' = Quiet /\ UNCHANGED <<reads, timer, strays, rereads>>
        BY <1>3, BurstFields DEF Refused
    <2>2. Answering = 1 /\ Answering' = 0 /\ Used' = Used
        BY <2>1, UnchangedReads DEF Answering, Quiet, PageOK
    <2> QED BY <1>1, <2>1, <2>2, Counts, NoMoreOverlaps
<1>4. CASE Done
    <2>1. Restarted /\ act.phase = "done" /\ Reloading
        BY <1>4, BurstFields DEF Done
    <2>2. act'.phase = "reload"
        BY <2>1 DEF Reloading, Quiet
    <2> QED BY <1>2, <2>1, <2>2
<1>5. CASE CancelAnswered
    <2>1. act'.phase = "none"
        BY <1>5 DEF CancelAnswered, Quiet
    <2> QED BY <1>2, <1>5, <2>1 DEF CancelAnswered
<1> QED BY <1>1, <1>3, <1>4, <1>5

LEMMA StepOverlaps == PageOK /\ Overlaps /\ [Next]_vars => Overlaps'
<1> SUFFICES ASSUME PageOK, Overlaps, [Next]_vars, screen' \in Bursts PROVE Overlaps'
    BY DEF Overlaps
<1>1. screen' = screen
    BY DEF Next, Poll, AskAgain, TimerFires, StrayFires, Serve, Receive, ReadFails, Choose, CatalogKnows, PickFound, Act, Create, ServeAct, ActAnswered,
           ServerMoves, Leave, Look, vars
<1>2. screen \in Bursts
    BY <1>1
<1>3. ASSUME NEW s \in Slots, Serve(s) \/ Receive(s) \/ ReadFails(s) PROVE Overlaps'
    <2>1. CASE Serve(s)
        <3>1. Used' = Used /\ UNCHANGED <<screen, timer, strays, rereads, act, clicks>>
            BY <2>1, ReadAnswered DEF Serve, page, PageOK, PageTypes
        <3>2. Answering' = Answering
            BY <3>1 DEF Answering
        <3> QED BY <3>1, <3>2, Counts, NoMoreOverlaps
    <2> QED BY <1>2, <1>3, <2>1, ReceiveOverlaps, ReadFailsOverlaps
<1>4. ASSUME Leave \/ ServerMoves \/ UNCHANGED vars PROVE Overlaps'
    <2>1. UNCHANGED <<screen, reads, strays, rereads, act, clicks>> /\ timer' \in {timer, None}
        BY <1>4 DEF Leave, ServerMoves, vars, page
    <2>2. Answering' = Answering /\ Used' = Used
        BY <2>1, UnchangedReads DEF Answering, PageOK
    <2> QED BY <2>1, <2>2, Counts, NoMoreOverlaps
<1>5. ~Poll /\ ~PickFound /\ ~Look /\ ~CatalogKnows /\ ~Create
    BY <1>2, BurstRows, BurstFields DEF Poll, Due, PickFound, Look, CatalogKnows, Create, Stores
<1>6. ASSUME NEW q \in Questions \cup {None} PROVE ~Choose(q)
    BY <1>2, BurstRows DEF Choose
<1> QED BY <1>2, <1>3, <1>4, <1>5, <1>6, AskAgainOverlaps, TimerFiresOverlaps, StrayFiresOverlaps, ActOverlaps, ServeActOverlaps,
           ActAnsweredOverlaps DEF Next

-----------------------------------------------------------------------------
(* What is shown *)

NoneLatest == \A s \in Slots : ~reads[s].latest

\* The stores that keep to an account show nothing of another one, but for a watchlist
\* just made.
OwnShown == screen \in {CurrentAccount, WatchList} /\ shown # None => shown.version = Made \/ shown.about = about

\* Unless a question waits to be asked, a read for the latest one is about it, and what is
\* shown once no such read is left is its answer.  For a text that has gone meanwhile there
\* is no such read, and nothing is shown; a chart waits for the latest question only.
LatestShown ==
    screen \in {Chart, Search} /\ open =>
        /\ timer = None =>
              /\ \A s \in Slots : reads[s].latest => reads[s].about = about
              /\ shown # None /\ NoneLatest => shown.about = about
        /\ timer \notin {None, about} => screen = Search /\ shown = None /\ NoneLatest

LEMMA InitShown == Init => OwnShown /\ LatestShown
BY DEF Init, OwnShown, LatestShown, NoneLatest, Unanswered, Idle

LEMMA ScreenStays == [Next]_vars => screen' = screen
BY DEF Next, Poll, AskAgain, TimerFires, StrayFires, Serve, Receive, ReadFails, Choose, CatalogKnows, PickFound, Act, Create, ServeAct, ActAnswered,
       ServerMoves, Leave, Look, vars

LEMMA StepOwnShown == PageOK /\ OwnShown /\ [Next]_vars => OwnShown'
<1> SUFFICES ASSUME PageOK, OwnShown, [Next]_vars, screen' \in {CurrentAccount, WatchList}, shown' # None
             PROVE  shown'.version = Made \/ shown'.about = about'
    BY DEF OwnShown
<1> USE DEF OwnShown
<1>1. screen' = screen /\ screen \in {CurrentAccount, WatchList} /\ screen.keeps = "own" /\ screen.after \in {"none", "expected"}
    BY ScreenStays DEF CurrentAccount, WatchList, Row
<1>2. CASE UNCHANGED <<shown, about>>
    BY <1>1, <1>2
<1>3. ASSUME NEW s \in Slots, Receive(s) PROVE shown'.version = Made \/ shown'.about = about'
    BY <1>1, <1>3 DEF Receive, Keeps
<1>4. ASSUME NEW s \in Slots, ReadFails(s) PROVE shown'.version = Made \/ shown'.about = about'
    BY <1>1, <1>4 DEF ReadFails
<1>5. ASSUME NEW q \in Questions \cup {None}, Choose(q) PROVE shown'.version = Made \/ shown'.about = about'
    BY <1>1, <1>5, OwnRows DEF Choose, Follow
<1>6. CASE Act
    <2>1. /\ about' = about
          /\ \/ shown' = [shown EXCEPT !.version = IF @ = Made THEN Made ELSE Expected]
             \/ shown' = shown
        BY <1>6 DEF Act
    <2>2. CASE shown' = [shown EXCEPT !.version = IF @ = Made THEN Made ELSE Expected] /\ shown # None
        <3>1. shown'.about = shown.about /\ (shown.version = Made => shown'.version = Made)
            BY <2>2 DEF PageOK, PageTypes
        <3> QED BY <3>1, <2>1, <2>2, <1>1
    <2>3. shown # None
        BY <1>6, <1>1, <2>1, OwnRows DEF Act, Actionable
    <2> QED BY <2>1, <2>2, <2>3, <1>1
<1>7. CASE ActAnswered
    <2>1. about' = about /\ (shown' = shown \/ shown' = [about |-> act.maker, version |-> Made, working |-> FALSE])
        BY <1>1, <1>7 DEF ActAnswered, Done, Refused, CancelAnswered, Restarted
    <2> QED BY <1>2, <2>1
<1>8. CASE Poll \/ Create \/ AskAgain \/ TimerFires \/ StrayFires \/ ServeAct \/ ServerMoves \/ Leave \/ Look \/ UNCHANGED vars
    <2>1. UNCHANGED <<shown, about>>
        BY <1>8 DEF Poll, Create, AskAgain, Restarted, TimerFires, StrayFires, ServeAct, ServerMoves, Leave, Look, vars, page
    <2> QED BY <1>2, <2>1
<1>9. ASSUME NEW s \in Slots, Serve(s) PROVE shown'.version = Made \/ shown'.about = about'
    BY <1>2, <1>9 DEF Serve, page
<1>10. ~PickFound /\ ~CatalogKnows
    BY <1>1, OwnRows DEF PickFound, CatalogKnows
<1> QED BY <1>3, <1>4, <1>5, <1>6, <1>7, <1>8, <1>9, <1>10 DEF Next

\* The chart and the search: what is not said of a step of theirs.
LEMMA LatestFields ==
    ASSUME screen \in {Chart, Search}
    PROVE  /\ screen.keeps = "latest" /\ screen.reread = "never" /\ screen.button = "never" /\ screen.after = "none"
           /\ screen.acts = {} /\ screen \notin Bursts /\ screen # YearRange /\ screen \notin Stores
           /\ screen \notin {AdviceSignal, StrategyRuns}
BY LatestRows DEF Chart, Search, Row, Bursts, Blotter, CashPage

\* The reads, the question and what is shown stay as they are, or the page is left.
LEMMA LatestStays ==
    ASSUME LatestShown, UNCHANGED <<screen, about>>, open' => open /\ UNCHANGED <<timer, shown>>,
           \A s \in Slots : reads'[s].about = reads[s].about /\ reads'[s].latest = reads[s].latest
    PROVE  LatestShown'
<1>1. NoneLatest' <=> NoneLatest
    BY DEF NoneLatest, Slots
<1> QED BY <1>1 DEF LatestShown, Slots

\* The question that was just put is asked about.
LEMMA LatestSent ==
    ASSUME ReadsOK, Sends(about'), about' \in Questions, timer' = None, screen' = screen
    PROVE  LatestShown'
<1>1. Slot \in Slots /\ reads'[Slot].about = about' /\ \A s \in Slots \ {Slot} : ~reads'[s].latest
    BY SendsOK
<1>2. ReadsOK
    OBVIOUS
<1>3. reads'[Slot].latest
    <2>1. Slot \in Slots /\ reads' = [Superseded EXCEPT ![Slot] = Unanswered(about')]
        BY <1>1 DEF Sends, Asked
    <2> QED BY <2>1, SupersededOK DEF Unanswered
<1> QED BY <1>1, <1>3 DEF LatestShown, NoneLatest, Slots

\* A read that is over is none any more.
LEMMA OneLess ==
    ASSUME PageOK, NEW s \in Slots, reads' = [reads EXCEPT ![s] = Idle]
    PROVE  /\ \A t \in Slots : reads'[t].latest => reads[t].latest /\ reads'[t].about = reads[t].about
           /\ ~reads[s].latest => (NoneLatest' <=> NoneLatest)
           /\ NoneLatest => NoneLatest'
<1>1. \A t \in Slots : reads'[t] = IF t = s THEN Idle ELSE reads[t]
    BY ReadOver DEF PageOK
<1>2. \A t \in Slots : reads'[t].latest => reads[t].latest /\ reads'[t].about = reads[t].about
    BY <1>1 DEF Idle
<1>3. ASSUME ~reads[s].latest PROVE NoneLatest' <=> NoneLatest
    <2>1. \A t \in Slots : reads'[t].latest <=> reads[t].latest
        BY <1>1, <1>3 DEF Idle
    <2> QED BY <2>1 DEF NoneLatest, Slots
<1> QED BY <1>2, <1>3 DEF NoneLatest, Slots

LEMMA ReceiveLatest == ASSUME PageOK, LatestShown, NEW s \in Slots, Receive(s), screen \in {Chart, Search} PROVE LatestShown'
<1>1. /\ UNCHANGED <<screen, open, about, timer>> /\ reads' = [reads EXCEPT ![s] = Idle]
      /\ shown' = IF reads[s].latest
                  THEN [about |-> reads[s].about, version |-> reads[s].answer.version, working |-> reads[s].answer.working]
                  ELSE shown
    BY LatestFields DEF Receive, Keeps
<1>2. /\ \A t \in Slots : reads'[t].latest => reads[t].latest /\ reads'[t].about = reads[t].about
      /\ ~reads[s].latest => (NoneLatest' <=> NoneLatest)
      /\ NoneLatest => NoneLatest'
    BY <1>1, OneLess
<1>3. CASE reads[s].latest
    <2>1. shown'.about = reads[s].about /\ ~NoneLatest
        BY <1>1, <1>3 DEF NoneLatest
    <2> QED BY <1>1, <1>2, <1>3, <2>1 DEF LatestShown, Slots
<1>4. CASE ~reads[s].latest
    BY <1>1, <1>2, <1>4 DEF LatestShown, Slots
<1> QED BY <1>3, <1>4

LEMMA ReadFailsLatest == ASSUME PageOK, LatestShown, NEW s \in Slots, ReadFails(s), screen \in {Chart, Search} PROVE LatestShown'
<1>1. /\ UNCHANGED <<screen, open, about, timer>> /\ reads' = [reads EXCEPT ![s] = Idle]
      /\ shown' = IF reads[s].latest THEN None ELSE shown
    BY LatestFields DEF ReadFails
<1>2. /\ \A t \in Slots : reads'[t].latest => reads[t].latest /\ reads'[t].about = reads[t].about
      /\ ~reads[s].latest => (NoneLatest' <=> NoneLatest)
      /\ NoneLatest => NoneLatest'
    BY <1>1, OneLess
<1>3. CASE reads[s].latest
    BY <1>1, <1>2, <1>3 DEF LatestShown, Slots
<1>4. CASE ~reads[s].latest
    BY <1>1, <1>2, <1>4 DEF LatestShown, Slots
<1> QED BY <1>3, <1>4

LEMMA TimerFiresLatest == ASSUME PageOK, LatestShown, TimerFires, screen \in {Chart, Search} PROVE LatestShown'
<1>1. /\ UNCHANGED <<screen, open, about, shown>> /\ timer' = None /\ timer # None /\ Free # {}
      /\ screen = Search /\ timer \in Questions
    BY AboutAsked DEF TimerFires
<1>2. CASE timer # about
    <2>1. open => shown = None /\ NoneLatest
        BY <1>1, <1>2 DEF LatestShown
    <2>2. \A s \in Slots : reads'[s].latest => reads[s].latest
        BY <1>1, <1>2, StaleSent DEF TimerFires, PageOK
    <2> QED BY <1>1, <2>1, <2>2 DEF LatestShown, NoneLatest, Slots
<1>3. CASE timer = about
    <2>1. Sends(about')
        BY <1>1, <1>3 DEF TimerFires
    <2> QED BY <1>1, <1>3, <2>1, LatestSent DEF PageOK
<1> QED BY <1>2, <1>3

LEMMA ChooseLatest ==
    ASSUME PageOK, LatestShown, NEW q \in Questions \cup {None}, Choose(q), screen \in {Chart, Search}
    PROVE  LatestShown'
<1>1. about' = q /\ screen' = screen
    BY DEF Choose
<1>2. CASE screen = Chart
    <2>1. q \in Questions /\ ((timer' = None /\ Sends(q)) \/ timer' = q)
        BY <1>2, ChartIsNotSearch, LatestFields DEF Choose, ChooseRange
    <2>2. CASE timer' = None /\ Sends(q)
        BY <1>1, <2>1, <2>2, LatestSent DEF PageOK
    <2>3. CASE timer' = q
        BY <1>1, <2>1, <2>3, ScreensAssumption DEF LatestShown
    <2> QED BY <2>1, <2>2, <2>3
<1>3. CASE screen = Search
    <2>1. Type(q)
        BY <1>3, ChartIsNotSearch, LatestFields DEF Choose
    <2>2. reads' = Superseded /\ timer' = q /\ (q = None => shown' = None)
        BY <2>1 DEF Type
    <2>3. NoneLatest'
        BY <2>2, AllSuperseded DEF PageOK, NoneLatest, Slots
    <2> QED BY <1>1, <2>2, <2>3 DEF LatestShown, NoneLatest, Slots
<1> QED BY <1>2, <1>3

\* A chart waits for the latest question only.
LEMMA CatalogKnowsLatest ==
    ASSUME PageOK, LatestShown, CatalogKnows, screen \in {Chart, Search} PROVE LatestShown'
<1>1. /\ screen = Chart /\ open /\ timer # None /\ timer' = None /\ Sends(timer)
      /\ UNCHANGED <<screen, about>>
    BY LatestRows DEF CatalogKnows
<1>2. timer = about
    BY <1>1, ChartIsNotSearch DEF LatestShown
<1> QED BY <1>1, <1>2, AboutAsked, LatestSent DEF PageOK

LEMMA PickFoundLatest == ASSUME PageOK, LatestShown, PickFound PROVE LatestShown'
<1>1. /\ shown' = None /\ UNCHANGED <<screen, open, timer>> /\ screen = Search
      /\ (about' = None /\ reads' = Superseded) \/ UNCHANGED <<about, reads>>
    BY DEF PickFound
<1>2. CASE about' = None /\ reads' = Superseded
    <2>1. NoneLatest'
        BY <1>2, AllSuperseded DEF PageOK, NoneLatest, Slots
    <2> QED BY <1>1, <2>1 DEF LatestShown, NoneLatest, Slots
<1>3. CASE UNCHANGED <<about, reads>>
    BY <1>1, <1>3 DEF LatestShown, NoneLatest, Slots
<1> QED BY <1>1, <1>2, <1>3

LEMMA StepLatestShown == PageOK /\ LatestShown /\ [Next]_vars => LatestShown'
<1> SUFFICES ASSUME PageOK, LatestShown, [Next]_vars, screen' \in {Chart, Search} PROVE LatestShown'
    BY DEF LatestShown
<1>1. screen \in {Chart, Search}
    BY ScreenStays
<1>2. ASSUME NEW s \in Slots, Serve(s) PROVE LatestShown'
    <2>1. \A t \in Slots : reads'[t].about = reads[t].about /\ reads'[t].latest = reads[t].latest
        BY <1>2, ReadAnswered DEF Serve, PageOK, PageTypes
    <2> QED BY <1>2, <2>1, LatestStays DEF Serve, page
<1>3. CASE ServeAct \/ ActAnswered \/ ServerMoves \/ UNCHANGED vars
    <2>1. UNCHANGED <<screen, open, about, timer, shown, reads>>
        BY <1>1, <1>3, LatestFields DEF ServeAct, ActAnswered, Done, Refused, CancelAnswered, ServerMoves, vars, page
    <2> QED BY <2>1, LatestStays
<1>4. CASE Leave
    BY <1>4 DEF Leave, LatestShown
<1>5. ~Poll /\ ~AskAgain /\ ~StrayFires /\ ~Act /\ ~Look /\ ~Create
    BY <1>1, LatestFields DEF Poll, Due, AskAgain, StrayFires, Act, Look, Create, Stores, PageOK, TimersOK
<1> QED BY <1>1, <1>2, <1>3, <1>4, <1>5, ReceiveLatest, ReadFailsLatest, TimerFiresLatest, ChooseLatest, CatalogKnowsLatest,
           PickFoundLatest DEF Next

-----------------------------------------------------------------------------
ScreensInv == PageOK /\ Overlaps /\ OwnShown /\ LatestShown

LEMMA InitScreensInv == Init => ScreensInv
BY InitPageOK, InitOverlaps, InitShown DEF ScreensInv

LEMMA StepScreensInv == ScreensInv /\ [Next]_vars => ScreensInv'
BY StepPageOK, StepOverlaps, StepOwnShown, StepLatestShown DEF ScreensInv

\* Types; a burst counts no further than its cap and once more for each time the customer
\* made reads overlap; and a page is busy after an act only while its read is under way.
THEOREM TypeCorrect == Spec => []TypeOK
<1>1. ScreensInv => TypeOK
    <2> SUFFICES ASSUME ScreensInv PROVE TypeOK
        OBVIOUS
    <2>1. strays \in 0..MaxClicks /\ rereads \in 0..(MaxRereads + MaxClicks)
        <3>1. CASE screen \in Bursts
            <4>1. strays <= clicks /\ rereads + strays + Held <= MaxRereads + clicks
                BY <3>1 DEF ScreensInv, Overlaps
            <4>2. clicks <= MaxClicks
                BY ScreensAssumption DEF ScreensInv, PageOK, PageTypes
            <4> QED BY <4>1, <4>2, Counts, ScreensAssumption DEF ScreensInv
        <3>2. CASE screen \notin Bursts
            BY <3>2, ScreensAssumption DEF ScreensInv, PageOK, TimersOK
        <3> QED BY <3>1, <3>2
    <2>2. act.phase \in {"none", "sent", "done", "refused", "reload"} /\ (act.phase = "reload" => reads[act.slot] # Idle)
        BY DEF ScreensInv, PageOK, ActOK, ActTypes, Used
    <2>3. act.maker \in Asks
        BY DEF ScreensInv, PageOK, ActOK, ActTypes
    <2> QED BY <2>1, <2>2, <2>3 DEF ScreensInv, PageOK, PageTypes, ReadsOK, TypeOK, Made
<1> QED BY <1>1, InitScreensInv, StepScreensInv, PTL DEF Spec

\* The current account and the watchlists shown are those of the account signed in, but
\* for a watchlist just made, which stays until the next read; the chart and the list of
\* what was found are the latest question's once it is answered, in whatever order the
\* answers come: for any questions, any number of reads under way and any timing.  It says
\* nothing of the other pages.
THEOREM AnswersFit == Spec => []ShownIsAsked
<1>1. ScreensInv => ShownIsAsked
    BY DEF ScreensInv, OwnShown, LatestShown, NoneLatest, ShownIsAsked
<1> QED BY <1>1, InitScreensInv, StepScreensInv, PTL DEF Spec

\* The bursts of the blotter and of the Cash page do not multiply: whatever was pressed
\* while reads were under way, and though only the timer set last can be cancelled, the
\* reads, timers and acts under way together are at most one more than the clicks, and
\* the reads of a burst above its cap at most one for each.
THEOREM BurstsDoNotMultiply == Spec => []Overlaps
<1>1. ScreensInv => Overlaps
    BY DEF ScreensInv
<1> QED BY <1>1, InitScreensInv, StepScreensInv, PTL DEF Spec
===============================================================================
