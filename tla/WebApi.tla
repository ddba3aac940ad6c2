------------------------------- MODULE WebApi -------------------------------
(***************************************************************************)
(* The requests of the web client: what each method of the generated       *)
(* clients sends and where, the servers the clients are pointed at, the    *)
(* interceptor that decides which requests carry the customer's token, and *)
(* the guards of the servers that ask for it.                              *)
(*                                                                         *)
(* A path is a first part, "/api/v1", "/auth" or "/", and the segments     *)
(* below it, a parameter in the place of its value.  Bodies, accept        *)
(* headers and response types are left out.                                *)
(***************************************************************************)
EXTENDS Naturals

CONSTANTS
    None,
    TradeOrigin,   \* origin of the Trade REST API
    AuthOrigin,    \* origin of the Auth service
    AuthIssuer,    \* who the Auth service says signed its tokens
    ExpectedIssuer \* who the Trade REST API expects to have signed them

\* A method's request: parameters it throws without, and whether its
\* description asks for the bearer token.
Request(origin, verb, under, path, required, bearer) ==
    [origin |-> origin, verb |-> verb, under |-> under, path |-> path,
     required |-> required, bearer |-> bearer]

\* Every client but the Auth ones is pointed at the Trade REST API.
Trade(verb, path, required) == Request(TradeOrigin, verb, "/api/v1", path, required, TRUE)
Auth(verb, path, required, bearer) == Request(AuthOrigin, verb, "/auth", path, required, bearer)

\* Login, refresh and register are public.
Login == Auth("post", <<"login">>, {"loginRequest"}, FALSE)
Refresh == Auth("post", <<"refresh">>, {"refreshRequest"}, FALSE)
Register == Auth("post", <<"register">>, {"registerRequest"}, FALSE)
GetCurrentUser == Auth("get", <<"me">>, {}, TRUE)

\* Opening an account is public, and beside the protected routes of its server.
ApplyForAccount ==
    Request(TradeOrigin, "post", "/", <<"onboarding", "applications">>, {"applicationRequest"}, FALSE)
GetHealth == Request(TradeOrigin, "get", "/", <<"health">>, {}, FALSE)

GetAccount == Trade("get", <<"accounts", "{id}">>, {"id"})
GetBalance == Trade("get", <<"accounts", "{id}", "balance">>, {"id"})
GetOrders == Trade("get", <<"accounts", "{id}", "orders">>, {"id"})
GetPositions == Trade("get", <<"accounts", "{id}", "positions">>, {"id"})
CancelOrder == Trade("delete", <<"orders", "{id}">>, {"id"})
PlaceOrder == Trade("post", <<"orders">>, {"placeOrderRequest"})

GetTradableInstruments == Trade("get", <<"instruments">>, {})
GetCandles == Trade("get", <<"instruments", "{symbol}", "candles">>, {"symbol"})
GetQuotes == Trade("get", <<"quotes">>, {"symbols"})
Deposit == Trade("post", <<"accounts", "{id}", "deposits">>, {"id", "transferRequest"})
Withdraw == Trade("post", <<"accounts", "{id}", "withdrawals">>, {"id", "transferRequest"})
GetBankAccount == Trade("get", <<"accounts", "{id}", "bank-account">>, {"id"})
GetTransfers == Trade("get", <<"accounts", "{id}", "transfers">>, {"id"})

GetNotifications == Trade("get", <<"accounts", "{id}", "notifications">>, {"id"})
GetUnreadCount == Trade("get", <<"accounts", "{id}", "notifications", "unread">>, {"id"})
MarkRead == Trade("post", <<"accounts", "{id}", "notifications", "{notificationId}", "read">>, {"id", "notificationId"})

GetPortfolioSummary == Trade("get", <<"portfolio", "{accountId}">>, {"accountId"})
GetPricedPositions == Trade("get", <<"portfolio", "{accountId}", "positions">>, {"accountId"})
GetPnl == Trade("get", <<"portfolio", "{accountId}", "pnl">>, {"accountId"})

GetPreferences == Trade("get", <<"accounts", "{id}", "preferences">>, {"id"})
SavePreferences == Trade("put", <<"accounts", "{id}", "preferences">>, {"id", "preferencesUpdate"})

GetAccountAdvice == Trade("get", <<"accounts", "{id}", "advice">>, {"id"})
GetSignal == Trade("get", <<"advice", "{symbol}">>, {"symbol"})

GetStrategies == Trade("get", <<"accounts", "{id}", "strategies">>, {"id"})
CreateStrategy == Trade("post", <<"accounts", "{id}", "strategies">>, {"id", "strategyRequest"})
DeleteStrategy == Trade("delete", <<"accounts", "{id}", "strategies", "{strategyId}">>, {"id", "strategyId"})
GetStrategyRuns == Trade("get", <<"accounts", "{id}", "strategies", "{strategyId}", "runs">>, {"id", "strategyId"})
SetStrategyEnabled ==
    Trade("put", <<"accounts", "{id}", "strategies", "{strategyId}", "enabled">>, {"id", "strategyId", "enabledRequest"})

GetAlerts == Trade("get", <<"accounts", "{id}", "alerts">>, {"id"})
CreateAlert == Trade("post", <<"accounts", "{id}", "alerts">>, {"id", "alertRequest"})
CancelAlert == Trade("delete", <<"accounts", "{id}", "alerts", "{alertId}">>, {"id", "alertId"})
RearmAlert == Trade("post", <<"accounts", "{id}", "alerts", "{alertId}", "rearm">>, {"id", "alertId"})

GetWatchlists == Trade("get", <<"accounts", "{id}", "watchlists">>, {"id"})
CreateWatchlist == Trade("post", <<"accounts", "{id}", "watchlists">>, {"id", "watchlistRequest"})
RenameWatchlist == Trade("put", <<"accounts", "{id}", "watchlists", "{watchlistId}">>, {"id", "watchlistId", "watchlistRequest"})
DeleteWatchlist == Trade("delete", <<"accounts", "{id}", "watchlists", "{watchlistId}">>, {"id", "watchlistId"})
Entry == <<"accounts", "{id}", "watchlists", "{watchlistId}", "items", "{symbol}">>
AddWatchlistItem == Trade("put", Entry, {"id", "watchlistId", "symbol"})
RemoveWatchlistItem == Trade("delete", Entry, {"id", "watchlistId", "symbol"})

-----------------------------------------------------------------------------
(* What the application sends, by the class that sends it                  *)

AuthApi == {Login, Refresh, GetCurrentUser}
TradeApi == {PlaceOrder, CancelOrder, GetPositions, GetOrders, GetBalance, GetAccount}
PaymentsApi == {GetBankAccount, GetTransfers, Deposit, Withdraw}
PortfolioApi == {GetPortfolioSummary, GetPricedPositions, GetPnl}
AdviceApi == {GetSignal, GetAccountAdvice}
MarketDataApi == {GetQuotes, GetCandles}
InstrumentsApi == {GetTradableInstruments}
NotificationsApi == {GetNotifications, GetUnreadCount, MarkRead}
OnboardingApi == {ApplyForAccount}
PreferencesApi == {GetPreferences, SavePreferences}
StrategiesApi == {GetStrategies, CreateStrategy, SetStrategyEnabled, DeleteStrategy, GetStrategyRuns}
WatchlistsApi ==
    {GetWatchlists, CreateWatchlist, DeleteWatchlist, AddWatchlistItem, RemoveWatchlistItem,
     GetAlerts, CreateAlert, CancelAlert, RearmAlert}

Sent == UNION {AuthApi, TradeApi, PaymentsApi, PortfolioApi, AdviceApi, MarketDataApi, InstrumentsApi,
               NotificationsApi, OnboardingApi, PreferencesApi, StrategiesApi, WatchlistsApi}

\* Every request a generated client can send: three the application has no use for.
Requests == Sent \cup {Register, GetHealth, RenameWatchlist}

-----------------------------------------------------------------------------
(* The token                                                               *)

\* The allow list of the interceptor: what may carry the token, one being held.
CarriesToken(request) ==
    \/ request.origin = TradeOrigin /\ request.under = "/api/v1" /\ request.path # <<>>
    \/ request.origin = AuthOrigin /\ request.under = "/auth" /\ request.path = <<"me">>

\* What a login is given, for fifteen minutes, and what a strategy is, for five; time in
\* seconds.
Claims(credential, roles, iat, seconds) ==
    [sub |-> credential.id, accountId |-> credential.accountId, roles |-> roles,
     iat |-> iat, exp |-> iat + seconds, iss |-> AuthIssuer]
IssueToken(credential, iat) == Claims(credential, credential.roles, iat, 900)
IssueForStrategy(credential, iat) == Claims(credential, credential.roles \cup {"STRATEGY"}, iat, 300)

\* The guards of the servers: the Trade REST API's on everything below its prefix, the
\* Auth service's on one route.
Guarded(request) == request.under = "/api/v1" \/ (request.under = "/auth" /\ request.path = <<"me">>)

\* The clock, and on the Trade REST API who signed it.
Verified(request, token, now) ==
    now < token.exp /\ (request.under = "/api/v1" => token.iss = ExpectedIssuer)

\* Whether a request gets past the guard while the session holds this token, or none: the
\* interceptor's header is the only credential, the clients are given none of their own.
Admitted(request, token, now) ==
    Guarded(request) => token # None /\ CarriesToken(request) /\ Verified(request, token, now)

\* The client's allow list, the descriptions and the servers' guards agree: the token goes
\* with every request whose description asks for it, and with no other, and the server
\* asks for it just there; wherever the two servers are, also when they share an origin,
\* with each other or with the page.  In particular a login, a refresh and an application
\* go without it.
TokenWhereDue ==
    \A request \in Requests : (CarriesToken(request) <=> request.bearer) /\ (Guarded(request) <=> request.bearer)
=============================================================================
