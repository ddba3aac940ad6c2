------------------------------ MODULE Screens ------------------------------
(***************************************************************************)
(* The pages and stores of the web client that read from the Trade REST    *)
(* API: when each one reads and reads again, which answers it shows when   *)
(* they come out of order, and what it does after the customer acted.      *)
(*                                                                         *)
(* Each page or store is a row; a behaviour is the life of one of them.    *)
(* What a row shows is abstracted to a version of what the server has and  *)
(* whether something in it is still in progress (an order at NEW, a        *)
(* transfer at PENDING).  A read of several requests is one, the customer  *)
(* acts on one thing at a time.                                            *)
(***************************************************************************)
EXTENDS Integers, FiniteSets, WebApi

CONSTANTS
    Questions,  \* what can be asked about: accounts, ranges of a chart, texts
    MaxReads,   \* bound: reads under way at once
    MaxRereads, \* reads of a burst after the first (10 in the code)
    MaxVersion, \* bound: times the server's state changes
    MaxClicks,  \* bound: times the customer does something
    MaxFaults   \* bound: reads that fail, answers to an act that are lost

ASSUME ScreensAssumption ==
    /\ None \notin Questions /\ Questions # {}
    /\ MaxReads \in Nat \ {0} /\ MaxRereads \in Nat
    /\ MaxVersion \in Nat /\ MaxClicks \in Nat /\ MaxFaults \in Nat

-----------------------------------------------------------------------------
(* The pages                                                               *)

\* reread: what makes it read again without the customer: nothing, a timer ("always";
\* "idle": unless an act is under way; "visible": while the tab is seen), or a burst of
\* rereads while something is in progress.
\* keeps: which answers it shows: every one, the latest question's, the account's own.
\* after: once an act is answered it reads again and is busy until then ("reload"), the
\* same with a fresh burst ("restart"), restarts whatever the answer and is not busy
\* ("refresh"), shows the answer ("answer"), what it expects at once ("expected"), or
\* changes what it shows by itself ("mark").
\* clears: what takes the error away: an answer shown, an act, a read sent, or nothing.
\* button: whether the customer can ask for a read: never, always, unless one is under way.
Row(reads, acts, reread, keeps, after, clears, button) ==
    [reads |-> reads, acts |-> acts, reread |-> reread, keeps |-> keeps, after |-> after,
     clears |-> clears, button |-> button]

Blotter == Row({GetOrders}, {CancelOrder}, "burst", "every", "refresh", "answer", "unlessLoading")
CashPage == Row({GetTransfers, GetBalance}, {Deposit, Withdraw}, "burst", "every", "restart", "act", "always")
Alerts == Row({GetAlerts}, {CancelAlert, RearmAlert}, "idle", "every", "reload", "act", "never")
StrategiesPage ==
    Row({GetStrategies, GetStrategyRuns}, {SetStrategyEnabled, DeleteStrategy}, "idle", "every", "reload", "act", "never")
NewStrategy == Row({GetStrategies}, {CreateStrategy}, "always", "every", "reload", "act", "never")
Notifications == Row({GetNotifications}, {MarkRead}, "always", "every", "mark", "answer", "never")
Holdings == Row({GetPricedPositions, GetPortfolioSummary, GetPositions}, {}, "visible", "every", "none", "answer", "never")
Dashboard ==
    Row({GetAccount, GetCurrentUser, GetOrders, GetPricedPositions, GetPortfolioSummary, GetPositions},
        {}, "never", "every", "none", "nothing", "never")
Settings == Row({GetPreferences}, {SavePreferences}, "never", "every", "answer", "act", "never")
Signals == Row({GetAccountAdvice}, {}, "never", "every", "none", "ask", "unlessLoading")

\* Forms that read nothing: an alert on the instrument, and the application of a visitor.
SetAlert == Row({}, {CreateAlert}, "never", "every", "answer", "act", "never")
Apply == Row({}, {ApplyForAccount}, "never", "every", "answer", "act", "never")

\* What outlives the pages and follows the account: read when it changes.
CurrentAccount == Row({GetAccount}, {}, "never", "own", "none", "nothing", "always")
\* On the first visit the read makes the first watchlist, of what this browser kept.
WatchList ==
    Row({GetWatchlists, CreateWatchlist, AddWatchlistItem}, {CreateWatchlist, AddWatchlistItem, RemoveWatchlistItem}, "visible", "own", "expected", "answer", "never")
LivePrices == Row({GetQuotes}, {}, "visible", "every", "none", "answer", "never")
Inbox == Row({GetUnreadCount}, {}, "always", "every", "none", "nothing", "always")

\* What the customer changes the question of; a chart waits until the catalog knows the
\* instrument, which it may never, and a fund has none; the search waits a moment before it asks.
Chart == Row({GetCandles}, {}, "never", "latest", "none", "answer", "never")
Search == Row({GetTradableInstruments}, {}, "never", "latest", "none", "answer", "never")
YearRange == Row({GetCandles}, {}, "never", "every", "none", "nothing", "never")
AdviceSignal == Row({GetSignal}, {}, "never", "every", "none", "ask", "unlessLoading")
StrategyRuns == Row({GetStrategyRuns}, {}, "idle", "every", "none", "nothing", "never")

Stores == {CurrentAccount, WatchList, Inbox}
\* The pages that are of one account, and the prices of what is on screen.
Lasting == {Blotter, CashPage, Alerts, StrategiesPage, NewStrategy, Notifications, Holdings, Dashboard, Settings, Signals,
            SetAlert, Apply, LivePrices}
Screens == Lasting \cup Stores \cup {Chart, Search, YearRange, AdviceSignal, StrategyRuns}

\* A row sends nothing the application's clients do not.
ASSUME RowsAssumption == \A row \in Screens : row.reads \cup row.acts \subseteq Sent

-----------------------------------------------------------------------------
VARIABLES
    screen,   \* the row
    open,     \* a page is left at most once; a store stays
    visible,  \* whether the tab is seen
    about,    \* the account, the range or the text now; None: signed out, or no text
    server,   \* what the server has: its version, and whether something is in progress
    reads,    \* the reads under way, and what the server answered if it did
    loading,  \* the flag of the button
    shown,    \* what is shown, None before an answer
    error,    \* whether the page shows an error
    act,      \* the act under way
    timer,    \* the question the timer that can be cancelled reads, or a chart not drawn yet
              \* waits to read, or None
    strays,   \* timers running that nothing can cancel any more
    rereads,
    gaveUp,
    clicks, faults

page == <<loading, shown, error, act, timer, strays, rereads, gaveUp>>
vars == <<screen, open, visible, about, server, reads, page, clicks, faults>>

Slots == 1..MaxReads
Idle == [about |-> None, latest |-> FALSE, answer |-> None]
Unanswered(q) == [about |-> q, latest |-> TRUE, answer |-> None]
Free == {s \in Slots : reads[s] = Idle}
Slot == CHOOSE s \in Free : \A t \in Free : s <= t

\* Another question: no read under way is for the latest any more.
Superseded == [s \in Slots |-> IF reads[s] = Idle THEN Idle ELSE [reads[s] EXCEPT !.latest = FALSE]]
Asked(q) == [Superseded EXCEPT ![Slot] = Unanswered(q)]

\* maker: whose account a watchlist is being made for.
Quiet == [phase |-> "none", slot |-> 0, version |-> 0, maker |-> None]
Busy == act.phase # "none"

Init ==
    /\ screen \in Screens
    /\ open = TRUE /\ visible = TRUE
    /\ about \in IF screen \in {Search, StrategyRuns} THEN {None} ELSE Questions
    /\ server \in [version : {0}, working : BOOLEAN]
    /\ timer \in IF screen \in {Chart, YearRange} THEN {None, about} ELSE {None}
    /\ reads = [s \in Slots |-> IF s = 1 /\ about # None /\ timer = None /\ screen \notin {AdviceSignal, SetAlert, Apply}
                               THEN Unanswered(about) ELSE Idle]
    /\ loading = (screen.button = "unlessLoading" /\ screen # AdviceSignal) /\ shown = None /\ error = FALSE
    /\ act = Quiet
    /\ strays = 0 /\ rereads = 0 /\ gaveUp = FALSE
    /\ clicks = 0 /\ faults = 0

-----------------------------------------------------------------------------
(* Reading                                                                 *)

\* A read sent: the flag goes on, and on the page of signals the error off.
Sends(q) ==
    /\ Free # {}
    /\ reads' = Asked(q)
    /\ loading' = (screen.button = "unlessLoading")
    /\ error' = (error /\ screen.clears # "ask")

\* Whether the page's interval reads when it comes round.
Due ==
    \/ screen.reread = "always"
    \/ screen.reread = "idle" /\ ~Busy
    \/ screen.reread = "visible" /\ visible

\* Broken variant: an interval that is never cleared.
PollLeft ==
    /\ about # None /\ Due
    /\ Sends(about)
    /\ UNCHANGED <<screen, open, visible, about, server, shown, act, timer, strays, rereads, gaveUp, clicks, faults>>

\* The interval of a page or of the bell.
Poll ==
    /\ open /\ about # None /\ Due
    /\ Sends(about)
    /\ UNCHANGED <<screen, open, visible, about, server, shown, act, timer, strays, rereads, gaveUp, clicks, faults>>

\* A fresh burst: the timer held is cancelled, and the count starts again.
Restarted ==
    /\ timer' = None /\ rereads' = 0 /\ gaveUp' = FALSE
    /\ Sends(about)
    /\ UNCHANGED <<shown, strays>>

\* The button.  Two screens that need the account share a read of it under way.
AskAgain ==
    /\ open /\ about # None /\ clicks < MaxClicks
    /\ \/ screen.button = "always" /\ ~(screen = CurrentAccount /\ \E s \in Slots : reads[s].about = about)
       \/ screen.button = "unlessLoading" /\ ~loading
    /\ IF screen.reread = "burst" THEN Restarted
       ELSE Sends(about) /\ UNCHANGED <<shown, timer, strays, rereads, gaveUp>>
    /\ clicks' = clicks + 1
    /\ UNCHANGED <<screen, open, visible, about, server, act, faults>>

Serve(s) ==
    /\ reads[s] # Idle /\ reads[s].answer = None
    /\ reads' = [reads EXCEPT ![s].answer = server]
    /\ UNCHANGED <<screen, open, visible, about, server, page, clicks, faults>>

\* Broken variant: whatever comes is shown.
AnyAnswer(r) == TRUE

Keeps(r) ==
    \/ screen.keeps = "every"
    \/ screen.keeps = "latest" /\ r.latest
    \/ screen.keeps = "own" /\ r.about = about

\* Broken variant: a burst that stops on nothing new.
OnlyIfNew(answer) ==
    IF answer.working /\ (shown = None \/ shown.version # answer.version)
    THEN timer' = about /\ UNCHANGED <<strays, gaveUp>>
    ELSE UNCHANGED <<timer, strays, gaveUp>>

\* While something is in progress another read is due, unless the burst is over.  The
\* timer set last is the one that can be cancelled: one set before is on its own.
ScheduleReread(answer) ==
    IF ~answer.working THEN UNCHANGED <<timer, strays, gaveUp>>
    ELSE IF rereads >= MaxRereads THEN gaveUp' = TRUE /\ UNCHANGED <<timer, strays>>
    ELSE /\ timer' = about
         /\ strays' = IF timer = None THEN strays ELSE strays + 1
         /\ UNCHANGED gaveUp

\* Broken variant: a page that stays busy.
StillBusy(s) == UNCHANGED act

\* An act is over with the read it waited for, however that ends.
ActOverWith(s) == act' = IF act.phase = "reload" /\ act.slot = s THEN Quiet ELSE act

\* An answer, also after the page was left.
Receive(s) ==
    LET r == reads[s] IN
    /\ r.answer # None
    /\ reads' = [reads EXCEPT ![s] = Idle]
    /\ loading' = FALSE
    /\ shown' = IF Keeps(r) THEN [about |-> r.about, version |-> r.answer.version, working |-> r.answer.working] ELSE shown
    /\ error' = (error /\ ~(screen.clears = "answer" /\ Keeps(r)))
    /\ IF screen.reread = "burst" THEN ScheduleReread(r.answer) ELSE UNCHANGED <<timer, strays, gaveUp>>
    /\ ActOverWith(s)
    /\ UNCHANGED <<screen, open, visible, about, server, rereads, clicks, faults>>

\* The screens that say nothing of a read that failed.
Silent == {CurrentAccount, Inbox, YearRange}

\* A read that fails leaves what is shown up, unless a question has changed: a range that
\* cannot be drawn or a text that finds nothing is not the one before it.  The year's
\* range is left blank.
ReadFails(s) ==
    LET r == reads[s] IN
    /\ r # Idle /\ faults < MaxFaults /\ faults' = faults + 1
    /\ reads' = [reads EXCEPT ![s] = Idle]
    /\ loading' = FALSE
    /\ shown' = IF screen = YearRange \/ (screen.keeps = "latest" /\ r.latest) THEN None ELSE shown
    /\ error' = (error \/ (screen \notin Silent /\ (screen.keeps = "latest" => r.latest)))
    /\ ActOverWith(s)
    /\ UNCHANGED <<screen, open, visible, about, server, timer, strays, rereads, gaveUp, clicks>>

\* The timer fires: of a burst another read, for the search the read of the text typed.
TimerFires ==
    /\ screen \notin {Chart, YearRange} /\ timer # None /\ timer' = None
    /\ IF screen = Search THEN UNCHANGED rereads ELSE rereads' = rereads + 1
    /\ Free # {}
    /\ IF screen = Search /\ timer # about
       THEN reads' = [reads EXCEPT ![Slot] = [Unanswered(timer) EXCEPT !.latest = FALSE]] /\ UNCHANGED <<loading, error>>
       ELSE Sends(timer)
    /\ UNCHANGED <<screen, open, visible, about, server, shown, act, strays, gaveUp, clicks, faults>>

\* One nothing can cancel fires, and takes the hold on the other one away as well.
StrayFires ==
    /\ strays > 0
    /\ strays' = IF timer = None THEN strays - 1 ELSE strays
    /\ timer' = None
    /\ rereads' = rereads + 1
    /\ Sends(about)
    /\ UNCHANGED <<screen, open, visible, about, server, shown, act, gaveUp, clicks, faults>>

-----------------------------------------------------------------------------
(* Another question                                                        *)

\* A range of the chart, or another instrument: read at once, unless the catalog does not
\* know the instrument yet; what is shown stays.  A signal stays too, and is read only when
\* the customer asks.
ChooseRange(q) ==
    /\ q # None /\ UNCHANGED shown
    /\ \/ screen = AdviceSignal /\ UNCHANGED <<reads, loading, error, timer>>
       \/ screen # AdviceSignal /\ timer' = None /\ Sends(q)
       \/ screen # AdviceSignal /\ timer' = q /\ UNCHANGED <<reads, loading, error>>

\* The catalog knows the instrument, and it is no fund.
CatalogKnows ==
    /\ screen \in {Chart, YearRange} /\ open /\ timer # None
    /\ timer' = None /\ Sends(timer)
    /\ UNCHANGED <<screen, open, visible, about, server, shown, act, strays, rereads, gaveUp, clicks, faults>>

\* A text typed: the read is due in a moment, the one due before is not.
Type(q) ==
    /\ reads' = Superseded
    /\ timer' = q
    /\ shown' = IF q = None THEN None ELSE shown
    /\ UNCHANGED <<loading, error>>

\* The runs of a strategy, or of none.
ShowRuns(q) ==
    /\ shown' = None
    /\ IF q = None THEN UNCHANGED <<reads, loading, error>> ELSE Sends(q)
    /\ UNCHANGED timer

\* The customer signed out, or in: the stores follow the account.
Follow(q) ==
    /\ shown' = IF screen = Inbox /\ q # None THEN shown ELSE None
    /\ IF q = None \/ (screen = CurrentAccount /\ \E s \in Slots : reads[s].latest /\ reads[s].about = q)
       THEN UNCHANGED <<reads, loading, error>> ELSE Sends(q)
    /\ UNCHANGED timer

Choose(q) ==
    /\ open /\ q # about /\ clicks < MaxClicks
    /\ about' = q /\ clicks' = clicks + 1
    /\ \/ screen \in {Chart, YearRange, AdviceSignal} /\ ChooseRange(q)
       \/ screen = Search /\ Type(q)
       \/ screen = StrategyRuns /\ ShowRuns(q)
       \/ screen \in Stores /\ Follow(q)
    /\ UNCHANGED <<screen, open, visible, server, act, strays, rereads, gaveUp, faults>>

\* An instrument picked from what was found: the text goes, a read due does not.  Or the
\* list is only closed.
PickFound ==
    /\ screen = Search /\ open /\ shown # None
    /\ shown' = None
    /\ \/ about' = None /\ reads' = Superseded
       \/ UNCHANGED <<about, reads>>
    /\ UNCHANGED <<screen, open, visible, server, loading, error, act, timer, strays, rereads, gaveUp, clicks, faults>>

-----------------------------------------------------------------------------
(* Acting                                                                  *)

\* What the customer can act on: a form, which the application's receipt replaces, or a
\* thing shown.
Actionable ==
    \/ screen \in {CashPage, Settings, NewStrategy, SetAlert}
    \/ screen = Apply /\ shown = None
    \/ screen \notin {Apply, SetAlert} /\ shown # None

\* The version of a watchlist shown as changed before the server has answered, and of one
\* just made.
Expected == -1
Made == -2

\* A button pressed, or the form sent.  An entry added or removed shows at once, and what
\* was said of the last alert goes.
Act ==
    /\ screen.acts # {} /\ open /\ about # None /\ ~Busy /\ clicks < MaxClicks
    /\ Actionable
    /\ act' = [Quiet EXCEPT !.phase = "sent"]
    /\ shown' = IF screen = SetAlert THEN None
                ELSE IF screen.after = "expected"
                     THEN [shown EXCEPT !.version = IF @ = Made THEN Made ELSE Expected]
                ELSE shown
    /\ error' = (error /\ screen.clears # "act")
    /\ clicks' = clicks + 1
    /\ UNCHANGED <<screen, open, visible, about, server, reads, loading, timer, strays, rereads, gaveUp, faults>>

\* Another watchlist: it is made for the account of now.
Create ==
    /\ screen = WatchList /\ open /\ about # None /\ ~Busy /\ clicks < MaxClicks
    /\ act' = [Quiet EXCEPT !.phase = "sent", !.maker = about]
    /\ clicks' = clicks + 1
    /\ UNCHANGED <<screen, open, visible, about, server, reads, loading, shown, error, timer, strays, rereads, gaveUp, faults>>

\* Done or refused; an answer that is lost says nothing of which.
ServeAct ==
    /\ act.phase = "sent"
    /\ \/ /\ server.version < MaxVersion
          /\ server' \in [version : {server.version + 1}, working : BOOLEAN]
          /\ \/ act' = [act EXCEPT !.phase = "done", !.version = server'.version] /\ UNCHANGED faults
             \/ faults < MaxFaults /\ faults' = faults + 1 /\ act' = [act EXCEPT !.phase = "refused"]
       \/ act' = [act EXCEPT !.phase = "refused"] /\ UNCHANGED <<server, faults>>
    /\ UNCHANGED <<screen, open, visible, about, reads, loading, shown, error, timer, strays, rereads, gaveUp, clicks>>

Reloading == act' = [Quiet EXCEPT !.phase = "reload", !.slot = Slot]

\* Done: the page reads again, busy until it has, or shows what came back.  A watchlist made
\* is shown to whoever is signed in by now.
Done ==
    /\ act.phase = "done"
    /\ \/ screen.after = "reload" /\ Sends(about) /\ Reloading /\ UNCHANGED <<shown, timer, strays, rereads, gaveUp>>
       \/ screen.after = "restart" /\ Restarted /\ Reloading
       \/ /\ screen.after = "answer"
          /\ shown' = [about |-> about, version |-> act.version, working |-> FALSE]
          /\ act' = Quiet /\ UNCHANGED <<reads, loading, error, timer, strays, rereads, gaveUp>>
       \/ /\ screen.after \in {"expected", "mark"}
          /\ error' = (error /\ screen.after = "mark")
          /\ shown' = IF act.maker = None THEN shown
                      ELSE [about |-> act.maker, version |-> Made, working |-> FALSE]
          /\ act' = Quiet /\ UNCHANGED <<reads, loading, timer, strays, rereads, gaveUp>>

\* Refused: said, and an entry that could not be removed is read back.
Refused ==
    /\ act.phase = "refused" /\ screen.after # "refresh"
    /\ error' = TRUE /\ act' = Quiet
    /\ \/ UNCHANGED <<reads, loading>>
       \/ /\ screen.after = "expected" /\ act.maker = None /\ about # None /\ Free # {}
          /\ reads' = Asked(about) /\ UNCHANGED loading
    /\ UNCHANGED <<shown, timer, strays, rereads, gaveUp>>

\* A cancel answered either way: not busy, and read again with a fresh burst.
CancelAnswered ==
    /\ act.phase \in {"done", "refused"} /\ screen.after = "refresh"
    /\ Restarted /\ act' = Quiet

\* Also when the page has been left meanwhile.
ActAnswered ==
    /\ Done \/ Refused \/ CancelAnswered
    /\ UNCHANGED <<screen, open, visible, about, server, clicks, faults>>

-----------------------------------------------------------------------------
(* What happens around the page                                            *)

\* Orders fill, transfers are decided, alerts fire.
ServerMoves ==
    /\ server.version < MaxVersion
    /\ server' \in [version : {server.version + 1}, working : BOOLEAN]
    /\ UNCHANGED <<screen, open, visible, about, reads, page, clicks, faults>>

\* The page is left: its interval stops and so does the timer it still holds, not what is
\* under way.
Leave ==
    /\ open /\ screen \notin Stores
    /\ open' = FALSE
    /\ timer' = IF screen.reread = "burst" \/ screen \in {Chart, YearRange} THEN None ELSE timer
    /\ UNCHANGED <<screen, visible, about, server, reads, loading, shown, error, act, strays, rereads, gaveUp, clicks, faults>>

\* Back on the tab the prices are read at once.
Look ==
    /\ screen.reread = "visible" /\ visible' = ~visible
    /\ IF screen = LivePrices /\ open /\ visible' /\ Free # {}
       THEN Sends(about) ELSE UNCHANGED <<reads, loading, error>>
    /\ UNCHANGED <<screen, open, about, server, shown, act, timer, strays, rereads, gaveUp, clicks, faults>>

Next ==
    \/ Poll \/ AskAgain \/ TimerFires \/ StrayFires
    \/ \E s \in Slots : Serve(s) \/ Receive(s) \/ ReadFails(s)
    \/ \E q \in Questions \cup {None} : Choose(q)
    \/ CatalogKnows \/ PickFound \/ Act \/ Create \/ ServeAct \/ ActAnswered
    \/ ServerMoves \/ Leave \/ Look

Spec == Init /\ [][Next]_vars

\* An interval that runs, a timer that is set and a request that is sent come to their
\* end: the browser ends a request without an answer as one that failed.
FairSpec ==
    /\ Spec
    /\ WF_vars(Poll) /\ WF_vars(TimerFires) /\ WF_vars(StrayFires)
    /\ \A s \in Slots : WF_vars(Serve(s) \/ Receive(s))
    /\ WF_vars(ServeAct) /\ WF_vars(ActAnswered)

-----------------------------------------------------------------------------
Answers == [version : 0..MaxVersion, working : BOOLEAN]
Asks == Questions \cup {None}

\* Types; an idle slot holds nothing; a burst counts no further than its cap and one more
\* for each time the customer made reads overlap; a busy page waits for a read that is
\* under way.
TypeOK ==
    /\ screen \in Screens /\ open \in BOOLEAN /\ visible \in BOOLEAN /\ about \in Asks
    /\ server \in Answers
    /\ reads \in [Slots -> [about : Asks, latest : BOOLEAN, answer : Answers \cup {None}]]
    /\ \A s \in Slots : reads[s].about = None => reads[s] = Idle
    /\ loading \in BOOLEAN /\ error \in BOOLEAN /\ gaveUp \in BOOLEAN
    /\ shown \in [about : Questions, version : Made..MaxVersion, working : BOOLEAN] \cup {None}
    /\ timer \in Asks /\ strays \in 0..MaxClicks /\ rereads \in 0..(MaxRereads + MaxClicks)
    /\ act.phase \in {"none", "sent", "done", "refused", "reload"}
    /\ act.maker \in Asks
    /\ act.phase = "reload" => reads[act.slot] # Idle
    /\ clicks \in 0..MaxClicks /\ faults \in 0..MaxFaults

\* The account shown is never another customer's, at any moment, and nor are the watchlists,
\* with one exception, which the code has: a watchlist just made is shown, until the next
\* read, to whoever is signed in when it is answered (market-watch-list.ts:121-123).  The
\* chart and the list of what was found are the latest range's and the latest text's once
\* its answer has come, however many older ones come after it.  The runs of a strategy, the
\* year's range and the signal of an instrument may be those asked for before.
ShownIsAsked ==
    /\ screen \in {CurrentAccount, WatchList} /\ shown # None => shown.version = Made \/ shown.about = about
    /\ screen \in {Chart, Search} /\ open /\ shown # None /\ timer = None /\ (\A s \in Slots : ~reads[s].latest)
          => shown.about = about

Polled == {"always", "idle", "visible"}
InProgress == open /\ shown # None /\ shown.working
Current == shown # None /\ shown.about = about /\ shown.version = server.version

\* A page that reads on an interval catches up with the server, whatever was lost or came
\* out of order and whatever the customer did, unless it was left or is never seen; and
\* what a burst shows in progress does not stay so without the page saying that it has
\* given up or that a read failed.
CatchesUp ==
    /\ screen.reread \in Polled => <>[](~open \/ about = None \/ Current) \/ []<>~visible
    /\ screen.reread = "burst" =>
          [](InProgress => <>(~InProgress \/ gaveUp \/ error))

\* A page that was left stops asking: its timers, also those it has lost hold of, run out.
FallsSilent == <>[](open \/ (timer = None /\ strays = 0 /\ Free = Slots /\ ~Busy))
=============================================================================
