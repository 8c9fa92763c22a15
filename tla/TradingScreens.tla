--------------------------- MODULE TradingScreens ----------------------------
(***************************************************************************)
(* The page of Quant Option in the browser (src/public/quant-option.js).   *)
(* With real prices several positions are open, one of them is focused and *)
(* shown in the card; with simulated prices there is one.  The page sends  *)
(* one order at a time, and polls without waiting for the last answer.  An *)
(* answer carries what the server knew when it was asked.                  *)
(***************************************************************************)
EXTENDS Integers, FiniteSets

CONSTANTS
  LastPosition,    \* positions of the instance
  MaxTradeCalls    \* calls in flight, when the page makes another

VARIABLES
  positions,  \* status of each position at the server: 0 none, 1 open, 2 settled
  trade,      \* the page: shown, real, list (openPositions), focus, pos, posOpen (QO.pos and its
              \* status), card (the position the page shows with an Exit), busy, poll, posPoll
  tradeCalls,
  cheered,    \* tpHit: positions celebrated
  cheers,       \* how often each position was celebrated
  tradeResults  \* positions whose result was shown

tradeVars == <<positions, trade, tradeCalls, cheered, cheers, tradeResults>>

Positions == 1..LastPosition
OpenPositions == {k \in Positions : positions[k] = 1}
Newest1(s) == IF s = {} THEN 0 ELSE CHOOSE k \in s : \A j \in s : j <= k

TradeInit ==
  /\ positions = [k \in Positions |-> 0]
  /\ trade \in [shown : {FALSE}, real : BOOLEAN, list : {{}}, focus : {0}, pos : {0}, posOpen : {FALSE},
                card : {0}, busy : {FALSE}, poll : {0}, posPoll : {FALSE}]
  /\ tradeCalls = {}
  /\ cheered = {}
  /\ cheers = [k \in Positions |-> 0]
  /\ tradeResults = {}

\* A call: id is its position, prev the positions the page knew, list those the server has
\* open, over the ones whose price is beyond their level.
CallingWith(kind, id, prev, over) == [kind |-> kind, id |-> id, prev |-> prev, list |-> OpenPositions, over |-> over]
Calling(kind, id, prev) == CallingWith(kind, id, prev, {})
Back(c, more) == tradeCalls' = (tradeCalls \ {c}) \union more
Sends(calls) == Cardinality(tradeCalls) < MaxTradeCalls /\ tradeCalls' = tradeCalls \union calls

Page(p) == trade' = p /\ UNCHANGED <<positions, cheered, cheers, tradeResults>>

\* syncFocus: the focused position, or the first of the list.
Synchronized(p) ==
  LET focus == IF p.focus \in p.list THEN p.focus ELSE Newest1(p.list) IN
  [p EXCEPT !.focus = focus, !.pos = focus, !.posOpen = focus # 0]

\* loadMe: with simulated prices the last position stays when none is open.
Loaded(p, list) ==
  IF p.real THEN Synchronized([p EXCEPT !.list = list])
  ELSE IF list = {} THEN p
  ELSE [p EXCEPT !.pos = Newest1(list), !.posOpen = TRUE]

\* rerender: nothing without the stage.
Rerendered(p) == IF p.shown THEN [p EXCEPT !.card = IF p.posOpen THEN p.pos ELSE 0] ELSE p

\* startRealEngine, startPoll.
Engine(p) == IF p.real THEN [p EXCEPT !.posPoll = p.list # {}] ELSE p
Polling(p) == IF p.posOpen THEN [p EXCEPT !.poll = p.pos] ELSE [p EXCEPT !.poll = 0]

Shown(p, k) == trade' = p /\ tradeResults' = tradeResults \union {k}
                /\ UNCHANGED <<positions, cheered, cheers>>

------------------------------------------------------------------------------
OpenQO ==
  /\ ~trade.shown
  /\ Page([trade EXCEPT !.shown = TRUE])
  /\ Sends({Calling("boot", 0, {})})

TradeBooted(c) ==
  /\ c.kind = "boot"
  /\ LET page == Rerendered(Loaded(trade, c.list)) IN
     IF trade.real THEN Page(page) /\ Back(c, {Calling("chart", 0, {})})
     ELSE Page(Polling(page)) /\ Back(c, {})

\* The engine starts when the chart has arrived.
ChartArrived(c) == c.kind = "chart" /\ Page(Engine(Rerendered(trade))) /\ Back(c, {})

CloseQO ==
  /\ trade.shown
  /\ Page([trade EXCEPT !.shown = FALSE, !.card = 0, !.poll = 0, !.posPoll = FALSE])
  /\ UNCHANGED tradeCalls

\* A tap on another open position.
SelectOpenChip ==
  /\ trade.shown /\ trade.real
  /\ \E k \in trade.list \ {trade.focus} : Page(Rerendered(Synchronized([trade EXCEPT !.focus = k])))
  /\ UNCHANGED tradeCalls

MayOrderAlways == TRUE
MayOrder == ~trade.busy

\* The order is shown beside the positions with real prices, else when none is open.  The
\* server may refuse it.
OpenPosition1 ==
  /\ trade.shown /\ MayOrder
  /\ ~trade.real => ~trade.posOpen
  /\ trade' = [trade EXCEPT !.busy = TRUE]
  /\ \/ /\ \E k \in Positions : positions[k] = 0
        /\ trade.real \/ OpenPositions = {}
        /\ LET k == CHOOSE k \in Positions : positions[k] = 0 /\ \A j \in 1..(k - 1) : positions[j] # 0 IN
           positions' = [positions EXCEPT ![k] = 1] /\ Sends({Calling("open", k, {})})
     \/ UNCHANGED positions /\ Sends({Calling("open", 0, {})})
  /\ UNCHANGED <<cheered, cheers, tradeResults>>

Opened(c) ==
  /\ c.kind = "open"
  /\ LET page == [trade EXCEPT !.busy = FALSE] IN
     \/ Page(Rerendered(page)) /\ Back(c, {})
     \/ /\ c.id # 0
        /\ Page(IF trade.real THEN [page EXCEPT !.focus = c.id] ELSE [page EXCEPT !.pos = c.id, !.posOpen = TRUE])
        /\ Back(c, {Calling("opened", c.id, {})})

\* loadMe after the order.
ShownOpen(c) ==
  /\ c.kind = "opened"
  /\ Back(c, {})
  /\ LET page == Loaded(trade, c.list) IN
     Page(IF trade.real THEN Engine(Rerendered(Synchronized([page EXCEPT !.focus = c.id])))
          ELSE Polling(Rerendered([page EXCEPT !.pos = c.id, !.posOpen = TRUE])))

\* Exit now: of the position that QO.pos is by then.
CashOutPosition ==
  /\ trade.shown /\ trade.card # 0 /\ trade.posOpen /\ MayOrder
  /\ trade' = [trade EXCEPT !.busy = TRUE]
  /\ Sends({Calling("cashout", trade.pos, {})})
  /\ positions' = IF positions[trade.pos] = 1 THEN [positions EXCEPT ![trade.pos] = 2] ELSE positions
  /\ UNCHANGED <<cheered, cheers, tradeResults>>

CashOutAnswered(c) ==
  /\ c.kind = "cashout"
  /\ LET page == [trade EXCEPT !.busy = FALSE] IN
     \/ Page(Rerendered(page)) /\ Back(c, {})
     \/ c.id \in c.list /\ Page(page) /\ Back(c, {Calling("cashed", c.id, {})})

ShownCashed(c) ==
  /\ c.kind = "cashed"
  /\ Back(c, {})
  /\ LET page == Loaded(trade, c.list) IN
     Shown(IF trade.real THEN Engine(Rerendered(Synchronized([page EXCEPT !.focus = 0])))
           ELSE Rerendered([page EXCEPT !.pos = 0, !.posOpen = FALSE, !.poll = 0]), c.id)

------------------------------------------------------------------------------
(* Simulated prices: one position is polled *)

TradeTick ==
  /\ trade.poll # 0
  /\ Sends({Calling("position", trade.poll, {})})
  /\ Page(trade)

TradePolled(c) ==
  /\ c.kind = "position"
  /\ LET page == [trade EXCEPT !.pos = c.id, !.posOpen = c.id \in c.list] IN
     IF c.id \in c.list THEN Page(page) /\ Back(c, {})
     ELSE Shown([page EXCEPT !.poll = 0], c.id) /\ Back(c, {Calling("resolved", c.id, {})})

Resolved(c) ==
  /\ c.kind = "resolved"
  /\ Back(c, {})
  /\ Page(Rerendered([Loaded(trade, c.list) EXCEPT !.pos = 0, !.posOpen = FALSE]))

------------------------------------------------------------------------------
(* Real prices: the open positions are polled *)

PositionsTick ==
  /\ trade.posPoll
  /\ IF trade.list = {} THEN Page([trade EXCEPT !.posPoll = FALSE]) /\ UNCHANGED tradeCalls
     ELSE /\ Page(trade)
          /\ \E over \in SUBSET OpenPositions : Sends({CallingWith("positions", 0, trade.list, over)})

\* checkTpCross
CheersAgain(c) == c.over
Cheers(c) == c.over \ cheered

\* Positions that are gone are asked for; the focus may move, and the card is not drawn
\* anew.
PositionsAnswered(c) ==
  /\ c.kind = "positions"
  /\ Back(c, {Calling("settled", k, {}) : k \in c.prev \ c.list})
  /\ trade' = Synchronized([trade EXCEPT !.list = c.list, !.posPoll = @ /\ c.list # {}])
  /\ cheered' = cheered \union Cheers(c)
  /\ cheers' = [k \in Positions |-> IF k \in Cheers(c) THEN cheers[k] + 1 ELSE cheers[k]]
  /\ UNCHANGED <<positions, tradeResults>>

SettledAnswered(c) ==
  /\ c.kind = "settled"
  /\ IF c.id \in c.list THEN Page(trade) /\ Back(c, {})
     ELSE Shown(trade, c.id) /\ Back(c, {Calling("reload", 0, {})})

TradeReloaded(c) ==
  /\ c.kind = "reload"
  /\ Back(c, {})
  /\ Page(Rerendered(Loaded(trade, c.list)))

------------------------------------------------------------------------------
\* A poll or a reload that fails.
TradeFailed(c) ==
  /\ c.kind \in {"position", "positions", "settled", "reload", "resolved"}
  /\ Page(trade) /\ Back(c, {})

\* The server settles.
SettlePosition(k) ==
  /\ positions[k] = 1
  /\ positions' = [positions EXCEPT ![k] = 2]
  /\ UNCHANGED <<trade, tradeCalls, cheered, cheers, tradeResults>>

TradeAnswer ==
  \E c \in tradeCalls :
    \/ TradeBooted(c) \/ ChartArrived(c) \/ Opened(c) \/ ShownOpen(c) \/ CashOutAnswered(c) \/ ShownCashed(c)
    \/ TradePolled(c) \/ Resolved(c) \/ PositionsAnswered(c) \/ SettledAnswered(c) \/ TradeReloaded(c) \/ TradeFailed(c)

TradeNext ==
  \/ OpenQO \/ CloseQO \/ SelectOpenChip \/ OpenPosition1 \/ CashOutPosition \/ TradeTick \/ PositionsTick \/ TradeAnswer
  \/ \E k \in Positions : SettlePosition(k)

------------------------------------------------------------------------------
\* One order at a time, whatever the page is polling and wherever its timers are.
Orders == {c \in tradeCalls : c.kind \in {"open", "cashout"}}
OneOrder == Cardinality(Orders) <= 1

\* A level is celebrated once, however the answers of overlapping polls arrive.
CheeredOnce == \A k \in Positions : cheers[k] <= 1

\* Does not hold: Exit is for the position of the card.  A poll moves the focus, and the
\* card stays until the next reload.
ExitsWhatIsShown == trade.card # 0 /\ trade.posOpen => trade.card = trade.pos

\* Does not hold: the result of a position is shown once.
ResultShownOnce ==
  \A c \in tradeCalls : c.kind \in {"position", "cashed", "settled"} /\ c.id \notin c.list => c.id \notin tradeResults

\* Does not hold: nothing is polled for a page that is closed.
ClosedIsQuiet == ~trade.shown => trade.poll = 0 /\ ~trade.posPoll

------------------------------------------------------------------------------
(***************************************************************************)
(* The page of signal trading in the browser (src/public/qo-signals.js).   *)
(* It shows the list of signals and of open positions, the sheet that      *)
(* confirms an order, one position, or the history.  A position is opened  *)
(* on the signal of its number.  An answer carries what the server knew    *)
(* when it was asked.                                                      *)
(***************************************************************************)
CONSTANTS
  LastOpen,        \* signals, and the positions opened on them
  FxSignals,       \* signals whose candles the server fetches; the others the browser subscribes to
  MaxSignalCalls   \* calls in flight, when the page makes another

VARIABLES
  opened,       \* status of each position at the server: 0 none, 1 open, 2 settled
  screen,       \* the page SG: shown, on (SG.screen), sel, pos (0 is null), posOpen, list (openList),
                \* drawn (the position the stage shows), busy, poll, listPoll
  chart,        \* own (the position the chart was made for, 0 none), feed (the one whose candles it gets)
  resultsUp,    \* positions whose result covers the page
  signalCalls

signalsVars == <<opened, screen, chart, resultsUp, signalCalls>>

Slots == 1..LastOpen
OpenSlots == {k \in Slots : opened[k] = 1}
NoChart == [own |-> 0, feed |-> 0]

SignalsInit ==
  /\ opened = [k \in Slots |-> 0]
  /\ screen = [shown |-> FALSE, on |-> "list", sel |-> 0, pos |-> 0, posOpen |-> FALSE, list |-> {},
               drawn |-> 0, busy |-> FALSE, poll |-> 0, listPoll |-> FALSE]
  /\ chart = NoChart
  /\ resultsUp = {}
  /\ signalCalls = {}

\* id is the position of the call, prev the positions the page knew, list those open at the
\* server, for the calls that ask.
Lists == {"boot", "list", "openlist", "cashed", "poll"}
Request(kind, id, prev) ==
  [kind |-> kind, id |-> id, prev |-> prev,
   list |-> IF kind \in Lists THEN OpenSlots ELSE IF kind = "position" THEN OpenSlots \cap {id} ELSE {}]
Sending(calls) == Cardinality(signalCalls) < MaxSignalCalls /\ signalCalls' = signalCalls \union calls
Answering(c, more) == signalCalls' = (signalCalls \ {c}) \union more

\* A tap reaches the page unless a result covers it.
Tap == screen.shown /\ resultsUp = {} /\ UNCHANGED <<opened, resultsUp>>

\* rerender: tears the chart down and draws the screen, a position with a chart of its own
\* (setupChart, its library loaded), whose candles are asked for.
DrawnPosition(p) == IF p.on = "position" THEN p.pos ELSE 0
Drawn(p) ==
  /\ screen' = IF p.shown THEN [p EXCEPT !.drawn = DrawnPosition(p)] ELSE p
  /\ chart' = IF p.shown THEN [NoChart EXCEPT !.own = DrawnPosition(p)] ELSE chart
ChartOf(p) == IF p.shown /\ DrawnPosition(p) # 0 THEN {Request("candles", p.pos, {})} ELSE {}

Quietly(p) == screen' = p /\ UNCHANGED chart
Nothing == UNCHANGED <<opened, resultsUp>>

\* startPoll: an open position is polled, the last poll ends.
Polls1(p) == [p EXCEPT !.poll = IF p.posOpen THEN p.pos ELSE 0]
OnPosition(p, k) == [p EXCEPT !.on = "position", !.pos = k, !.posOpen = TRUE]
OnList(p) == [p EXCEPT !.on = "list", !.sel = 0, !.pos = 0, !.posOpen = FALSE, !.poll = 0]

------------------------------------------------------------------------------
(* Opening, closing and moving between the screens *)

OpenSignals ==
  /\ ~screen.shown
  /\ Quietly([screen EXCEPT !.shown = TRUE, !.on = "list", !.sel = 0, !.pos = 0, !.posOpen = FALSE, !.drawn = 0])
  /\ Sending({Request("boot", 0, {})})
  /\ Nothing

\* The button below a message of a chat opens the sheet of the signal.
OpenForSignal ==
  /\ ~screen.shown
  /\ \E k \in Slots : Sending({Request("match", k, {})})
  /\ Quietly([screen EXCEPT !.shown = TRUE, !.on = "list", !.sel = 0, !.pos = 0, !.posOpen = FALSE, !.drawn = 0])
  /\ Nothing

\* The list poll starts wherever the member has gone meanwhile.
SignalsBooted(c) ==
  /\ c.kind = "boot"
  /\ LET page == [screen EXCEPT !.list = c.list, !.listPoll = TRUE] IN
     IF screen.on = "list" THEN Drawn(page) ELSE Quietly(page)
  /\ Answering(c, {}) /\ Nothing

\* openForSignal, openForSignalByMatch: the signal may have ended.
Matched(c) ==
  /\ c.kind = "match"
  /\ Answering(c, {}) /\ Nothing
  /\ \/ Drawn([screen EXCEPT !.sel = c.id, !.on = "confirm"])
     \/ Drawn([screen EXCEPT !.on = "list"])

CloseSignals ==
  /\ screen.shown
  /\ screen' = [screen EXCEPT !.shown = FALSE, !.drawn = 0, !.poll = 0, !.listPoll = FALSE]
  /\ chart' = NoChart
  /\ UNCHANGED <<opened, resultsUp, signalCalls>>

\* A card of a signal that has an open position leads to the position.
TapCard ==
  /\ Tap /\ screen.on = "list" /\ screen.drawn = 0
  /\ \E k \in Slots :
       IF k \in screen.list
       THEN LET page == [OnPosition(screen, k) EXCEPT !.listPoll = FALSE] IN Drawn(Polls1(page)) /\ Sending(ChartOf(page))
       ELSE Drawn([screen EXCEPT !.sel = k, !.on = "confirm"]) /\ UNCHANGED signalCalls

BackFromConfirm ==
  /\ Tap /\ screen.on = "confirm"
  /\ Drawn([screen EXCEPT !.sel = 0, !.on = "list"])
  /\ UNCHANGED signalCalls

\* goList: by the back button of a position, by the tab, or by the button of a result.  The
\* page is drawn when the open positions have arrived.
GoList ==
  /\ screen.shown
  /\ IF resultsUp = {} THEN screen.on \in {"position", "history"} /\ UNCHANGED resultsUp
     ELSE \E k \in resultsUp : resultsUp' = resultsUp \ {k}
  /\ Sending({Request("list", 0, {})})
  /\ screen' = OnList(screen)
  /\ chart' = NoChart
  /\ UNCHANGED opened

ListArrived(c) ==
  /\ c.kind = "list"
  /\ Answering(c, {}) /\ Nothing
  /\ LET page == [screen EXCEPT !.list = c.list] IN
     IF screen.on = "list" THEN Drawn([page EXCEPT !.listPoll = TRUE]) ELSE Quietly(page)

\* goHistory: its items, when they arrive, draw the same screen again.
GoHistory ==
  /\ Tap /\ screen.on = "list" /\ screen.drawn = 0
  /\ Drawn([OnList(screen) EXCEPT !.on = "history", !.listPoll = FALSE])
  /\ UNCHANGED signalCalls

\* onKey: the result goes and the screen stays.
EscapeResult ==
  /\ screen.shown
  /\ \E k \in resultsUp : resultsUp' = resultsUp \ {k}
  /\ UNCHANGED <<opened, screen, chart, signalCalls>>

------------------------------------------------------------------------------
(* Orders *)

FreeAlways == TRUE
FreeToOrder == ~screen.busy

\* doOpen: the server may refuse, above all a second position on the signal.
DoOpen ==
  /\ screen.shown /\ resultsUp = {}
  /\ screen.on = "confirm" /\ FreeToOrder
  /\ Quietly([screen EXCEPT !.busy = TRUE])
  /\ LET k == screen.sel IN
     \/ opened[k] = 0 /\ opened' = [opened EXCEPT ![k] = 1] /\ Sending({Request("open", k, {k})})
     \/ UNCHANGED opened /\ Sending({Request("open", k, {})})
  /\ UNCHANGED resultsUp

\* The position is shown wherever the member has gone.
OpenAnswered(c) ==
  /\ c.kind = "open"
  /\ Nothing
  /\ LET page == [screen EXCEPT !.busy = FALSE] IN
     IF c.prev = {} THEN Drawn(page) /\ Answering(c, ChartOf(page))
     ELSE /\ Drawn(Polls1(OnPosition(page, c.id)))
          /\ Answering(c, ChartOf(OnPosition(page, c.id)) \union {Request("openlist", 0, {})})

\* loadOpenList
OpenListArrived(c) ==
  /\ c.kind = "openlist"
  /\ Answering(c, {}) /\ Nothing
  /\ Quietly([screen EXCEPT !.list = c.list])

\* doCashout: of the position SG.pos, or of a row of the list.
DoCashout ==
  /\ screen.shown /\ resultsUp = {} /\ FreeToOrder
  /\ \E k \in (IF screen.on = "list" THEN screen.list ELSE IF screen.on = "position" /\ screen.posOpen THEN {screen.pos} ELSE {}) :
       \/ opened[k] = 1 /\ opened' = [opened EXCEPT ![k] = 2] /\ Sending({Request("cashout", k, {k})})
       \/ UNCHANGED opened /\ Sending({Request("cashout", k, {})})
  /\ Quietly([screen EXCEPT !.busy = TRUE])
  /\ UNCHANGED resultsUp

\* The page lets go of whatever position it shows; it is drawn when the open positions
\* have arrived.
Unposed(p) == [p EXCEPT !.busy = FALSE, !.pos = 0, !.posOpen = FALSE, !.poll = 0]
DrawnAtOnce(c) ==
  /\ c.kind = "cashout"
  /\ UNCHANGED opened
  /\ IF c.prev = {} THEN Quietly([screen EXCEPT !.busy = FALSE]) /\ Answering(c, {}) /\ UNCHANGED resultsUp
     ELSE Drawn(Unposed(screen)) /\ Answering(c, {Request("cashed", c.id, {})}) /\ resultsUp' = resultsUp \union {c.id}
SignalCashed(c) ==
  /\ c.kind = "cashout"
  /\ UNCHANGED opened
  /\ IF c.prev = {} THEN Quietly([screen EXCEPT !.busy = FALSE]) /\ Answering(c, {}) /\ UNCHANGED resultsUp
     ELSE /\ screen' = Unposed(screen) /\ chart' = NoChart
          /\ Answering(c, {Request("cashed", c.id, {})})
          /\ resultsUp' = resultsUp \union {c.id}

\* The list is shown wherever the member has gone.
CashedList(c) ==
  /\ c.kind = "cashed"
  /\ Answering(c, {}) /\ Nothing
  /\ Drawn([screen EXCEPT !.list = c.list, !.on = "list", !.listPoll = TRUE])

------------------------------------------------------------------------------
(* Polls *)

\* startPoll's tick
PositionTick ==
  /\ screen.poll # 0
  /\ Sending({Request("position", screen.poll, {})})
  /\ UNCHANGED <<opened, screen, chart, resultsUp>>

\* The answer becomes SG.pos; one that is settled ends the poll of whatever is polled now.
PositionPolled(c) ==
  /\ c.kind = "position"
  /\ Answering(c, {}) /\ UNCHANGED opened
  /\ LET page == [screen EXCEPT !.pos = c.id, !.posOpen = c.id \in c.list] IN
     IF c.id \in c.list THEN Quietly(page) /\ UNCHANGED resultsUp
     ELSE /\ screen' = [page EXCEPT !.poll = 0] /\ chart' = NoChart
          /\ resultsUp' = resultsUp \union {c.id}

\* startListPoll's timer: ends itself on another screen.
ListTick ==
  /\ screen.listPoll
  /\ IF screen.on # "list" THEN Quietly([screen EXCEPT !.listPoll = FALSE]) /\ UNCHANGED signalCalls
     ELSE Quietly(screen) /\ Sending({Request("poll", 0, screen.list)})
  /\ Nothing

ListPolled(c) ==
  /\ c.kind = "poll"
  /\ Answering(c, {}) /\ Nothing
  /\ LET page == [screen EXCEPT !.list = c.list] IN
     IF screen.on # "list" THEN Quietly(screen)
     ELSE IF c.prev \subseteq c.list /\ Cardinality(c.list) = Cardinality(screen.list) THEN Quietly(page)
     ELSE Drawn(page)

------------------------------------------------------------------------------
(* The chart of a position *)

\* The candles go to whatever chart is up, and a subscription then brings more; those the
\* server fetches only while their position is SG.pos.
CandlesArrived(c) ==
  /\ c.kind = "candles"
  /\ Answering(c, {}) /\ Nothing
  /\ UNCHANGED screen
  /\ chart' = IF chart.own # 0 /\ (c.id \in FxSignals => screen.on = "position" /\ screen.pos = c.id)
              THEN [chart EXCEPT !.feed = c.id]
              ELSE chart

------------------------------------------------------------------------------
\* A read that fails: nothing changes.
SignalReadFailed(c) ==
  /\ c.kind \in {"position", "poll", "candles", "openlist"}
  /\ Answering(c, {}) /\ Nothing /\ UNCHANGED <<screen, chart>>

SettleOpened(k) ==
  /\ opened[k] = 1
  /\ opened' = [opened EXCEPT ![k] = 2]
  /\ UNCHANGED <<screen, chart, resultsUp, signalCalls>>

SignalAnswer ==
  \E c \in signalCalls :
    \/ SignalsBooted(c) \/ Matched(c) \/ ListArrived(c) \/ OpenAnswered(c) \/ OpenListArrived(c)
    \/ SignalCashed(c) \/ CashedList(c) \/ PositionPolled(c) \/ ListPolled(c) \/ CandlesArrived(c)
    \/ SignalReadFailed(c)

SignalsNext ==
  \/ OpenSignals \/ OpenForSignal \/ CloseSignals \/ TapCard \/ BackFromConfirm \/ GoList \/ GoHistory \/ EscapeResult
  \/ DoOpen \/ DoCashout \/ PositionTick \/ ListTick \/ SignalAnswer
  \/ \E k \in Slots : SettleOpened(k)

------------------------------------------------------------------------------
\* One order at a time, of whatever screen.
SignalOrders == {c \in signalCalls : c.kind \in {"open", "cashout"}}
OneSignalOrder == Cardinality(SignalOrders) <= 1

\* A screen is not drawn without what it shows: the position without one is a list whose
\* cards do nothing, since wire() binds those of the screen that SG names.
StageWired == screen.shown /\ screen.on = "position" => screen.drawn # 0

\* Does not hold: the Exit of a position closes the one that is shown.  A late answer of a
\* poll replaces SG.pos.
ExitsItsPosition == screen.drawn # 0 /\ screen.on = "position" /\ screen.posOpen => screen.drawn = screen.pos

\* Does not hold: the candles of a chart are those of its position.
ChartIsOwn == chart.own # 0 /\ chart.feed # 0 => chart.feed = chart.own

\* Does not hold: the screen changes only when the member asks.
ScreenIsChosen ==
  \A c \in signalCalls \ signalCalls' : c.kind \in {"cashed", "open"} => screen'.on = screen.on
==============================================================================
