----------------------------- MODULE PriceFeeds -----------------------------
(***************************************************************************)
(* Quant Option with real prices (QUANTOPTION_REAL_PRICES): the feed of    *)
(* services/quantoption-pricefeed.js with its cache, and what              *)
(* services/quantoption.js does with it for one symbol and one position:   *)
(* the entry, the evaluation over candles, the cash-out and the strip of   *)
(* the symbols.  A price is the time at which the market had it; a candle  *)
(* is the set of the position's barriers that its range has reached, and   *)
(* one begins at every unit of time.  The rows and the money are           *)
(* QuantOption's.                                                          *)
(*                                                                         *)
(* The second half is the subscription to live candles in the browser,     *)
(* public/qo-realprice.js.                                                 *)
(***************************************************************************)
EXTENDS Integers, FiniteSets

CONSTANTS
  Calls,       \* that are under way at one time
  LastCandle,  \* bound: units of time
  SPOT_TTL,
  STRIP_TTL,   \* also the age of a spot that the strip accepts
  MaxCandles,  \* what a host answers at most: 1000 in the code
  TimeLimit    \* of a position that has one

ASSUME PricesAssumption == {LastCandle, STRIP_TTL, MaxCandles, TimeLimit} \subseteq Nat /\ SPOT_TTL \in Nat \ {0}

VARIABLES
  now,
  reached,   \* market: the barriers that each candle reached
  spotCache, \* the price and the time of the call that fetched it
  lastReal,  \* since when _lastRealSpot has a price of the symbol
  strip,     \* _stripCache: the tile of the symbol shows a "real" price or the "ambient" one, since at
  deal,      \* the position: status, since when, until when, and the age of the price it was opened or
             \* exited at, when the call for it was made
  asking     \* the calls: what for, since when, and the price they got

pricesVars == <<now, reached, spotCache, lastReal, strip, deal, asking>>

Barriers == {"target", "stop"}
NoPrice == -1
Endless == LastCandle + 1
NoDeal == [status |-> "none", opened |-> 0, expires |-> Endless, age |-> 0]
NoCall1 == [what |-> "none", since |-> 0, got |-> NoPrice]

PricesInit ==
  /\ now = 0
  /\ reached = [t \in 0..LastCandle |-> {}]
  /\ spotCache = [price |-> NoPrice, at |-> 0]
  /\ lastReal = Endless
  /\ strip = [shows |-> "none", at |-> 0]
  /\ deal = NoDeal
  /\ asking = [c \in Calls |-> NoCall1]

\* What was reached before there was a position is forgotten.
TimePasses ==
  /\ now < LastCandle
  /\ now' = now + 1
  /\ reached' = IF deal.status = "none" THEN [reached EXCEPT ![now] = {}] ELSE reached
  /\ UNCHANGED <<spotCache, lastReal, strip, deal, asking>>

\* The market moves: the candle of now reaches a barrier.  What it reaches later than
\* the end of the position concerns nobody.
MarketReaches(b) ==
  /\ deal.status \in {"none", "open"}
  /\ b \notin reached[now]
  /\ reached' = [reached EXCEPT ![now] = @ \union {b}]
  /\ UNCHANGED <<now, spotCache, lastReal, strip, deal, asking>>

------------------------------------------------------------------------------
\* getSpot: a price from the cache that is young enough, or one of the hosts, tried in order.
Spots == {"open", "cashout", "strip"}
MaxAge(what) == IF what = "strip" THEN STRIP_TTL ELSE SPOT_TTL
Young(what) == spotCache.price # NoPrice /\ now - spotCache.at < MaxAge(what)

\* Evaluations are made by polls of the page and by the keeper.  The row of the position
\* is locked by a cash-out that waits for its price.
DealLocked == \E c \in Calls : asking[c].what = "cashout"

\* When the position has ended, no call begins any more (a bound).
Begin(c, what) ==
  /\ asking[c] = NoCall1 /\ deal.status \in {"none", "open"}
  /\ what = "open" => deal.status = "none"
  /\ what = "cashout" => deal.status = "open" /\ ~DealLocked
  /\ what = "strip" => strip.shows = "none" \/ now - strip.at >= STRIP_TTL
  /\ what = "evaluate" => deal.status = "open"
  /\ asking' = [asking EXCEPT ![c] =
       [what |-> what, since |-> now, got |-> IF what \in Spots /\ Young(what) THEN spotCache.price ELSE NoPrice]]
  /\ UNCHANGED <<now, reached, spotCache, lastReal, strip, deal>>

\* Faulty: the age of a price is counted from its arrival.
CachedOnArrival(call, p) == [price |-> p, at |-> now]

\* The age of a price is counted from before the question.
Cached(call, p) == [price |-> p, at |-> call.since]

Waits(c, what) == asking[c].what = what /\ asking[c].got = NoPrice
Got(c, what) == asking[c].what = what /\ asking[c].got # NoPrice

\* A host answers with a price the market had since the call was made.
SpotArrives(c, p) ==
  /\ \E what \in Spots : Waits(c, what)
  /\ p \in asking[c].since..now
  /\ spotCache' = Cached(asking[c], p)
  /\ asking' = [asking EXCEPT ![c].got = p]
  /\ UNCHANGED <<now, reached, lastReal, strip, deal>>

EndsCall(c) == asking' = [asking EXCEPT ![c] = NoCall1]

\* No host has answered.  A call that opens or exits fails closed.
SpotFails(c) ==
  /\ Waits(c, "open") \/ Waits(c, "cashout")
  /\ EndsCall(c)
  /\ UNCHANGED <<now, reached, spotCache, lastReal, strip, deal>>

Age(call) == IF call.got < call.since THEN call.since - call.got ELSE 0

\* openPosition: the limit counts from the start of the call, the row from its
\* insertion.  The levels must be on both sides of the price; the market is
\* watched from then on.
OpenDeal(c, limited) ==
  /\ Got(c, "open") /\ deal.status = "none"
  /\ deal' = [status |-> "open", opened |-> now, age |-> Age(asking[c]),
              expires |-> IF limited THEN asking[c].since + TimeLimit ELSE Endless]
  /\ EndsCall(c)
  /\ UNCHANGED <<now, reached, spotCache, lastReal, strip>>

\* The levels are refused, or the stake is.
RefuseDeal(c) ==
  /\ Got(c, "open")
  /\ EndsCall(c)
  /\ UNCHANGED <<now, reached, spotCache, lastReal, strip, deal>>

\* cashOut: the row has been locked since before the price was asked for.
CashOutDeal(c) ==
  /\ Got(c, "cashout")
  /\ deal' = [deal EXCEPT !.status = "cashed", !.age = Age(asking[c])]
  /\ EndsCall(c)
  /\ UNCHANGED <<now, reached, spotCache, lastReal, strip>>

\* symbolList: the price of one symbol is there, or the last real one, or the
\* ambient price takes its place; then the other symbols are waited for.
TileFound(c) ==
  /\ asking[c].what = "strip"
  /\ lastReal' = IF Got(c, "strip") /\ lastReal = Endless THEN now ELSE lastReal
  /\ asking' = [asking EXCEPT ![c].what = IF lastReal' # Endless THEN "real" ELSE "ambient", ![c].got = NoPrice]
  /\ UNCHANGED <<now, reached, spotCache, strip, deal>>

StripDone(c) ==
  /\ asking[c].what \in {"real", "ambient"}
  /\ strip' = [shows |-> asking[c].what, at |-> asking[c].since]
  /\ EndsCall(c)
  /\ UNCHANGED <<now, reached, spotCache, lastReal, deal>>

------------------------------------------------------------------------------
\* getRange: the candles of the position until the call was made or its limit, those
\* that fit into an answer.  The one that contains the opening may be among them.
Window(first, upTo) ==
  {t \in first..(deal.opened + MaxCandles - 1) : t <= upTo /\ t <= deal.expires}

Touched(window) == {t \in window : reached[t] # {}}

\* detectBarrierTouch: the first candle that touched decides.
Decides(t, window) == t \in Touched(window) /\ \A u \in Touched(window) : t <= u

\* Faulty: the target is looked at first.
TargetFirst(t) == IF "target" \in reached[t] THEN "won" ELSE "lost"

\* Within one candle the order of two touches is not known.
VerdictAt(t) == CASE reached[t] = {"target"} -> "won" [] reached[t] = {"stop"} -> "lost" [] OTHER -> "draw"

Matured(call) == call.since >= deal.expires

\* resolve looks at the status under the lock.
Resolved1(status) == deal' = IF deal.status = "open" THEN [deal EXCEPT !.status = status] ELSE deal

\* realEvaluate with candles: a touch, or the limit without one.
CandlesGiven(c, first) ==
  LET call == asking[c]  window == Window(first, call.since) IN
  /\ call.what = "evaluate" /\ ~DealLocked /\ window # {}
  /\ \/ \E t \in window : Decides(t, window) /\ Resolved1(VerdictAt(t))
     \/ Touched(window) = {} /\ Resolved1(IF Matured(call) THEN "void" ELSE "open")
  /\ EndsCall(c)
  /\ UNCHANGED <<now, reached, spotCache, lastReal, strip>>

\* Every host failed or had no candles: what has matured is refunded.
NoCandles(c) ==
  LET call == asking[c] IN
  /\ call.what = "evaluate" /\ ~DealLocked
  /\ Resolved1(IF Matured(call) THEN "draw" ELSE "open")
  /\ EndsCall(c)
  /\ UNCHANGED <<now, reached, spotCache, lastReal, strip>>

\* What is asked for the position does not look at the strip, and leaves in the cache what
\* the strip would.
DealNext ==
  \/ TimePasses
  \/ \E b \in Barriers : MarketReaches(b)
  \/ \E c \in Calls :
       \/ \E what \in {"open", "cashout", "evaluate"} : Begin(c, what)
       \/ SpotFails(c) \/ RefuseDeal(c) \/ CashOutDeal(c) \/ NoCandles(c)
       \/ \E p \in 0..LastCandle : SpotArrives(c, p)
       \/ \E limited \in BOOLEAN : OpenDeal(c, limited)
       \/ \E first \in {deal.opened, deal.opened + 1} : CandlesGiven(c, first)

StripNext ==
  \/ TimePasses
  \/ \E c \in Calls :
       \/ Begin(c, "strip") \/ TileFound(c) \/ StripDone(c)
       \/ \E p \in 0..LastCandle : SpotArrives(c, p)

------------------------------------------------------------------------------
\* What a position was settled at is what the market did while it was open: the
\* first barrier that was reached, none until its limit, or no way to tell; and the
\* price it was opened or exited at was the market's when it was asked for, or
\* younger than the cache allows.
VerdictShown ==
  LET Untouched(until) == \A u \in (deal.opened + 1)..until : u <= LastCandle => reached[u] = {}
      First(bs) == \E t \in deal.opened..LastCandle : reached[t] = bs /\ Untouched(t - 1)
  IN /\ deal.status = "won" => First({"target"})
     /\ deal.status = "lost" => First({"stop"})
     /\ deal.status = "void" =>
          /\ now >= deal.expires
          /\ Untouched(IF deal.expires < deal.opened + MaxCandles THEN deal.expires - 1 ELSE deal.opened + MaxCandles - 1)
     /\ deal.status = "draw" => now >= deal.expires \/ First(Barriers)
     /\ deal.age < SPOT_TTL

\* The tile shows the simulated price only when no real one was known when it was read.
TileShown == strip.shows = "ambient" => strip.at <= lastReal

\* Does not hold: a position that is refunded at its limit has touched no barrier (an
\* answer has 1000 candles at most, the first ones, of one second each).
RefundedUntouched ==
  deal.status = "void" => \A t \in (deal.opened + 1)..(deal.expires - 1) : reached[t] = {}

\* Does not hold: a barrier that is reached after the limit decides nothing.
DecidedInTime ==
  deal.status \in {"won", "lost"} => \E t \in deal.opened..LastCandle : t < deal.expires /\ reached[t] # {}

\* Does not hold: a tile does not drop back to the simulated price.
TileHolds == [][strip.shows = "real" => strip'.shows = "real"]_pricesVars

------------------------------------------------------------------------------
\* The charts of the page of signals: candles are fetched once, then a socket brings
\* the new ones; it is opened anew once.
CONSTANT Charts

VARIABLES
  live,     \* of each chart: candles (fetched), socket, retry (the timer), retried, stopped
  sockets   \* _sockets: the charts whose socket is listed

liveVars == <<live, sockets>>

LiveInit ==
  /\ live = [k \in Charts |-> [candles |-> "none", socket |-> "none", retry |-> FALSE, retried |-> FALSE, stopped |-> FALSE]]
  /\ sockets = {}

AskKlines(k) ==
  /\ live[k].candles = "none"
  /\ live' = [live EXCEPT ![k].candles = "asked"]
  /\ UNCHANGED sockets

\* An error, an empty answer or the nine seconds are null, and the page draws a
\* simulated curve.
KlinesNull(k) ==
  /\ live[k].candles = "asked"
  /\ live' = [live EXCEPT ![k].candles = "null"]
  /\ UNCHANGED sockets

\* The candles are there and the page subscribes; the constructor of the socket may
\* throw, and then there is none.
Subscribe(k, works) ==
  /\ live[k].candles = "asked"
  /\ live' = [live EXCEPT ![k].candles = "here", ![k].socket = IF works THEN "open" ELSE "none"]
  /\ sockets' = IF works THEN sockets \union {k} ELSE sockets

\* A chart that was stopped is not opened anew; one that was opened anew is given up.
SocketCloses(k) ==
  /\ live[k].socket # "none"
  /\ live' = [live EXCEPT ![k].socket = "none", ![k].retry = ~live[k].stopped /\ ~live[k].retried,
                          ![k].retried = @ \/ ~live[k].stopped]
  /\ sockets' = sockets \ {k}

\* Faulty: the chart may have been stopped since.
ReopensAlways(k) == TRUE

Reopens(k) == ~live[k].stopped

RetryTimer(k, works) ==
  /\ live[k].retry
  /\ live' = [live EXCEPT ![k].retry = FALSE, ![k].socket = IF Reopens(k) /\ works THEN "open" ELSE "none"]
  /\ sockets' = IF Reopens(k) /\ works THEN sockets \union {k} ELSE sockets

StopChart(k) ==
  /\ live[k].candles = "here" /\ ~live[k].stopped
  /\ live' = [live EXCEPT ![k].stopped = TRUE, ![k].socket = IF @ = "open" THEN "closing" ELSE @]
  /\ sockets' = sockets \ {k}

LiveNext ==
  \E k \in Charts :
    \/ AskKlines(k) \/ KlinesNull(k) \/ SocketCloses(k) \/ StopChart(k)
    \/ \E works \in BOOLEAN : Subscribe(k, works) \/ RetryTimer(k, works)

\* A chart that is stopped opens no socket any more, and the list holds the open ones.
StoppedIsQuiet ==
  /\ \A k \in Charts : live[k].stopped => live[k].socket # "open"
  /\ sockets = {k \in Charts : live[k].socket = "open"}
==============================================================================
