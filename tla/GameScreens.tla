----------------------------- MODULE GameScreens -----------------------------
(***************************************************************************)
(* The pages of Easy Trade and Baby Pick in the browser                    *)
(* (src/public/easytrade.js and babypick.js).  A page sends calls, polls a *)
(* ticket with a timer that does not wait for the previous answer, and     *)
(* renders whatever the answers say when they arrive, in any order, also   *)
(* after the member went elsewhere.  The server is reduced to the status   *)
(* of the tickets; an answer carries the status at the time of the call.   *)
(***************************************************************************)
EXTENDS Integers, FiniteSets

CONSTANTS
  LastTicket,   \* tickets and rounds of the instance
  MaxPolls,     \* times a page starts to poll
  MaxCalls      \* calls of a page in flight

VARIABLES
  served,  \* status of each ticket: 0 none, 1 waits, 2 bound to a round, 3 settled
  easy,    \* Easy Trade: shown, view, sheet, ticket, open (ET.openTicketId), poll
           \* (the timer that runs), asks (its ticket), polls, watch
  easyCalls, easySeen, easyResults,
  played,  \* status of each round of Baby Pick: 0 none, 1 pending, 3 settled
  pick,    \* Baby Pick: shown, view, busy, round, open, poll, polls
  pickCalls, pickSeen, pickResults

easyVars == <<served, easy, easyCalls, easySeen, easyResults>>
pickVars == <<played, pick, pickCalls, pickSeen, pickResults>>
screenVars == <<easyVars, pickVars>>

Tickets == 1..LastTicket
Polls == 1..MaxPolls
Settled == 3

EasyInit ==
  /\ served = [k \in Tickets |-> 0]
  /\ easy = [shown |-> FALSE, view |-> "home", sheet |-> "none", ticket |-> 0, open |-> 0,
             poll |-> 0, asks |-> 0, polls |-> 0, watch |-> FALSE]
  /\ easyCalls = {}
  /\ easySeen = {}
  /\ easyResults = [n \in Polls |-> 0]

PickInit ==
  /\ played = [k \in Tickets |-> 0]
  /\ pick = [shown |-> FALSE, view |-> "hub", busy |-> FALSE, round |-> 0, open |-> 0,
            poll |-> 0, asks |-> 0, polls |-> 0]
  /\ pickCalls = {}
  /\ pickSeen = {}
  /\ pickResults = [n \in Polls |-> 0]

ScreensInit == EasyInit /\ PickInit

\* What the server says is open.
OpenOf(status) == IF \E k \in Tickets : status[k] \in 1..2 THEN CHOOSE k \in Tickets : status[k] \in 1..2 ELSE 0

\* A call of kind k for ticket (0: none); poll is the timer that made it.  again tells apart
\* two calls in flight that will be answered the same.
Asked(k, ticket, status, poll) == [kind |-> k, ticket |-> ticket, status |-> status, poll |-> poll, again |-> FALSE]
Sent(calls, more) == calls \union {IF c \in calls THEN [c EXCEPT !.again = TRUE] ELSE c : c \in more}
Answered(calls, c, more) == Sent(calls \ {c}, more)
Fits(calls) == Cardinality(calls) < MaxCalls

------------------------------------------------------------------------------
(* Easy Trade *)

Me(kind, ticket, poll) == Asked(kind, ticket, OpenOf(served), poll)
TicketCall(kind, ticket, poll) == Asked(kind, ticket, served[ticket], poll)

EasyOnly == UNCHANGED pickVars
Renders(page) == easy' = page /\ UNCHANGED <<served, easySeen, easyResults>> /\ EasyOnly

\* renderHome, renderTicket: without a ticket, home.
Home(page) == [page EXCEPT !.view = "home"]
TicketView(page) == [page EXCEPT !.view = IF page.ticket = 0 THEN "home" ELSE "ticket"]

\* startPolling: the timer of before is stopped.
Started(page, ticket) == [page EXCEPT !.poll = page.polls + 1, !.asks = ticket, !.polls = @ + 1]
MayStart(page) == page.polls < MaxPolls

\* open, boot: me and the houses first.
OpenPage ==
  /\ ~easy.shown /\ Fits(easyCalls)
  /\ Renders([easy EXCEPT !.shown = TRUE, !.poll = 0])
  /\ easyCalls' = Sent(easyCalls, {Me("boot", 0, 0)})

Booted(c) ==
  /\ c.kind = "boot"
  /\ IF ~easy.shown \/ c.status = 0
       THEN /\ easyCalls' = Answered(easyCalls, c, {})
            /\ Renders(IF easy.shown THEN Home([easy EXCEPT !.open = 0]) ELSE [easy EXCEPT !.open = c.status])
       ELSE /\ easyCalls' = Answered(easyCalls, c, {TicketCall("resumeAtBoot", c.status, 0)})
            /\ Renders([easy EXCEPT !.open = c.status])

\* The banner of home.
TapResume ==
  /\ easy.shown /\ easy.view = "home" /\ easy.sheet = "none" /\ easy.open # 0 /\ Fits(easyCalls)
  /\ easyCalls' = Sent(easyCalls, {TicketCall("resume", easy.open, 0)})
  /\ Renders(easy)

Resumed(c) ==
  /\ c.kind \in {"resume", "resumeAtBoot"}
  /\ MayStart(easy)
  /\ easyCalls' = Answered(easyCalls, c, {})
  /\ LET page == [easy EXCEPT !.ticket = c.ticket] IN
     Renders(IF c.status < Settled THEN Started(TicketView(page), c.ticket)
             ELSE IF c.kind = "resume" THEN [page EXCEPT !.view = "result"]
             ELSE Home(page))

OpenSheet(kind) ==
  /\ easy.shown /\ easy.sheet = "none"
  /\ kind = "bet" => easy.view = "home"
  /\ Renders([easy EXCEPT !.sheet = kind])
  /\ UNCHANGED easyCalls

CloseSheet == easy.sheet # "none" /\ Renders([easy EXCEPT !.sheet = "none"]) /\ UNCHANGED easyCalls

\* A bet: the server refuses a second open ticket.  The sheet is busy until it is closed.
Place ==
  /\ easy.sheet = "bet" /\ Fits(easyCalls)
  /\ easy' = [easy EXCEPT !.sheet = "betting"]
  /\ IF OpenOf(served) = 0 /\ \E k \in Tickets : served[k] = 0
       THEN LET k == CHOOSE k \in Tickets : served[k] = 0 /\ \A j \in 1..(k - 1) : served[j] # 0 IN
            /\ served' = [served EXCEPT ![k] = 1]
            /\ easyCalls' = Sent(easyCalls, {Asked("bet", k, 1, 0)})
       ELSE /\ easyCalls' = Sent(easyCalls, {Asked("bet", 0, 0, 0)})
            /\ UNCHANGED served
  /\ UNCHANGED <<easySeen, easyResults>> /\ EasyOnly

\* The answer may be lost although the bet stands.
Refused(c) ==
  /\ c.kind = "bet"
  /\ easyCalls' = Answered(easyCalls, c, {})
  /\ Renders([easy EXCEPT !.sheet = IF @ = "betting" THEN "bet" ELSE @])

Placed(c) ==
  /\ c.kind = "bet" /\ c.ticket # 0 /\ MayStart(easy)
  /\ easyCalls' = Answered(easyCalls, c, {Me("reload", 0, 0)})
  /\ Renders(Started(TicketView([easy EXCEPT !.sheet = "none", !.ticket = c.ticket, !.open = c.ticket]), c.ticket))

Reloaded(c) ==
  /\ c.kind = "reload"
  /\ easyCalls' = Answered(easyCalls, c, {})
  /\ Renders([easy EXCEPT !.open = c.status])

\* The timer: it stops itself when the page is gone.
PollTick ==
  /\ easy.poll # 0
  /\ IF easy.shown
       THEN Fits(easyCalls) /\ easyCalls' = Sent(easyCalls, {TicketCall("poll", easy.asks, easy.poll)}) /\ Renders(easy)
       ELSE Renders([easy EXCEPT !.poll = 0]) /\ UNCHANGED easyCalls

\* A poll that was answered before is not heard again for a settled ticket.
Hears(c) == c.poll \notin easySeen

PollAnswered(c) ==
  /\ c.kind = "poll"
  /\ LET page == [easy EXCEPT !.ticket = c.ticket] IN
     IF c.status < Settled \/ ~Hears(c)
       THEN easyCalls' = Answered(easyCalls, c, {}) /\ Renders(page)
       ELSE /\ easySeen' = easySeen \union {c.poll}
            /\ easy' = [page EXCEPT !.poll = 0, !.open = 0]
            /\ easyCalls' = Answered(easyCalls, c, {Me("settled", c.ticket, c.poll)})
            /\ UNCHANGED <<served, easyResults>> /\ EasyOnly

\* loadMe is answered, or fails, before the result is rendered.
ResultShown(c) ==
  /\ c.kind = "settled"
  /\ easyCalls' = Answered(easyCalls, c, {})
  /\ IF easy.view = "ticket"
       THEN /\ easy' = [easy EXCEPT !.view = "result", !.open = c.status]
            /\ easyResults' = [easyResults EXCEPT ![c.poll] = @ + 1]
            /\ UNCHANGED <<served, easySeen>> /\ EasyOnly
       ELSE Renders([easy EXCEPT !.open = c.status])

\* The server cancels a ticket that no round has.
Cancel ==
  /\ easy.shown /\ easy.view = "ticket" /\ easy.ticket # 0 /\ Fits(easyCalls)
  /\ easyCalls' = Sent(easyCalls, {TicketCall("cancel", easy.ticket, 0)})
  /\ served' = IF served[easy.ticket] = 1 THEN [served EXCEPT ![easy.ticket] = Settled] ELSE served
  /\ UNCHANGED <<easy, easySeen, easyResults>> /\ EasyOnly

Cancelled(c) ==
  /\ c.kind = "cancel"
  /\ IF c.status = 1
       THEN /\ easyCalls' = Answered(easyCalls, c, {Me("cancelled", 0, 0)})
            /\ Renders([easy EXCEPT !.poll = 0, !.ticket = 0, !.open = 0])
       ELSE easyCalls' = Answered(easyCalls, c, {}) /\ Renders(easy)

HomeAfterCancel(c) ==
  /\ c.kind = "cancelled"
  /\ easyCalls' = Answered(easyCalls, c, {})
  /\ Renders(Home([easy EXCEPT !.open = c.status]))

ShowHistory ==
  /\ easy.shown /\ easy.view # "history" /\ easy.sheet = "none"
  /\ Renders([easy EXCEPT !.view = "history"])
  /\ UNCHANGED easyCalls

\* Back to houses: the ticket goes, not the timer.
BackToHouses ==
  /\ easy.shown /\ easy.view \in {"result", "history"}
  /\ Renders(Home(IF easy.view = "result" THEN [easy EXCEPT !.ticket = 0] ELSE easy))
  /\ UNCHANGED easyCalls

\* backPeelOne: one layer, the polling first.
BackOnce ==
  /\ easy.shown /\ easy.sheet = "none"
  /\ Renders(IF easy.view # "home" THEN Home([easy EXCEPT !.poll = 0])
             ELSE [easy EXCEPT !.poll = 0, !.shown = FALSE, !.watch = @ \/ easy.open # 0])
  /\ UNCHANGED easyCalls

\* The lamp of the tab: every fifteen seconds while the page is closed.
Watch ==
  /\ easy.watch /\ ~easy.shown
  /\ Renders([easy EXCEPT !.open = OpenOf(served), !.watch = OpenOf(served) # 0])
  /\ UNCHANGED easyCalls

\* The house binds a waiting ticket and settles it, or refunds it.
Serve(k) ==
  /\ served[k] \in 1..2
  /\ served' \in {[served EXCEPT ![k] = n] : n \in (served[k] + 1)..Settled}
  /\ UNCHANGED <<easy, easyCalls, easySeen, easyResults>> /\ EasyOnly

\* A failed call leaves the page as it is.
Failed(c) ==
  /\ c.kind \in {"poll", "resume", "resumeAtBoot", "reload", "cancel", "cancelled"}
  /\ easyCalls' = Answered(easyCalls, c, {})
  /\ Renders(IF c.kind = "resumeAtBoot" THEN Home(easy) ELSE easy)

EasyAnswer ==
  \E c \in easyCalls :
    \/ Booted(c) \/ Resumed(c) \/ Refused(c) \/ Placed(c) \/ Reloaded(c) \/ PollAnswered(c) \/ ResultShown(c)
    \/ Cancelled(c) \/ HomeAfterCancel(c) \/ Failed(c)

EasyNext ==
  \/ OpenPage \/ TapResume \/ (\E kind \in {"bet", "rules"} : OpenSheet(kind)) \/ CloseSheet \/ Place
  \/ PollTick \/ EasyAnswer \/ Cancel \/ ShowHistory \/ BackToHouses \/ BackOnce \/ Watch
  \/ \E k \in Tickets : Serve(k)

------------------------------------------------------------------------------
(* Baby Pick *)

PickOnly == UNCHANGED easyVars
RoundCall(kind, k, poll) == Asked(kind, k, played[k], poll)
Shows(page) == pick' = page /\ UNCHANGED <<played, pickSeen, pickResults>> /\ PickOnly

\* renderQuickLive: the timers of before are stopped; without an overlay there is no body,
\* and the hub is rendered, which needs one too.
Live(page, k) ==
  IF page.shown THEN Started([page EXCEPT !.view = "live", !.busy = FALSE], k)
  ELSE [page EXCEPT !.view = "hub", !.poll = 0]

OpenPick ==
  /\ ~pick.shown /\ Fits(pickCalls)
  /\ Shows([pick EXCEPT !.shown = TRUE])
  /\ pickCalls' = Sent(pickCalls, {Asked("boot", 0, OpenOf(played), 0)})

PickBooted(c) ==
  /\ c.kind = "boot"
  /\ LET page == [pick EXCEPT !.open = c.status] IN
     IF c.status = 0
       THEN Shows([page EXCEPT !.view = "hub"]) /\ pickCalls' = Answered(pickCalls, c, {})
       ELSE Shows(page) /\ pickCalls' = Answered(pickCalls, c, {RoundCall("resume", c.status, 0)})

PickResumed(c) ==
  /\ c.kind = "resume" /\ MayStart(pick)
  /\ pickCalls' = Answered(pickCalls, c, {})
  /\ LET page == [pick EXCEPT !.round = c.ticket] IN
     Shows(IF c.status < Settled THEN Live(page, c.ticket) ELSE [page EXCEPT !.view = "result"])

\* Every setup has a busy flag of its own.
QuickPlay ==
  /\ pick.shown /\ pick.view \in {"hub", "result"}
  /\ Shows([pick EXCEPT !.view = "setup", !.busy = FALSE, !.round = IF pick.view = "result" THEN 0 ELSE @])
  /\ UNCHANGED pickCalls

Play ==
  /\ pick.shown /\ pick.view = "setup" /\ ~pick.busy /\ Fits(pickCalls)
  /\ pick' = [pick EXCEPT !.busy = TRUE]
  /\ IF OpenOf(played) = 0 /\ \E k \in Tickets : played[k] = 0
       THEN LET k == CHOOSE k \in Tickets : played[k] = 0 /\ \A j \in 1..(k - 1) : played[j] # 0 IN
            /\ played' = [played EXCEPT ![k] = 1]
            /\ pickCalls' = Sent(pickCalls, {Asked("bet", k, 1, 0)})
       ELSE /\ pickCalls' = Sent(pickCalls, {Asked("bet", 0, 0, 0)})
            /\ UNCHANGED played
  /\ UNCHANGED <<pickSeen, pickResults>> /\ PickOnly

PlayRefused(c) ==
  /\ c.kind = "bet"
  /\ pickCalls' = Answered(pickCalls, c, {})
  /\ Shows([pick EXCEPT !.busy = FALSE])

PlayStarted(c) ==
  /\ c.kind = "bet" /\ c.ticket # 0 /\ MayStart(pick)
  /\ pickCalls' = Answered(pickCalls, c, {Asked("reload", 0, OpenOf(played), 0)})
  /\ Shows(Live([pick EXCEPT !.round = c.ticket, !.open = c.ticket], c.ticket))

PickReloaded(c) ==
  /\ c.kind = "reload"
  /\ pickCalls' = Answered(pickCalls, c, {})
  /\ Shows([pick EXCEPT !.open = c.status])

PickTick ==
  /\ pick.poll # 0 /\ Fits(pickCalls)
  /\ pickCalls' = Sent(pickCalls, {RoundCall("poll", pick.asks, pick.poll)})
  /\ Shows(pick)

PickHearsAlways(c) == TRUE
PickHears(c) == c.poll \notin pickSeen

PickPolled(c) ==
  /\ c.kind = "poll"
  /\ LET page == [pick EXCEPT !.round = c.ticket] IN
     IF c.status < Settled \/ ~PickHears(c)
       THEN pickCalls' = Answered(pickCalls, c, {}) /\ Shows(page)
       ELSE /\ pickSeen' = pickSeen \union {c.poll}
            /\ pick' = [page EXCEPT !.poll = 0, !.open = 0]
            /\ pickCalls' = Answered(pickCalls, c, {Asked("settled", c.ticket, OpenOf(played), c.poll)})
            /\ UNCHANGED <<played, pickResults>> /\ PickOnly

\* The result is rendered whatever is shown by then.
PickResult(c) ==
  /\ c.kind = "settled"
  /\ pickCalls' = Answered(pickCalls, c, {})
  /\ pick' = [pick EXCEPT !.view = "result", !.open = c.status]
  /\ pickResults' = [pickResults EXCEPT ![c.poll] = @ + 1]
  /\ UNCHANGED <<played, pickSeen>> /\ PickOnly

ToHub ==
  /\ pick.shown /\ pick.view # "hub"
  /\ Shows([pick EXCEPT !.view = "hub", !.poll = IF pick.view = "result" THEN @ ELSE 0])
  /\ UNCHANGED pickCalls

ClosePick ==
  /\ pick.shown
  /\ Shows([pick EXCEPT !.shown = FALSE, !.poll = 0])
  /\ UNCHANGED pickCalls

SettlePlay(k) ==
  /\ played[k] = 1
  /\ played' = [played EXCEPT ![k] = Settled]
  /\ UNCHANGED <<pick, pickCalls, pickSeen, pickResults>> /\ PickOnly

PickFailed(c) ==
  /\ c.kind \in {"poll", "reload"}
  /\ pickCalls' = Answered(pickCalls, c, {})
  /\ Shows(pick)

PickAnswer ==
  \E c \in pickCalls :
    \/ PickBooted(c) \/ PickResumed(c) \/ PlayRefused(c) \/ PlayStarted(c) \/ PickReloaded(c)
    \/ PickPolled(c) \/ PickResult(c) \/ PickFailed(c)

PickNext ==
  \/ OpenPick \/ QuickPlay \/ Play \/ PickTick \/ PickAnswer \/ ToHub \/ ClosePick
  \/ \E k \in Tickets : SettlePlay(k)

------------------------------------------------------------------------------
\* However many answers of one timer say that it is settled, the result is rendered once.
ResultOnce == \A n \in Polls : easyResults[n] <= 1 /\ pickResults[n] <= 1

\* Does not hold: the ticket that is shown and not settled is polled.  A late answer of an
\* earlier timer stops the timer that runs.
PendingIsPolled ==
  LET waits == /\ easy.shown /\ easy.view = "ticket" /\ easy.ticket # 0
               /\ \A c \in easyCalls : c.kind \notin {"boot", "resumeAtBoot"}
  IN waits => served[easy.ticket] = Settled \/ easy.poll # 0

\* Does not hold: a setup is not replaced by the result of an earlier round.
SetupStays == pick.view = "setup" /\ pick.shown => pick'.view # "result"
==============================================================================
