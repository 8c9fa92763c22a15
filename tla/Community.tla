------------------------------ MODULE Community ------------------------------
(***************************************************************************)
(* What members do with each other: chats and the assistant, live streams, *)
(* the signals that arrive and their scoreboard, the feed and the store of *)
(* the market, signing up and the row of a member; and the pages of the    *)
(* browser they play and trade on.  The parts share no state that their    *)
(* properties speak of, so they are explored side by side: a behaviour     *)
(* chooses its part at the start and stays with it.                        *)
(***************************************************************************)
EXTENDS Chats, Streams, Signals, Market, Membership, PriceFeeds, BackStack, GameScreens,
        TradingScreens

VARIABLE part

Parts == {"chats", "assistant", "reports", "streams", "scoreboard", "intake", "feed", "store", "signup",
          "access", "prices", "strip", "charts", "back", "easy", "pick", "trade", "signals"}

vars == <<chatsVars, assistantVars, reportsVars, streamsVars, scoreboardVars, intakeVars, feedVars, storeVars,
          signUpVars, accessVars, pricesVars, liveVars, backVars, screenVars, tradeVars, signalsVars, part>>

Init ==
  /\ part \in Parts
  /\ ChatsInit /\ AssistantInit /\ ReportsInit /\ StreamsInit /\ ScoreboardInit /\ IntakeInit
  /\ FeedInit /\ StoreInit /\ SignUpInit /\ AccessInit
  /\ PricesInit /\ LiveInit
  /\ BackInit /\ ScreensInit /\ TradeInit /\ SignalsInit
  /\ part # "back" => history.at = 0
  /\ part # "trade" => ~trade.real

\* Nothing but the part p changes.
Only(p) ==
  /\ part = p
  /\ UNCHANGED part
  /\ p # "chats" => UNCHANGED chatsVars
  /\ p # "assistant" => UNCHANGED assistantVars
  /\ p # "reports" => UNCHANGED reportsVars
  /\ p # "streams" => UNCHANGED streamsVars
  /\ p # "scoreboard" => UNCHANGED scoreboardVars
  /\ p # "intake" => UNCHANGED intakeVars
  /\ p # "feed" => UNCHANGED feedVars
  /\ p # "store" => UNCHANGED storeVars
  /\ p # "signup" => UNCHANGED signUpVars
  /\ p # "access" => UNCHANGED accessVars
  /\ p \notin {"prices", "strip"} => UNCHANGED pricesVars
  /\ p # "charts" => UNCHANGED liveVars
  /\ p # "back" => UNCHANGED backVars
  /\ p # "easy" => UNCHANGED easyVars
  /\ p # "pick" => UNCHANGED pickVars
  /\ p # "trade" => UNCHANGED tradeVars
  /\ p # "signals" => UNCHANGED signalsVars

Next ==
  \/ Only("chats") /\ ChatsNext
  \/ Only("assistant") /\ AssistantNext
  \/ Only("reports") /\ ReportsNext
  \/ Only("streams") /\ StreamsNext
  \/ Only("scoreboard") /\ ScoreboardNext
  \/ Only("intake") /\ IntakeNext
  \/ Only("feed") /\ FeedNext
  \/ Only("store") /\ StoreNext
  \/ Only("signup") /\ SignUpNext
  \/ Only("access") /\ AccessNext
  \/ Only("prices") /\ DealNext
  \/ Only("strip") /\ StripNext
  \/ Only("charts") /\ LiveNext
  \/ Only("back") /\ BackNext
  \/ Only("easy") /\ EasyNext
  \/ Only("pick") /\ PickNext
  \/ Only("trade") /\ TradeNext
  \/ Only("signals") /\ SignalsNext

Spec == Init /\ [][Next]_vars

\* The variables of the part that moves; the others are as at the start, so that states
\* which agree on these are the same (the VIEW of the run, which saves its time).
Moving ==
  CASE part = "chats" -> chatsVars
    [] part = "assistant" -> assistantVars
    [] part = "reports" -> reportsVars
    [] part = "streams" -> streamsVars
    [] part = "scoreboard" -> scoreboardVars
    [] part = "intake" -> intakeVars
    [] part = "feed" -> feedVars
    [] part = "store" -> storeVars
    [] part = "signup" -> signUpVars
    [] part = "access" -> accessVars
    [] part \in {"prices", "strip"} -> pricesVars
    [] part = "charts" -> liveVars
    [] part = "back" -> backVars
    [] part \in {"easy", "pick"} -> screenVars
    [] part = "trade" -> tradeVars
    [] part = "signals" -> signalsVars
View == <<part, Moving>>

------------------------------------------------------------------------------
\* What belongs to a message goes with it and nothing is left of a deleted chat; a chat
\* with the assistant gets no more answers than the limit in 24 hours, while nothing is
\* erased from it; a message is flagged once by each (see Chats).
ConversationsKept ==
  /\ part = "chats" => NothingOrphaned
  /\ part = "assistant" => AnswersRationed
  /\ part = "reports" => ReportsKept

\* The bot decides what it manages; an alert is published once a minute whichever statement
\* of its request fails, and never under a row that refused it (see Signals).
SignalsKept ==
  /\ part = "scoreboard" => EventsAuthoritative
  /\ part = "intake" => AlertOnce

\* A post counts the likes and comments there are and those that went with deleted
\* accounts; licences, accounts, subscriptions, verdicts and tiles are what was paid,
\* mailed, given and reached (see Market, Membership and PriceFeeds).
RecordsAgree ==
  /\ part = "feed" => LikesCounted
  /\ part = "store" => LicencesPaid
  /\ part = "signup" => CodeProvesPassword
  /\ part = "access" => ProIsGiven
  /\ part = "prices" => VerdictShown
  /\ part = "strip" => TileShown

\* What the pages show is what was streamed, asked or ordered: nobody joins a stream that has
\* gone, a gesture closes one layer when Easy Trade was opened first, an answer shows one
\* result, and one order is sent at a time (see Streams, BackStack, GameScreens and TradingScreens).
ScreensTrue ==
  /\ part = "streams" => NobodyGhosts
  /\ part = "back" => NeverLeftUnasked /\ OneLayerEach
  /\ part \in {"easy", "pick"} => ResultOnce
  /\ part = "trade" => OneOrder /\ CheeredOnce
  /\ part = "signals" => OneSignalOrder /\ StageWired
  /\ part = "charts" => StoppedIsQuiet

\* A read receipt and a decided signal are never taken back, and a licence only with the
\* account of its owner or buyer (see Chats, Signals and Market).
NothingTakenBack ==
  [][/\ part = "chats" => ReadStays
     /\ part = "scoreboard" => DecidedStays
     /\ part = "store" => LicencesStand]_vars
==============================================================================
