------------------------------ MODULE BackStack ------------------------------
(***************************************************************************)
(* The back gesture in the browser.  Three listeners hear every popstate:  *)
(* src/public/backnav.js, which keeps one entry of the history ahead of    *)
(* the page and asks before the page is left, and Easy Trade and Baby      *)
(* Pick, which each hold one entry for every layer they have open, and go  *)
(* back themselves when a layer is closed by a tap.  The listeners do not  *)
(* know whose entry was popped.                                            *)
(***************************************************************************)
EXTENDS Integers

CONSTANTS
  MaxAt,      \* entries below the shown one, when a tap may add or take one
  MaxRewinds  \* own rewinds in flight, likewise

VARIABLES
  history, \* at: the shown entry; rewinds: history.back() in flight; left: the page is gone;
           \* first: the game whose listener was added first; peeled: layers of the games the
           \* last event closed
  nav,     \* backnav.js: armed, gestured, exit (the card is shown), letExit, modal (another layer)
  et,      \* Easy Trade: shown, sheet, sub (a view above home), depth (entries held), pending
  bp       \* Baby Pick, likewise

backVars == <<history, nav, et, bp>>

Closed == [shown |-> FALSE, sheet |-> FALSE, sub |-> FALSE, depth |-> 0, pending |-> 0]

\* The entry that is pushed at load may be ignored before the first gesture.
BackInit ==
  /\ history \in [at : {0, 1}, rewinds : {0}, left : {FALSE}, first : {"none"}, peeled : {0}]
  /\ nav = [armed |-> TRUE, gestured |-> FALSE, exit |-> FALSE, letExit |-> FALSE, modal |-> FALSE]
  /\ et = Closed
  /\ bp = Closed

One(b) == IF b THEN 1 ELSE 0
Layers(g) == IF g.shown THEN 1 + One(g.sheet) + One(g.sub) ELSE 0

\* backSync, bkSync: an entry for every layer.
Pushed(g) == IF Layers(g) > g.depth THEN Layers(g) - g.depth ELSE 0
Rewound(g) == IF g.depth > Layers(g) THEN g.depth - Layers(g) ELSE 0
Synced(g) == [g EXCEPT !.depth = Layers(g), !.pending = @ + Rewound(g)]

\* backPeelOne, bkPeelOne: the sheet, the view above home, the overlay.
Peeled(g) ==
  IF g.sheet THEN [g EXCEPT !.sheet = FALSE]
  ELSE IF g.sub THEN [g EXCEPT !.sub = FALSE]
  ELSE [g EXCEPT !.shown = FALSE]

------------------------------------------------------------------------------
(* What a popped entry does *)

\* A game that rewound takes the event for its own; otherwise, if it holds an entry, one
\* layer is closed.
Own(g) == g.pending > 0
Consumed(g) == Peeled([g EXCEPT !.depth = @ - 1])
Answers(g) == ~Own(g) /\ g.depth > 0

\* Baby Pick on top of Easy Trade owns the gesture, if it is still there when Easy Trade's
\* listener runs.
BpCloses == Answers(bp) /\ ~Peeled(bp).shown
EtAnswersAlways == Answers(et)
EtAnswers == Answers(et) /\ (~bp.shown \/ (history.first = "bp" /\ BpCloses))

Heard(g, answers) ==
  IF Own(g) THEN [g EXCEPT !.pending = @ - 1]
  ELSE IF answers THEN Synced(Consumed(g))
  ELSE g

PushedBy(g, answers) == IF answers THEN Pushed(Consumed(g)) ELSE 0
RewoundBy(g, answers) == IF answers THEN Rewound(Consumed(g)) ELSE 0

RearmedOnClose == One(nav.exit \/ nav.modal)

\* backnav pushes first, whatever comes.
Rearmed == 1

\* closeTop sees the exit card and its own layers, not the games', and asks to exit when
\* it closed nothing.
NavHears ==
  nav' = IF nav.letExit THEN [nav EXCEPT !.letExit = FALSE, !.armed = FALSE]
         ELSE IF nav.exit THEN [nav EXCEPT !.exit = FALSE, !.armed = TRUE]
         ELSE IF nav.modal THEN [nav EXCEPT !.modal = FALSE, !.armed = TRUE]
         ELSE [nav EXCEPT !.exit = TRUE, !.armed = TRUE]

Popped(rewinds) ==
  LET bpAnswers == Answers(bp) IN
  /\ NavHears
  /\ et' = Heard(et, EtAnswers)
  /\ bp' = Heard(bp, bpAnswers)
  /\ history' = [history EXCEPT
       !.at = @ - 1 + (IF nav.letExit THEN 0 ELSE Rearmed) + PushedBy(et, EtAnswers) + PushedBy(bp, bpAnswers),
       !.rewinds = rewinds + RewoundBy(et, EtAnswers) + RewoundBy(bp, bpAnswers),
       !.peeled = One(EtAnswers) + One(bpAnswers)]

LeavesPage == history' = [history EXCEPT !.left = TRUE] /\ UNCHANGED <<nav, et, bp>>

GoesBack(rewinds) == IF history.at = 0 THEN LeavesPage ELSE Popped(rewinds)

\* The hardware or edge gesture.
BackGesture == GoesBack(history.rewinds)

\* A history.back() of a game, or the history.go(-1) of the exit card, arrives.
Rewind == history.rewinds > 0 /\ GoesBack(history.rewinds - 1)

------------------------------------------------------------------------------
(* Taps *)

\* The bounds of the instance.
Bounded == history.at <= MaxAt /\ history.rewinds <= MaxRewinds

\* Every tap reaches onGesture afterwards: a fresh entry the first time, then only when
\* none is held.
Gesture ==
  /\ Bounded
  /\ ~nav.gestured \/ ~nav.armed
  /\ nav' = [nav EXCEPT !.gestured = TRUE, !.armed = TRUE]
  /\ history' = [history EXCEPT !.at = @ + 1]
  /\ UNCHANGED <<et, bp>>

OpenModal ==
  /\ ~nav.modal /\ ~nav.exit
  /\ nav' = [nav EXCEPT !.modal = TRUE]
  /\ UNCHANGED <<history, et, bp>>

CloseModal ==
  /\ nav.modal
  /\ nav' = [nav EXCEPT !.modal = FALSE]
  /\ UNCHANGED <<history, et, bp>>

StayHere ==
  /\ nav.exit
  /\ nav' = [nav EXCEPT !.exit = FALSE]
  /\ UNCHANGED <<history, et, bp>>

\* The card is gone before the page goes back, and the observer of the body pushes an entry
\* for that.
ConfirmExit ==
  /\ Bounded
  /\ nav.exit
  /\ nav' = [nav EXCEPT !.exit = FALSE, !.letExit = TRUE, !.armed = TRUE]
  /\ history' = [history EXCEPT !.at = @ + 1, !.rewinds = @ + 1]
  /\ UNCHANGED <<et, bp>>

Syncs(g, first) ==
  /\ Bounded
  /\ history' = [history EXCEPT !.at = @ + Pushed(g), !.rewinds = @ + Rewound(g), !.first = first, !.peeled = 0]

EtShows(g) == Syncs(g, history.first) /\ et' = Synced(g) /\ UNCHANGED <<nav, bp>>
BpShows(g) == Syncs(g, history.first) /\ bp' = Synced(g) /\ UNCHANGED <<nav, et>>

\* The listener is added when the game is opened for the first time.
First(game) == IF history.first = "none" THEN game ELSE history.first

OpenEasyTrade ==
  /\ ~et.shown /\ ~bp.shown
  /\ Syncs([et EXCEPT !.shown = TRUE], First("et"))
  /\ et' = Synced([et EXCEPT !.shown = TRUE])
  /\ UNCHANGED <<nav, bp>>

OpenEtSheet == et.shown /\ ~bp.shown /\ EtShows([et EXCEPT !.sheet = TRUE])
CloseEtSheet == et.shown /\ et.sheet /\ ~bp.shown /\ EtShows([et EXCEPT !.sheet = FALSE])
EtHome == et.shown /\ et.sub /\ EtShows([et EXCEPT !.sub = FALSE])
EtBack == et.shown /\ ~bp.shown /\ EtShows(Peeled(et))

\* A ticket, a result or the history is shown without a new entry.
EtSubView ==
  /\ Bounded
  /\ et.shown /\ ~et.sub
  /\ et' = [et EXCEPT !.sub = TRUE]
  /\ UNCHANGED <<history, nav, bp>>

\* From the home of Easy Trade, or from the hub.
OpenBabyPick ==
  /\ ~bp.shown /\ ~et.sheet /\ ~et.sub
  /\ Syncs([bp EXCEPT !.shown = TRUE], First("bp"))
  /\ bp' = Synced([bp EXCEPT !.shown = TRUE])
  /\ UNCHANGED <<nav, et>>

QuickSetup == bp.shown /\ BpShows([bp EXCEPT !.sub = TRUE])
BpHub == bp.shown /\ bp.sub /\ BpShows([bp EXCEPT !.sub = FALSE])
OpenFairness == bp.shown /\ bp.sub /\ BpShows([bp EXCEPT !.sheet = TRUE])
CloseFairness == bp.shown /\ bp.sheet /\ BpShows([bp EXCEPT !.sheet = FALSE])
BpBack == bp.shown /\ BpShows(Peeled(bp))
BpClose == bp.shown /\ BpShows([bp EXCEPT !.shown = FALSE, !.sheet = FALSE])

\* A round that still runs is resumed without a new entry.
BpResume ==
  /\ Bounded
  /\ bp.shown /\ ~bp.sub
  /\ bp' = [bp EXCEPT !.sub = TRUE]
  /\ UNCHANGED <<history, nav, et>>

BackNext ==
  /\ ~history.left
  /\ \/ BackGesture \/ Rewind
     \/ Gesture \/ OpenModal \/ CloseModal \/ StayHere \/ ConfirmExit
     \/ OpenEasyTrade \/ OpenEtSheet \/ CloseEtSheet \/ EtHome \/ EtBack \/ EtSubView
     \/ OpenBabyPick \/ QuickSetup \/ BpHub \/ OpenFairness \/ CloseFairness \/ BpBack \/ BpClose \/ BpResume

------------------------------------------------------------------------------
\* Once the page has been touched, no number of gestures and rewinds leaves it without the
\* exit card: an entry stays below the shown one.
NeverLeftUnasked == nav.gestured /\ nav.armed => history.at > 0 /\ ~history.left

\* An event closes one layer of the games at most: Easy Trade leaves it to Baby Pick, when
\* its listener is the first to run.
OneLayerEach == history.first = "et" => history.peeled <= 1

\* Does not hold: an event closes one layer at most.  Baby Pick opened once before Easy Trade
\* runs first, and has closed itself when Easy Trade looks for it.
OneLayerAlways == history.peeled <= 1

\* Does not hold: what a game rewinds closes nothing.  backnav.js shows the exit card or
\* closes a layer, and the other game answers.
RewindsAreOwn == Rewind => history'.peeled = 0 /\ (nav'.exit => nav.exit)

\* Does not hold: the card asks to exit only when no game is open; closeTop cannot see them.
AsksAtRoot == nav.exit => ~et.shown /\ ~bp.shown

\* Does not hold: the exit that was confirmed leaves the page.
ExitsWhenConfirmed == nav.letExit => history.at <= history.rewinds
==============================================================================
