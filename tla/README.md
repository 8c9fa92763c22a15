# Formal model of DrQuant

TLA+ modules of DrQuant: the `qntm-ledger` engine, the flows that call it, the
games that bet on it, the encrypted messenger, what members do with each other,
and the pages of the browser. TLC checks them on small instances; TLAPS proves
every safety property that the passing runs check, invariants and action properties,
and the refinement of the ledger, for every value of the constants. Liveness is
checked by TLC only.

## 1. The system

DrQuant is a Node.js server (`src/server.js`) over one PostgreSQL database, with
a browser client, Socket.io, and a separate Go server for encrypted chat.

| Component | State | Operations | What is hard | What makes it correct |
|---|---|---|---|---|
| Ledger core (`qntm-ledger/src/ledger.js`, `wallets.js`, `treasury.js`, `risk.js`) | balances and status of wallets, transactions with their entries | postTransaction, mint, reverseTransaction, setWalletStatus, flagForReview | concurrent sessions at READ COMMITTED, row locks, raced idempotency keys, crashes between statements | balances exact, no overdraft, keys and reversals once, append-only history, no deadlock |
| Escrow and marketplace (`escrow.js`, `marketplace.js`, `creators.js`, `fees.js`) | rows of escrows | purchase, settle, refund, dispute, release of earnings | replayed purchases, settlement against refund | each escrow pays once; the wallet holds what the open ones took in, short of the rows that replays inserted |
| Staking (`staking.js`) | rows of stakes | stake, requestUnstake, completeUnstake | retries, cooldown | each stake is released once; locked balances match the rows that a posting funded |
| Tournaments (`tournaments.js`) | entries in a shared pool wallet | join, settle | joins during the settlement, retried settlement | a tournament never pays from the fees of another |
| Subscriptions (`subscriptions.js`) | rows with period end and failures | create, renewal job, dunning, cancel | several workers over one list, failed charges | paid through exactly what was paid for |
| Top-ups (`payments/orders.js`, `nowpayments.js`) | payment orders | create, webhook, manual credit, override | notifications repeated, delayed, reordered; underfunded treasury | an order is credited once and stays completed |
| Real prices (`services/quantoption-pricefeed.js`, `public/qo-realprice.js`) | caches of prices, the ended position, sockets of charts | spot, range, evaluate, cash out, strip, subscribe | answers older than the question, hosts that fail, candles that do not fit | a position is settled at what the market did |
| Quant Option (`services/quantoption*.js`) | positions, signals, the pool wallet | open, resolve, cash out, verdicts, refunds, keepers, funding | guards read without locks, four ways to settle one position, a webhook with retries | a position is paid once; open positions have something to wait for |
| Easy Trade, Baby Pick (`services/easytrade*.js`, `babypick.js`) | rounds, tickets, one shared pool | bet, webhook, autopilot, cancel, sweep, fund | bets racing settlements, two guards over one pool, a restarted autopilot | paid once, one verdict for a round, waiting tickets end, the pool is exact |
| Leagues (`services/leagues.js`, `league-rituals.js`, `rewards.js`) | counters, locked rituals | reward, start, claim, sweep | claim against sweep, calls for one reward that overlap, a reward paid and not counted | what was locked is returned once; a reward is paid once, and a standing is earned |
| Emission (`treasury.js`, `economy/`, `adjustments.js`, the airdrop script) | requests, gifts, the issued total | mint, bootstrap, grant, reclaim, approve, airdrop | two persons at once, a script killed half way | one posting for each approval and gift |
| Row locks (`wallets.js`, every transaction) | locks of wallets and of game rows | twelve kinds of transactions | wallets locked by upsert before the posting | postings alone never close a cycle; with victims aborted, all end |
| Quantum chat (`quantum-chat/`, Go, and its client) | ratchet state, queues, chunks, buckets | send, assemble, poll, acknowledge, expire | DNS queries lost, repeated, late; restarts; messages out of order | queued once, late messages open, used keys are gone, the rate is bounded |
| Messaging (`routes/chats.js`, `realtime/messaging.js`) | members, messages, reactions, receipts, marks, rooms | post, join, react, pin, read, clear, delete | nothing is a transaction: calls interleave at each await | nothing is left of a deleted message or chat; receipts only rise |
| Assistant (`routes/chats.js`) | the chat with it, the day's questions | list, ask, erase | devices that call at once | answers of a chat are rationed while nothing is erased |
| Reports (`routes/chats.js`, `management.js`) | flags of a message, the lists of the consoles | flag, hide, delete, reinstate | two moderators and an author at once, a verdict that fails half way | one open flag of each reader; nothing is hidden that was not flagged |
| Live streaming (`server.js`, `routes/live.js`, `realtime/sfu.js`) | presence, relay, sessions, rooms, transports | start, stop, join, produce, consume, disconnect | answers of the media server after the socket has gone | no one is in a room, or shown, without a connection |
| Signals (`services/signal-scoreboard.js`, `routes/webhooks.js`) | signals in memory, keys of alerts | ingest, resolve, expire, rebuild; claim, publish, log | late and repeated events, retries, failures after the alert is stored, the end of the process | the bot decides what it manages; an alert is published once |
| Market (`routes/market.js`) | posts, follows, products, licences and their counters | like, comment, follow, delete; create, edit, buy; accounts deleted by administrators and wizards | counters beside rows, edits during purchases, a file on disk, rows that go by cascade | counters are the rows and those that went with accounts; a licence is paid at the price that was on offer and goes only with an account |
| Accounts and Pro (`routes/auth.js`, `payment.js`, `admin.js`, `wizard.js`) | pending registrations, the row of a member | register, verify; pay, lapse, block, appoint | each reads the row and writes it later | the code proves the password; Pro is given by someone |
| Browser: back gesture (`public/backnav.js`, `exit-prompt.js`) | entries of the history, layers | gesture, open, close | three listeners hear every popstate, also the rewinds of the others | a gesture at the root asks before it leaves |
| Browser: pages of the games (`public/easytrade.js`, `babypick.js`, `quant-option.js`, `qo-signals.js`) | page, timers, calls in flight | open, bet, exit, poll, go back, close | answers that arrive late or in another order | one order at a time, a result once, a target cheered once |

Components call `postTransaction` inside their own database transaction
(`withTransaction`): the movement of money and the rows of the flow commit
together. They share wallets (`treasury`, `escrow`, `tournament_pool`, the pools
of the games) and the unique index over idempotency keys. The webhooks, the
keepers (`setInterval` in `server.js`) and the HTTP handlers run concurrently in
one process, and several processes may share the database. The messenger and the
market use single statements, without transactions except where the table says
so; the browser sees the server through answers that tell what was true when it
asked.

`PROJECT.json` lists every component with the reason why it is or is not
modelled, the hazards with their lines, and the lines each definition models.

## 2. The modules

```
Ledger ---------- implements ----------> AtomicLedger
  | MCLedger                                 :  what a posting is to a flow
  | Ledger_proofs                            v
                                         Postings
        .------------------.-----------------'|'-------------.--------------.
 Marketplace, Staking,  Subscriptions,   QuantOption   EasyTrade,     Leagues, Emission,
 Tournaments            PaymentOrders        |         BabyPick       RowLocks
        |                  |                 |             |              |
    Commerce            Billing              |         EasyGames       Economy
   MCCommerce          MCBilling       MCQuantOption  MCEasyGames     MCEconomy
 Commerce_proofs    (Economy_proofs) QuantOption_proofs EasyGames_proofs Economy_proofs

 DnsChat, Ratchet, TokenBucket ---> QuantumChat, QuantumChat_proofs

 Chats, Streams, Signals, Market, Membership, PriceFeeds,
 BackStack, GameScreens, TradingScreens ---> Community, Community_proofs

 CommonTheorems: finite sums and growing sequences, for all the proofs
```

**Ledger** models `postTransaction`, `mint` and `reverseTransaction` statement by
statement. `pc[s]` is the statement session `s` executes next; `work[s]`, `mine[s]`
are the balances and entries it sees and has written in its open transaction;
`held[s]` its row locks, taken one at a time in id order (`LockNext`) as
`lockWallets` does. A key that an open transaction has inserted makes another
INSERT of it wait (`InsertTxn`); the loser of the race fails as PostgreSQL makes
it fail. `Commit` publishes; `Crash` and the errors (`RejectFrozen`,
`RejectOverdraft`, ...) roll back. The unit is one token; the trigger that
forbids negative balances and the deferred check of the sum are guards at the
statements where the database applies them. **AtomicLedger** is what the ledger
promises: each call takes effect at one instant, or not at all.

**Postings** is that promise as the flows use it: `Post` moves an amount from one
account to others, or is not possible; `PostEach` does so for the several
postings of one transaction. A call that would overdraw leaves no trace, because
the caller's transaction is rolled back.

**Marketplace**, **Staking** and **Tournaments** have one action per operation,
atomic where the operation holds the row lock from its first relevant read on,
and split where it does not (`ReadPool` and `PayPrizes` of a settlement).
**Commerce** runs the three over one ledger. **Subscriptions** keeps what each
worker has listed (`listed`) apart from the rows, which change meanwhile;
**PaymentOrders** lets the gateway repeat and reorder its notifications;
**Billing** runs both, with minting into the treasury.

**QuantOption** models the default mode, with simulated prices. The tables of
quick positions and of signal positions are one sequence, told apart by
`signal`. A call that opens a position goes through the stages of its
transaction; a call on a signal holds the row of the signal meanwhile
(`RowLocked`). Prices appear only through what they decide: the `fate` that the
seed of a quick position fixes, the verdict of a webhook, the value of a
cash-out, and `spent`, the signals that the live price has invalidated.
`topUpPool` reads and transfers in one action.

**EasyTrade** keeps rounds and tickets. A bet reads the open round, and commits
its ticket later; an event of the webhook or of the autopilot opens, supersedes
or settles a round meanwhile. **BabyPick** stakes into the same pool, and
**EasyGames** runs both, with the exposure guard of each knowing its own bets only.

**Leagues** has a reward as the statements of `grant` and `fire`: the look at its key
(`AskGrant`), the posting, which a call that looked too early gets as a replay and
takes for a grant (`GrantReward`), and the count of what was earned (`AddEarned`).
Any of them may fail, and the process may end in between (`FailGrant`,
`LoseCredits`); `overlapped` remembers the rewards of which two calls had both
looked, which the code may count twice. Then the ritual from the request to the
claim or the sweep. **Emission** has the mint with
its unlocked read of the cap, the bootstrap, the transfers of administrators,
corrections by two persons and the airdrop with its restarts. **RowLocks** has
nothing but the order in which each kind of transaction takes its locks and the
database's abort of a victim. **Economy** runs the three side by side.

**DnsChat** follows a message from its queries to the poll that opens it: `wire`
holds the queries that may still be delivered, the node assembles and queues, the poller acknowledges;
the store, memory or Postgres, is chosen at the start. The memory store drops an
upload as a whole; in Postgres each chunk is a row with an age of its own, which a
repeated query neither renews nor shares (`SweepUpload`). **Ratchet** is X3DH and
the double ratchet with symbolic keys. **TokenBucket** is the limiter of the node.

**Chats** has the calls of the REST routes and of the sockets: `calls[u]` is the
operation of member `u` and the statement it is at; rights are checked by the
first statement and used by the later ones. Its further sections, the assistant
and the reports, and **Market** (feed and store), **Membership** (registration and
Pro) and the intake of **Signals** are built the same way, each for one
contended row: what a call has read is in its record, and the row changes in
between. In **Market** the calls are transactions, so a row that one of
them has changed makes the others wait. Accounts are deleted there (`RemoveAccount`,
`DropPost`, `RemoveOwner`, `RemoveBuyer`) and in Membership: the database takes the
rows of the user along, by cascade, and leaves counters and payments as they were. In
Chats, Streams and Signals nobody is deleted: there the cascade removes the user's
own messages, reactions and receipts. **Streams** splits a handler at each
answer of the media server (`TransportReady`, `RouterReady`). **Signals** has also the
map of signals in memory with its index by the bot's ids, its trimming, its
rebuilding and its expiry, driven by prices and by the webhook.

**PriceFeeds** is Quant Option with real prices. A price is the time at which the
market had it and a candle is the set of barriers it has reached, so a call that
asks, waits for a host and decides can be compared with what the market did. Its
second half are the sockets of the charts, opened anew once.

**BackStack** is the history of the browser as a number of entries (`history.at`,
the rewinds under way) and the three listeners with what each believes to hold.
A rewind arrives as a gesture does, and each listener decides for itself.
**GameScreens** and **TradingScreens** are pages: what is shown, the
timer that runs, and the calls in flight, each of which carries what the server
knew when it was asked. An answer may arrive at any moment and in any order; a
page that is closed hears it too, as in the code. In TradingScreens two calls in flight that would be answered the same are one.

**Community** runs its eighteen parts side by side: the first state chooses `part`
and only that part moves, so the states are the sum of the parts' and not their
product. It loses nothing, because these parts share no state their properties
speak of. Economy and QuantumChat are composed alike. The VIEW of its run names the
variables of the part that moves; the others are as at the start, so it only saves
TLC time (the number of distinct states is the same without it).

A definition marked *Faulty* is never used by a specification. It is a
plausible mistake in the definition that follows it, and substituting it breaks a
property (`mutants` in `PROJECT.json`), so each property is one the code could fail.
Several properties of the composed runs name a conjunction of the parts'
(`NothingOrphaned` in `ConversationsKept`, for example) and have a mutant in
nearly each of the parts they speak of.

## 3. The runs

| Run | What it shows | Instance |
|---|---|---|
| `ledger` | two sessions post, mint, reverse, freeze, review and crash: exact balances, keys and reversals once, ordered locks, append-only history, freezes that hold | 2 sessions, 3 wallets, 1 key, calls start while at most 2 transactions are committed |
| `ledger_live` | every call ends; the concurrent ledger implements AtomicLedger | one transaction less, fair |
| `commerce` | escrows and stakes pay once; the escrow wallet and the locked balances are short of the open rows by nothing but the rows of used keys; tournaments do not pay from each other | 2 users with 30 units, 1 key, 4 transactions, 3 rows |
| `billing` | orders are credited once and stay completed; subscriptions are paid through what was paid for | 2 workers, 1 subscription, 2 orders, 5 transactions |
| `quantoption` | positions are paid once by all their settlers together; none is left on a settled signal | 2 users, 2 calls, 1 signal, 2 positions, an empty treasury |
| `quantoption_live` | the keeper settles every matured quick position, the top-up refilling the pool | 1 user, 2 calls, 2 positions |
| `quantoption_stuck` | **violated**: expired signal positions are refunded | a call waits for the row it has locked |
| `easygames` | tickets are paid once and follow one verdict; an answer is final | 2 users, 2 calls, 2 rounds, 2 tickets, the webhook |
| `easygames_live` | waiting tickets are bound or refunded, due rounds settled; the pool is exact | 1 user in both games, 1 round, the autopilot, with restarts |
| `economy` | rituals are released once, a standing is earned, emission happens once, postings never close a cycle of waiting, all end | 2 members, 3 leagues, 2 rituals, 1 milestone asked for by 2 calls; 2 officers, 2 airdrops; 3 transactions of 12 kinds |
| `quantumchat` | a message is queued once, late ones open, used keys are gone, the rate is bounded, no chunk and no message stays for good | 1 message of 2 queries and 2 frames, 1 restart; 3 messages a side, 1 repeat; 2 clients |
| `community` | the eighteen parts keep `ConversationsKept`, `SignalsKept`, `RecordsAgree`, `ScreensTrue`, and take nothing back (`NothingTakenBack`) | see the first line of `Community.cfg` |

What the properties of `community` say, part by part:

- `ConversationsKept`: reactions, receipts and pins belong to messages that exist
  and a deleted chat leaves nothing; the answers that one chat with the assistant
  gets in 24 hours stay within the limit, while nothing is erased from it; a reader has one open flag of a
  message, and nothing is hidden that was not flagged (Chats).
- `SignalsKept`: a signal that the bot manages is never decided by a price, and
  the index leads to signals that have the id; an alert is published
  once in its minute however often it is sent, and never under a row that refused
  it; a row that says error may be of a published alert, as in the code (Signals).
- `RecordsAgree`: when nobody holds the lock of a post, its counters are the likes and
  comments there are and those that went with deleted accounts (`lost` keeps them);
  every licence was paid at what it was sold for, and who paid has it unless the
  owner or the buyer was deleted (Market); an
  account has the password whose code was mailed, and Pro was given by a
  payment or a person (Membership); a position is settled at the barrier the market
  reached first, at a price as young as the cache allows, and a tile shows the
  simulated price only when no real one was known (PriceFeeds).
- `ScreensTrue`: no one is relayed, or in a room, who has no connection (Streams);
  the page is not left without asking, and one gesture peels one layer when
  Easy Trade was the first of the games to be opened (BackStack); a timer shows one
  result (GameScreens); one order is under way, a target is cheered once and a
  position page has its position (TradingScreens); a chart that was stopped has no
  open socket, and the listed sockets are the open ones (PriceFeeds).
- `NothingTakenBack`: a read receipt stays read, a decided signal stays decided, a
  licence stands until the account of its owner or its buyer is deleted.

*What a run leaves to others.* With `Funds` of one stake no user of `quantoption` has
two positions, so that no second one of a user is on a signal is shown by the theorem
only. `Plays` is empty in `easygames`; the picks are in `easygames_live` and in the
theorems. `quantumchat` has messages of two chunks; of three, see `UploadsEnd` in
section 5.

*What is simpler than the code.* `Tournaments!Join` leaves out the client's own key
(`tournaments.js:30`); what a replayed key does to a row is in Marketplace and Staking.
A bet of Easy Trade that waited for the lock of a round goes on with its old snapshot
(`easytrade.js:372`); `StartEntry` begins afresh then. `EasyTopUp` reads and posts in one
action (`easytrade.js:491-508`). `SkipMessageKeys` keeps both of two keys of one place in
a chain, where the map keeps the later one (`ratchet.go:446`); two differ only when
messages are repeated. `Streams!Produce` is one action though the media server is
awaited (`sfu.js:231-239`).

*Why these bounds are enough.* The hazards are races of two actors over one row,
key or wallet, so two sessions, workers or calls and one contended object show
them; three wallets are genesis, treasury and one user, and every posting of the
instance meets another on two of them. Amounts are the least that make shares,
limits and shortages differ: 20 is the least price with a whole burn share, and
a stake of 20 wins 37, for which a buffer of 17 is exactly one position's worth.
Of a limit the instance has the least value that can be passed: a flood cap,
a day's limit and a number of guesses of one, a board of two signals for three.
A page needs two calls in flight for answers to overtake each other, two
positions for one to be taken for the other, and two polls of one ticket; a
history of four entries holds one of each listener and one more. Three units of
time (`LastCandle`) are a price before, at and after a call. The bounds are
constants (`MaxTxns`, `MaxEscrows`, `MaxStakes`, `MaxRows`, `MaxSettling`,
`MaxSubs`, `MaxNow`, `MaxAttempts`, `MaxOrders`, `MaxPositions`, `MaxRounds`,
`MaxTickets`, `MaxPicks`, `MaxRituals`, `MaxAdjustments`, `MaxMoves`,
`MaxRestarts`, `MaxSent`, `MaxRepeats`, `LastMsg`, `MaxOwn`, `LastSession`,
`MaxCreating`, `LastSignal`, `LastMinute`, `LastCode`, `MaxGuesses`, `LastDay`,
`MaxGiven`, `MaxFlags`, `LastCandle`, `MaxCandles`, `MaxAt`, `MaxRewinds`, `LastTicket`, `MaxPolls`, `MaxCalls`,
`LastPosition`, `MaxTradeCalls`, `LastOpen`, `MaxSignalCalls`, and the sets of
actors) and only stop new work, never work that is under way. Deadlock is checked
where the system must be able to go on; the other runs stop when their bounds are
used up. Symmetry is used for safety only. One type invariant, `Ledger!TypeOK`, is
checked and proved as such; those of the other modules are parts of the inductive
invariants in the proof modules.

*Fairness.* `Ledger!Fairness`: Node continues a session whose statement has
returned, and PostgreSQL grants row locks and keys to those who wait for them in
turn, so the steps that wait are strongly fair. `QuantOption!Fairness`: calls go
on until they end; the keepers run on `setInterval` for ever, so `Sweep` and
`TopUp` are weakly fair; what waits for the lock of a signal is strongly fair,
because PostgreSQL queues the waiters. `EasyGames` and `Economy` say the same of
their calls, sweepers, top-up and locks, and that the clock goes on until a ritual
is mature; `QuantumChat` of the client, which sends its queries and gives up an attempt by
timers of its own, and of the node, which finishes what it has assembled and sweeps
by a ticker; not of the resolvers. No fairness is assumed
of users, webhooks, prices or restarts, and none of the renewal job, which the
repository does not schedule. Community has none: nothing there must happen.

## 4. The proofs

`tlapm` checks, for every value of the constants that the named assumptions allow,
that each property below is an invariant or an action property of its
specification. Each argument is an inductive invariant that TLC has checked on the
instance of the run as well.

**CommonTheorems** has what the proofs share: the sum of a function over a finite
set (`SumFunctionOnSet`) takes out any element (`SumTakesOut`), and from that
splits, changes, groups, is monotone and does not depend on names; and a sequence
that grows by one keeps what it had. The library's definition of a sum chooses an
order of the elements; here the order is shown to make no difference. The induction
is over the subsets of a finite set (`FiniteInduction`), stated with the set of those
for which the claim holds, since the provers cannot instantiate the operator
parameters of the library's induction theorems.

**Ledger_proofs** (`Ledger!Spec`, any number of sessions, wallets, keys and postings,
from `LedgerAssumption`):

- `TypeCorrect`. The type invariant is inductive.
- `NeverOverdrawn`. Not inductive: a commit publishes `work[s]`, so the invariant
  adds that no session's own view is overdrawn.
- `LocksAreOrdered` (exclusive row locks, taken in increasing ids, hence no cycle
  of waiting) from `LocksInv`, which ties `held[s]` to the statement of `s`.
- `KeysMoveMoneyOnce` from `KeysInv`: a key that an open transaction inserted is
  neither committed nor inserted by another.
- `FrozenWalletsStay` and `LedgerReplays` from `IsolationInv`: what a session sees
  of the rows it holds is the committed state plus its own entries, and every
  entry it wrote continues the one before. This is the argument that no update
  is lost, and rests on the exclusive locks.
- `HistoryIsAppendOnly` from the cases of a step (`StepCases`), and
  `ReversalsAreExact` from `ReversingInv` and `PrefixInv`: a session that reverses
  a transaction holds its row, and has written a prefix of its mirror image.
- `TokensConserved` from `NetInv`: a session's view of a balance it holds is the
  committed one and what its entries add to it. Grouped by balances these add up to
  what the entries add up to, which the check before COMMIT finds to be zero.
- `LedgerIsAtomic`, the refinement: `StepIsAtomic` maps each COMMIT to the one step
  of AtomicLedger that its job names, the statuses and flags to theirs, and every
  other step to a stutter. It needs all the invariants above: the net effect of the
  entries is that of the movements (`PrefixInv`), the published balances are the
  committed ones and the movements (`NetInv`), the key is new (`KeysInv`), the
  reversed transaction is not reversed yet (`ReversingInv`).

**Commerce_proofs** (from `CommerceAssumption`: the wallets are distinct accounts,
amounts are integers):

- `SplitIsExact`, `SettleableFrom20`: the split of a price is exact, and postable from
  20 units on.
- `EscrowsPayOnce`, `StakesReleaseOnce` tie every paying transaction to the
  status of its row.
- `FundsStayAccounted`: the balance of the escrow wallet is the prices of the open
  rows less those of the rows that nothing funded, and each locked balance likewise:
  differences of sums over rows. Each step adds a row, or moves one, and
  changes each sum at one point. It needs that every lock on the ledger was given
  to a row, so that a replayed purchase, whose second row names the same
  transaction, funds nothing (`MoneyInv`). It says by how much the wallet is short when
  a key was used twice, not that such a row cannot be paid: the code pays it
  (`EscrowIsBacked` in section 5).
- `TournamentsPayTheirOwn`: the shares of a prize fund are at most the fund
  (`PrizeTotal`), which was read from entries that are still there (`TourneyInv`),
  and the key of the settlement makes the prizes once.

**QuantOption_proofs**:

- `PositionsArePaidOnce`: a payout belongs to a settled position, and every settler
  takes an open one (`PayInv`).
- `OpenPositionsAwaitVerdicts`: a call on a signal holds its row while the signal is
  live; there is one such call at a time, which places no second position of its user
  (`WaitInv`). Without the row lock this is the step that fails.

**EasyGames_proofs** (from `GamesAssumption`), all from one invariant, `GamesInv`:
`BetsArePaidOnce`, `RoundsHaveOneVerdict`, `PoolStaysAccounted` and the action
property `AnswersStand`. Its part `CallsTyped` says that what a call has found out
still holds: the rounds it has locked are open, and no two calls lock one.
`PoolBalanced` counts tickets and picks by status, and a step moves one from one
count to another.

**Economy_proofs** (from `LadderAssumption`, `RewardAssumption`, `GiftAssumption`,
`RowsAssumption`, `FlowsAssumption`; the first two, about Billing, from
`BillingAssumption`):

- `OrdersAreCreditedOnce`: the key of an order belongs to its credit, and an order whose
  request is still under way has no invoice that anybody could credit (`OrderInv`).
- `SubscriptionsArePaidThrough`: the keys of a subscription's payments name periods it
  has left behind, so the next charge finds its key free and the count of payments
  grows with the period (`SubInv`).
- `RitualsReleaseOnce`: an ended ritual has one release and an ongoing one none, a
  member has one ongoing ritual, and the locked balance is what it locks (`RitualInv`).
- `StandingFollowsPayments`: a reward was paid once, under the key of its member and
  milestone; those that wait to be counted were paid. Unless two calls for one reward
  have overlapped, none of those that wait has been counted, and with what is counted
  already they add up to no more than what was paid (`EarnInv`). That the code counts
  a reward twice when they did is `ReplaysCountOnce` in section 5.
- `PostingsWaitInOrder`: what an open transaction that only posts still wants comes
  after all that it holds, in one order of rows (`LocksInv`); in a set of such
  transactions that wait for each other, the one that waits for the last row waits
  for nobody. The locks of one posting are in that order because a rising
  arrangement of two wallets exists (`LocksOfTwo`), which is what lockWallets chooses.
- `EmissionsMoveOnce`: a correction on the ledger is that of an executed request, a
  gift carries the key of its receiver, and a run of the airdrop knows whom it has
  given (`EmissionInv`).

**QuantumChat_proofs** (from `BucketAssumption`, `WaitingAssumption`, `SkipAssumption`):

- `RatesAreBounded`: of each stretch of time up to now, what a client was allowed and
  what it could take now add up to at most a burst and the stretch
  (`BucketsBounded`). A bucket that was dropped had been idle for long enough to be
  full again, so making it anew gives nothing (`IdleFor >= Burst`).
- `MessagesAreQueuedOnce`: until the node restarts, a message it has queued is
  remembered, and no query still assembles it a second time (`NodeInv`).
- `KeysAreForgotten`, by the lengths of root keys: each turn of the ratchet makes a
  longer root, those of the sending and of the receiving chain of one party differ
  in parity, and a key whose root is shorter than the current one, or whose number
  its chain has passed, is not derived again; a stored key is removed when it is
  used (`RatchetInv`). The keys are symbols, so this is about which keys a session can
  reach and not about the strength of the primitives.
- `LateMessagesOpen`, the converse: each key not yet used is still within reach
  (`LateInv`). One of two parties is ahead: it has turned to the newest public key of
  the other, and the other not yet to its own; a message that arrives either goes on
  in the chain, or turns it, or finds its key stored (`ReadingGoesOn`, `TurningReads`,
  `OpeningReads`). A session keeps the keys of exactly the messages that are missing
  below what it has passed (`Reads`); these and the ones it would skip now are
  distinct messages that were written and have not arrived, so they are at most
  `MaxSkip` while no more were written, and none is refused or evicted
  (`SkippingReads`, by counting). The two parties agree on a secret because the pair
  of keys that makes it has no order.

**Community_proofs** (from `ScoreboardAssumption`, `FeedAssumption`, `StoreAssumption`,
`AccessAssumption`, `PricesAssumption`, `AssistantAssumption`). Each part has an
inductive invariant of its own, which the steps of the other parts leave alone:

- `SignalsAreKept`: a signal with an id is never decided by a price, and an id stands
  for a kept signal of that id (`ScoreInv`); a request that handles an alert is the
  only one with its key, which the log has as accepted and which is not published
  before the row is stored; a failure after that leaves accepted or error
  (`IntakeInv`).
- `RecordsDoAgree`: the rows are ahead of the counters only in the transaction that
  holds the lock of the post, by the one row it has added, and a like or comment that went with an account is of a
  deleted user and not there any more (`FeedInv`); who buys holds
  the lock of the product, read its price there and has no licence (`StoreInv`); a
  code that is pending, or read by a call, was mailed for the password beside it
  (`SignUpInv`); the days of Pro that a row or a call has read were given
  (`AccessInv`); the caches have what the market did at the times they carry, and a
  settled position was settled at the first barrier of the candles since it was
  opened (`PricesInv`, `DealInv`); a simulated tile was asked for before the first
  real price (`StripInv`).
- `ConversationsAreKept`: nothing belongs to a message that is gone (`ChatInv`); while
  nothing was erased from a chat with the assistant, its questions of each age are at
  least its answers of that age and the calls that wait for one (`AssistantInv`); a
  message about to be hidden has a flag, or is gone (`ReportsInv`).
- `ScreensAreTrue`: who is in a room, relays, watches or is shown online is connected
  (`StreamInv`); a game whose page is closed has no depth, and the history never left
  the page unasked (`BackInv`); of each timer one call at most will show a result, and
  none when one was shown (`EasyInv`, `PickInv`); an order in flight keeps its page
  busy, and is the only one (`PageInv`, `ScreenInv`); a celebrated target is noted
  (`CheersInv`); a stopped chart has no open socket, and the list of sockets is exactly
  those that are open (`ChartsInv`).
- `NothingIsTakenBack`, an action property, from the same invariants: "read" stays
  until its message goes, a decided signal keeps its outcome, and a licence is given
  at the price of an active product and stays, but for the deletion of an account; an
  owner who is deleted has left no product that could be bought (`StoreInv`).

Where a proof could not go on because a definition was wrong, the definition was
changed: `NavHears` of BackStack was a CASE whose arms overlapped while a confirmed
exit was under way and a dialog was open, so that either could be taken; it now asks
for the confirmed exit first, as `backnav.js` does.

Nothing is assumed but these named assumptions on constants, which TLC evaluates in
the runs. They say that system wallets are accounts and distinct from those of
users, that amounts, limits and times are integers or naturals, that sets of actors
which are summed over are finite, and that a tag for "none" or for "nobody" is none of
the keys, of the readers or of the ids.

For the proofs the postings are built with `Credit` and `Merged`, which keep the
functions they make visible to the prover; the order of the row locks is likewise
chosen among the functions on the wallets and not sorted by recursion.

*Only model-checked*: liveness (`CallsEnd`, `MaturedSettles`, `StakesEnd`, `Progress`,
`NothingStays`), which needs ENABLED and so is beyond the prover. The statements of
section 5 are only refuted, by TLC. What the recursive functions of the
modules compute for every input is not proved.

## 5. What disagrees with the code's own words

`quantoption_stuck` is the one run that expects a violation. The other statements
that the code does not keep are definitions of the modules, with *Does not hold* in
their comment, and no run of their own; each has been seen violated, and putting
it as INVARIANT (or PROPERTY `[][...]_vars` for one with primes) into the cfg of
its module's run, with the larger bounds that the table names, shows how. `findings`
in `PROJECT.json` has the line of each and the sentence it contradicts.

| Module | Stated, and not kept |
|---|---|
| Ledger, Commerce, Billing | `RepeatedKeyReplays`, `PurchaseRetriesAreNoOps`, `EscrowIsBacked`, `TournamentPaysTheWholePool`, `RenewalNeverDoubleCharges` |
| QuantOption, EasyTrade, EasyGames | `Solvent`, `ClosedIsHandled`, `NoStrandedTicket`, `SharedSolvent` |
| Leagues, Emission, RowLocks | `RitualsClimb`, `ReplaysCountOnce`, `SupplyCapped`, `NoDeadlock` |
| DnsChat, QuantumChat, Ratchet | `DupWasQueued`, `AckedIsReturned`, `UploadsEnd` (PROPERTY; `LastChunk` 3, `MaxAttempts` 1, `MaxRestarts` 0), `RepeatHarmless` (`MaxSkip` 3), `SkippedBounded` (`MaxSkip` 1, `MaxSent` 5) |
| Chats | `RoomOfMembers`, `MarksRise` (`LastMsg` 2), `OneAssistant`, `UserRationed`, `HiddenIsUnlisted`, `VerdictStands` |
| Streams | `OnlineShown`, `OneLive` (two `Starts`, `LastSession` 2), `BroadcasterPresent`, `StreamsAreLive`, `NoStrays` |
| Signals | `EventsReachTheirOwn`, `NewestFound` (two `Hooks`, two `Exts`), `ExpiredStays`, `PricedIsDecided`, `FloodCapped` (two signals in `Bodies`), `AcceptedIsPublished`, `ErrorIsUnpublished`, `RepeatsAreOne` |
| Market | `RowsCounted`, `FollowersCounted` (two `Authors`), `NoFollowDeadlock`, `PaidIsKept`, `SourceAvailable`, `CreatorRewarded` |
| Membership | `GuessesLimited`, `AccountWelcomed`, `WizardsSpared`, `RenewalStands`, `PaidOncePerPayment` |
| BackStack | `OneLayerAlways`, `AsksAtRoot`, `ExitsWhenConfirmed`, `RewindsAreOwn` |
| PriceFeeds | `RefundedUntouched` (with `LastCandle` and `TimeLimit` 3), `DecidedInTime`, `TileHolds` |
| GameScreens, TradingScreens | `PendingIsPolled` (`LastTicket` 2), `SetupStays`, `ExitsWhatIsShown`, `ResultShownOnce`, `ClosedIsQuiet`, `ExitsItsPosition`, `ChartIsOwn`, `ScreenIsChosen` |

They are modelled as the code has them, and the other properties hold beside them.

## 6. What is not modelled

Wording, formats, HTTP, authentication, pagination and views; the decimals below
the unit (`decimal.js` computes in integers, and the models in integers of a
larger unit); wallet status in the flows (`Ledger` has it); the size of the
connection pool; time, which appears as "the period has ended" or "the limit has
passed"; events, which the ledger emits before an enclosing transaction commits.

- Transfers, tips, spending, AI charges, burns and referrals are one posting each.
- The ambient prices of Quant Option, a function of the seed and the time.
- The wire format, the identities and the primitives of the Quantum chat: functions
  of bytes.
- Signal channels, signals published by hand, broadcasts, logs, permissions,
  profiles, uploads, mail, translation: single statements or calls of other services.
- The drawing and the forms of the browser. The pages are modelled where timers and
  late answers meet what the member does; the rest shows what one call returned.

The components listed as `partly` or `not_modelled` have their reasons in
`PROJECT.json`.

## 7. Plan

Possible extensions:

1. The abstract "a stake is escrowed and answered once", implemented by QuantOption
   and EasyTrade.
2. Edits and search of messages; the pages of the market and of the console.

The flows use Postings; helpers are recursive functions or folds, so that every
module can be proved about.
