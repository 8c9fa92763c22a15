------------------------------- MODULE Signals -------------------------------
(***************************************************************************)
(* The scoreboard of signals that src/services/signal-scoreboard.js keeps  *)
(* in memory: signals found in messages and signals that arrive at the     *)
(* webhook, decided by prices or, when the operator's bot names them, by   *)
(* its events only.  The signals are numbered in the order they were       *)
(* created and are of one symbol and direction: long, entered at 2, with   *)
(* the target at 3 and the stop at 1.                                      *)
(***************************************************************************)
EXTENDS Integers, FiniteSets

LOCAL INSTANCE FiniteSetsExt

CONSTANTS
  LastSignal,  \* bound: signals created
  Hooks,       \* those of the webhook; the others are messages
  Exts,        \* ids the bot gives, which it may repeat: numbers that are no signal's, nor ByPrice
  MAX_SIGNALS

ASSUME ScoreboardAssumption == LastSignal \in Nat /\ Hooks \subseteq 1..LastSignal /\ Exts \intersect (-1..LastSignal) = {} /\ MAX_SIGNALS \in Nat \ {0}

VARIABLES
  created, \* signals created so far
  sig,     \* signals: of each kept one its ext, status, maxTp, slHit, closed and, as history, who decided it
  price,   \* prices: the last one known, or 0
  byExtId  \* the signal that each id of the bot stands for

scoreboardVars == <<created, sig, price, byExtId>>

Prices == 1..3
Kept == DOMAIN sig
NoExt == 0
ByPrice == -1
New(x) == [ext |-> x, status |-> "open", maxTp |-> 0, slHit |-> FALSE, closed |-> FALSE, by |-> NoExt]

ScoreboardInit ==
  /\ created = 0
  /\ sig = <<>>
  /\ price = 0
  /\ byExtId = <<>>

\* Faulty: a price decides also what the bot declares.
ResolveOneAny(s, p) ==
  IF s.closed \/ s.status # "open" THEN s
  ELSE IF p = 3 THEN [s EXCEPT !.status = "win", !.maxTp = 1, !.closed = TRUE, !.by = ByPrice]
  ELSE IF p = 1 THEN [s EXCEPT !.status = "loss", !.slHit = TRUE, !.closed = TRUE, !.by = ByPrice]
  ELSE s

\* A price decides an open signal without an id of the bot.
ResolveOne(s, p) ==
  IF s.closed \/ s.status # "open" \/ s.ext # NoExt THEN s
  ELSE IF p = 3 THEN [s EXCEPT !.status = "win", !.maxTp = Max({@, 1}), !.closed = TRUE, !.by = ByPrice]
  ELSE IF p = 1 THEN [s EXCEPT !.status = "loss", !.slHit = TRUE, !.closed = TRUE, !.by = ByPrice]
  ELSE s

\* trimIfNeeded: the newest stay.  An id of the bot goes with any signal that had it.
Trimmed(ids) == {i \in ids : Cardinality({j \in ids : j > i}) < MAX_SIGNALS}
Store(all, ext) ==
  LET stay == Trimmed(DOMAIN all)
      gone == {all[i].ext : i \in DOMAIN all \ stay}
  IN /\ sig' = [i \in stay |-> all[i]]
     /\ byExtId' = [x \in DOMAIN ext \ gone |-> ext[x]]

With1(f, key, value) == [x \in DOMAIN f \union {key} |-> IF x = key THEN value ELSE f[x]]

Expired(s) == IF s.status = "open" THEN [s EXCEPT !.status = "expired"] ELSE s
StaleUpTo(all, cutoff) == [i \in DOMAIN all |-> IF i <= cutoff THEN Expired(all[i]) ELSE all[i]]

\* A message is posted; the scoreboard finds it when it is rebuilt.
PostMessage ==
  /\ created < LastSignal /\ created + 1 \notin Hooks
  /\ created' = created + 1
  /\ UNCHANGED <<sig, price, byExtId>>

\* ingestWebhook: from an alert, whose entry is a price too, or from the tag of a text.
IngestWebhook(x, tick) ==
  LET now == IF tick THEN 2 ELSE price
      next == created + 1
  IN /\ created < LastSignal /\ next \in Hooks
     /\ created' = next
     /\ price' = now
     /\ Store(With1(sig, next, ResolveOne(New(x), now)),
              IF x = NoExt THEN byExtId ELSE With1(byExtId, x, next))

\* rebuildFromMessages: the messages that are still there, and not yet known, come in as
\* open; then what is old expires.
Rebuild(there, cutoff) ==
  LET come == there \ Kept
      all == [i \in Kept \union come |-> IF i \in Kept THEN sig[i] ELSE ResolveOne(New(NoExt), price)]
  IN /\ there \subseteq (1..created) \ Hooks
     /\ Store(StaleUpTo(all, cutoff), byExtId)
     /\ UNCHANGED <<created, price>>

ExpireStale(cutoff) ==
  /\ sig' = StaleUpTo(sig, cutoff)
  /\ UNCHANGED <<created, price, byExtId>>

\* A price of the webhook for prices, or of the poller.
SetPrice(p) ==
  /\ price' = p
  /\ sig' = [i \in Kept |-> ResolveOne(sig[i], p)]
  /\ UNCHANGED <<created, byExtId>>

\* pollOnce asks Binance while a signal is open; when the answer comes, it may be closed.
PollAnswers(p) == Kept # {} /\ SetPrice(p)

\* The signal an event is for: by the bot's id, then by ours, then the newest open one.
Found(ref) ==
  IF ref \in DOMAIN byExtId THEN {byExtId[ref]}
  ELSE IF ref \in Kept THEN {ref}
  ELSE LET open == {i \in Kept : sig[i].status = "open" /\ ~sig[i].closed} IN IF open = {} THEN {} ELSE {Max(open)}

Decide(s, status, ref) == [s EXCEPT !.closed = TRUE, !.status = status, !.by = ref]

\* What an event does to a signal that is not decided.
Outcome(s, kind, result, ref) ==
  CASE kind = "close" -> Decide(s, IF result # "none" THEN result ELSE IF s.maxTp >= 1 THEN "win" ELSE "expired", ref)
    [] kind = "sl" -> [Decide(s, IF result # "none" THEN result ELSE IF s.maxTp >= 1 THEN "win" ELSE "loss", ref) EXCEPT !.slHit = TRUE]
    [] kind = "tp1" -> [s EXCEPT !.maxTp = Max({@, 1})]
    [] kind = "tp3" -> [Decide(s, IF result = "loss" THEN "loss" ELSE "win", ref) EXCEPT !.maxTp = 3]

\* Faulty: an event after the end of a signal counts.
ApplyKindAlways(s, kind, result, ref) == Outcome(s, kind, result, ref)

\* applyKindToSig; entries and break-evens only note a time.
ApplyKind(s, kind, result, ref) == IF s.closed THEN s ELSE Outcome(s, kind, result, ref)

\* The price that an event of the bot comes with; zero is none.
PriceAt(kind) == CASE kind = "close" -> 0 [] kind = "sl" -> 1 [] kind \in {"tp1", "tp3"} -> 3

\* applyEvent: its price, if any, is noted, but decides no other signal.
ApplyEvent(ref, kind, result) ==
  /\ \E i \in Found(ref) : sig' = [sig EXCEPT ![i] = ApplyKind(@, kind, result, ref)]
  /\ price' = IF PriceAt(kind) = 0 THEN price ELSE PriceAt(kind)
  /\ UNCHANGED <<created, byExtId>>

\* Nothing is stored: a restart forgets all.
Forget ==
  /\ sig' = <<>>
  /\ byExtId' = <<>>
  /\ price' = 0
  /\ UNCHANGED created

ScoreboardNext ==
  \/ PostMessage
  \/ \E x \in Exts \union {NoExt}, tick \in BOOLEAN : IngestWebhook(x, tick)
  \/ \E there \in SUBSET ((1..LastSignal) \ Hooks), cutoff \in 0..created : Rebuild(there, cutoff)
  \/ \E cutoff \in 1..created : ExpireStale(cutoff)
  \/ \E p \in Prices : SetPrice(p) \/ PollAnswers(p)
  \/ \E ref \in Exts \union (1..LastSignal) \union {NoExt}, kind \in {"tp1", "tp3", "sl", "close"},
        result \in {"none", "loss"} : ApplyEvent(ref, kind, result)
  \/ Forget

------------------------------------------------------------------------------
\* What the tables count under a status.
WithStatus(status) == {i \in Kept : sig[i].status = status}

\* A signal that was won or lost stays so while it is kept, whatever prices, repeated
\* events, rebuilds and expiries follow.
DecidedStays ==
  \A status \in {"win", "loss"} : WithStatus(status) \intersect Kept' \subseteq WithStatus(status)'

\* What the bot manages is decided by its events only, and its ids stand for signals
\* that are kept and have them.
EventsAuthoritative ==
  /\ \A i \in Kept : sig[i].ext # NoExt => sig[i].by # ByPrice
  /\ \A x \in DOMAIN byExtId : byExtId[x] \in Kept /\ sig[byExtId[x]].ext = x

\* Does not hold: an event decides no signal but the one it names.
EventsReachTheirOwn ==
  \A i \in Kept : sig[i].ext # NoExt /\ sig[i].by \in Exts => sig[i].by = sig[i].ext

\* Does not hold: an expired signal is never counted as a win or a loss.
ExpiredStays == \A i \in Kept \intersect Kept' : sig[i].status = "expired" => sig'[i].status = "expired"

\* Does not hold: the bot's id finds the newest signal that has it.
NewestFound == \A i \in Kept : sig[i].ext # NoExt => sig[i].ext \in DOMAIN byExtId

\* Does not hold: an open signal that prices manage has not been passed by the price.
PricedIsDecided == \A i \in Kept : sig[i].ext = NoExt /\ sig[i].status = "open" => price \in {0, 2}

------------------------------------------------------------------------------
(***************************************************************************)
(* The webhook for alerts of src/routes/webhooks.js: a request claims its  *)
(* body for the minute with a unique key of webhook_logs, is counted       *)
(* against the flood of its symbol, and is published in the table of       *)
(* signals and in a channel.  Requests of one symbol interleave; the       *)
(* process may end between the statements.                                 *)
(***************************************************************************)
CONSTANTS
  Requests,   \* that are handled at one time
  Bodies,     \* of alerts
  Texts,      \* bodies that are text and no signal
  Channels,   \* whose tokens the requests carry
  FloodCap,   \* signals of a symbol per minute: 10 in the code
  LastMinute  \* bound: minutes that pass

VARIABLES
  minute,
  log,       \* webhook_logs: status by key, which is a body and a minute
  published, \* how often each key was published
  request    \* how far each request is, with its key and its channel

intakeVars == <<minute, log, published, request>>

Keys == Bodies \X (0..LastMinute)
NoRequest == [at |-> "idle"]

IntakeInit ==
  /\ minute = 0
  /\ log = <<>>
  /\ published = <<>>
  /\ request = [r \in Requests |-> NoRequest]

Log(key, status) == [k \in DOMAIN log \union {key} |-> IF k = key THEN status ELSE log[k]]
Times(key) == IF key \in DOMAIN published THEN published[key] ELSE 0

Again(key) == [k \in DOMAIN published \union {key} |-> Times(k) + (IF k = key THEN 1 ELSE 0)]

MinutePasses ==
  /\ minute < LastMinute
  /\ minute' = minute + 1
  /\ UNCHANGED <<log, published, request>>

\* A request without the right signature, or whose body is no signal, is refused; the
\* log keeps its key.
Reject(b) ==
  /\ <<b, minute>> \notin DOMAIN log
  /\ log' = Log(<<b, minute>>, "rejected")
  /\ UNCHANGED <<minute, published, request>>

\* Faulty: looks whether the alert was published before it claims the key.
ClaimUnlessPublished(r, b, c) ==
  /\ request[r] = NoRequest
  /\ Times(<<b, minute>>) = 0
  /\ log' = Log(<<b, minute>>, "accepted")
  /\ request' = [request EXCEPT ![r] = [at |-> "claimed", key |-> <<b, minute>>, channel |-> c]]
  /\ UNCHANGED <<minute, published>>

\* The key is claimed by one INSERT; a request that finds it taken is a duplicate, also
\* when it is for another channel or the first was refused.
Claim(r, b, c) ==
  /\ request[r] = NoRequest
  /\ <<b, minute>> \notin DOMAIN log
  /\ log' = Log(<<b, minute>>, "accepted")
  /\ request' = [request EXCEPT ![r] = [at |-> "claimed", key |-> <<b, minute>>, channel |-> c]]
  /\ UNCHANGED <<minute, published>>

\* coerceSignal and validateSignal: a symbol, a side and numbers are found in the body.
IsSignal(b) == b \notin Texts

InMinute == {k \in DOMAIN published : k[2] = minute /\ IsSignal(k[1])}
Lately == {k \in DOMAIN published : k[2] \in {minute, minute - 1} /\ IsSignal(k[1])}

\* The flood is counted, and the row inserted later.  The sixty seconds before now are of
\* this minute of the keys and the one before, whose signals may be young enough.
CountFlood(r) ==
  /\ request[r].at = "claimed" /\ IsSignal(request[r].key[1])
  /\ \/ /\ Cardinality(Lately) >= FloodCap
        /\ log' = Log(request[r].key, "rate_limited")
        /\ request' = [request EXCEPT ![r] = NoRequest]
     \/ /\ Cardinality(InMinute) < FloodCap
        /\ request' = [request EXCEPT ![r].at = "counted"]
        /\ UNCHANGED log
  /\ UNCHANGED <<minute, published>>

\* The row of signals.
Publish(r) ==
  /\ request[r].at = "counted"
  /\ published' = Again(request[r].key)
  /\ request' = [request EXCEPT ![r].at = "stored"]
  /\ UNCHANGED <<minute, log>>

\* A text with no signal in it is posted as it is, without the count, unless nothing is
\* left of it or the channel has nobody to post it.
PassThrough(r) ==
  /\ request[r].at = "claimed" /\ ~IsSignal(request[r].key[1])
  /\ \/ published' = Again(request[r].key) /\ request' = [request EXCEPT ![r].at = "stored"]
     \/ UNCHANGED published /\ request' = [request EXCEPT ![r] = NoRequest]
  /\ UNCHANGED <<minute, log>>

\* The statements after the row succeed: the log names the signal, the post is in the
\* channel (or its failure is only logged), or the message of a text was read back.
FinishRequest(r) ==
  /\ request[r].at = "stored"
  /\ request' = [request EXCEPT ![r] = NoRequest]
  /\ UNCHANGED <<minute, log, published>>

\* A statement fails, before the row or after it.  The log says so and keeps the key; it
\* stays as it was when that fails too, and when it was the count that failed.
FailRequest(r) ==
  /\ request[r].at \in {"claimed", "counted", "stored"}
  /\ \/ UNCHANGED log
     \/ /\ request[r].at = "claimed" => ~IsSignal(request[r].key[1])
        /\ log' = Log(request[r].key, "error")
  /\ request' = [request EXCEPT ![r] = NoRequest]
  /\ UNCHANGED <<minute, published>>

EndProcess ==
  /\ request' = [r \in Requests |-> NoRequest]
  /\ UNCHANGED <<minute, log, published>>

IntakeNext ==
  \/ MinutePasses \/ EndProcess
  \/ \E b \in Bodies : Reject(b)
  \/ \E r \in Requests :
       \/ \E b \in Bodies, c \in Channels : Claim(r, b, c)
       \/ CountFlood(r) \/ Publish(r) \/ PassThrough(r) \/ FinishRequest(r) \/ FailRequest(r)

------------------------------------------------------------------------------
\* An alert is published at most once a minute however often and however fast it is
\* sent and whichever statement fails, and never under a row that refused it.
AlertOnce ==
  /\ \A k \in DOMAIN published : published[k] <= 1
  /\ \A k \in DOMAIN published : k \in DOMAIN log /\ log[k] \in {"accepted", "error"}

\* Does not hold: an alert whose row of the log says error was not published.
ErrorIsUnpublished == \A k \in DOMAIN log : log[k] = "error" => Times(k) = 0

\* Does not hold: in a minute no more signals of a symbol are published than the cap.
FloodCapped == Cardinality(InMinute) <= FloodCap

\* Does not hold: an alert that is accepted is published when its request has ended.
AcceptedIsPublished ==
  \A k \in DOMAIN log : log[k] = "accepted" /\ (\A r \in Requests : request[r].at = "idle") => Times(k) = 1

\* Does not hold: identical alerts a moment apart are treated as one.
RepeatsAreOne ==
  \A b \in Bodies, t \in 1..LastMinute : ~(<<b, t>> \in DOMAIN published /\ <<b, t - 1>> \in DOMAIN published)
==============================================================================
