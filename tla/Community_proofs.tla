-------------------------- MODULE Community_proofs --------------------------
(***************************************************************************)
(* Proofs about Community.  The parts run side by side, so each has an     *)
(* inductive invariant of its own, which its actions keep and which the    *)
(* steps of the other parts leave alone; what the properties of Community  *)
(* say follows part by part.                                               *)
(***************************************************************************)
EXTENDS Community, CommonTheorems

------------------------------------------------------------------------------
(* The scoreboard of signals                                                 *)

\* A record of the scoreboard, whatever its fields say.
IsSignalRow(s) ==
  s = [ext |-> s.ext, status |-> s.status, maxTp |-> s.maxTp, slHit |-> s.slHit, closed |-> s.closed, by |-> s.by]

\* A kept signal: what the bot manages is decided by an event, and a decided one is closed.
Sound(s) ==
  /\ IsSignalRow(s)
  /\ s.ext # NoExt => s.by # ByPrice
  /\ s.status \in {"win", "loss"} => s.closed

ScoreInv ==
  /\ created \in Nat
  /\ Kept \subseteq 1..created
  /\ \A i \in Kept : Sound(sig[i])
  /\ \A x \in DOMAIN byExtId : byExtId[x] \in Kept /\ sig[byExtId[x]].ext = x

\* What happens to one signal: it stays sound, keeps its id and, once decided, its status.
Follows(s, t) ==
  /\ Sound(t) /\ t.ext = s.ext
  /\ s.status \in {"win", "loss"} => t.status = s.status

LEMMA SameFollows == ASSUME NEW s, Sound(s) PROVE Follows(s, s)
BY DEF Follows

LEMMA NewIsSound ==
  ASSUME NEW x
  PROVE  Sound(New(x)) /\ New(x).ext = x /\ New(x).status = "open" /\ New(x).closed = FALSE
BY DEF Sound, New, IsSignalRow, NoExt, ByPrice

LEMMA ResolveOneFollows ==
  ASSUME NEW s, Sound(s), NEW p
  PROVE  Follows(s, ResolveOne(s, p))
<1>1. CASE s.closed \/ s.status # "open" \/ s.ext # NoExt \/ (p # 3 /\ p # 1)
  BY <1>1, SameFollows DEF ResolveOne
<1>2. CASE /\ ~(s.closed \/ s.status # "open" \/ s.ext # NoExt)
           /\ p = 3
  <2>1. PICK high : ResolveOne(s, p) = [s EXCEPT !.status = "win", !.maxTp = high, !.closed = TRUE, !.by = ByPrice]
    BY <1>2 DEF ResolveOne
  <2>2. QED
    BY <1>2, <2>1 DEF Follows, Sound, IsSignalRow
<1>3. CASE /\ ~(s.closed \/ s.status # "open" \/ s.ext # NoExt)
           /\ p = 1
  BY <1>3 DEF ResolveOne, Follows, Sound, IsSignalRow
<1>4. QED
  BY <1>1, <1>2, <1>3

LEMMA NewResolved ==
  ASSUME NEW x, NEW p
  PROVE  Sound(ResolveOne(New(x), p)) /\ ResolveOne(New(x), p).ext = x
<1>1. PICK s : s = New(x)
  OBVIOUS
<1>2. Sound(s) /\ s.ext = x
  BY <1>1, NewIsSound
<1>3. Follows(s, ResolveOne(s, p))
  BY <1>2, ResolveOneFollows
<1>4. QED
  BY <1>1, <1>2, <1>3 DEF Follows

LEMMA ExpiredFollows ==
  ASSUME NEW s, Sound(s)
  PROVE  Follows(s, Expired(s))
BY DEF Follows, Sound, IsSignalRow, Expired

LEMMA ApplyKindFollows ==
  ASSUME NEW s, Sound(s), NEW kind \in {"tp1", "tp3", "sl", "close"}, NEW result, NEW ref, ref # ByPrice
  PROVE  Follows(s, ApplyKind(s, kind, result, ref))
<1>1. CASE s.closed
  BY <1>1, SameFollows DEF ApplyKind
<1>2. CASE ~s.closed
  <2>1. s.status \notin {"win", "loss"}
    BY <1>2 DEF Sound
  <2>2. ApplyKind(s, kind, result, ref) = Outcome(s, kind, result, ref)
    BY <1>2 DEF ApplyKind
  <2>3. CASE kind = "close"
    <3>1. PICK status : Outcome(s, kind, result, ref) = Decide(s, status, ref)
      BY <2>3 DEF Outcome
    <3>2. QED
      BY <2>1, <2>2, <3>1 DEF Follows, Sound, IsSignalRow, Decide
  <2>4. CASE kind = "sl"
    <3>1. PICK status : Outcome(s, kind, result, ref) = [Decide(s, status, ref) EXCEPT !.slHit = TRUE]
      BY <2>4 DEF Outcome
    <3>2. QED
      BY <2>1, <2>2, <3>1 DEF Follows, Sound, IsSignalRow, Decide
  <2>5. CASE kind = "tp1"
    <3>1. PICK high : Outcome(s, kind, result, ref) = [s EXCEPT !.maxTp = high]
      BY <2>5 DEF Outcome
    <3>2. QED
      BY <2>1, <2>2, <3>1 DEF Follows, Sound, IsSignalRow
  <2>6. CASE kind = "tp3"
    <3>1. PICK status : Outcome(s, kind, result, ref) = [Decide(s, status, ref) EXCEPT !.maxTp = 3]
      BY <2>6 DEF Outcome
    <3>2. QED
      BY <2>1, <2>2, <3>1 DEF Follows, Sound, IsSignalRow, Decide
  <2>7. QED
    BY <2>3, <2>4, <2>5, <2>6
<1>3. QED
  BY <1>1, <1>2

\* Storing what follows from the kept signals, and new ones, keeps the ids right when they
\* were: an id goes with any signal that leaves.
LEMMA StoreKeeps ==
  ASSUME ScoreInv, NEW all, NEW ids,
         created' \in Nat, created <= created',
         Kept \subseteq DOMAIN all, DOMAIN all \subseteq 1..created',
         \A i \in Kept : Follows(sig[i], all[i]),
         \A i \in DOMAIN all : Sound(all[i]),
         \A x \in DOMAIN ids : ids[x] \in DOMAIN all /\ all[ids[x]].ext = x,
         Store(all, ids)
  PROVE  ScoreInv' /\ DecidedStays
<1> DEFINE stay == Trimmed(DOMAIN all)
           gone == {all[i].ext : i \in DOMAIN all \ stay}
<1>1. /\ sig' = [i \in stay |-> all[i]]
      /\ byExtId' = [x \in DOMAIN ids \ gone |-> ids[x]]
  BY DEF Store
<1>2. stay \subseteq DOMAIN all
  BY DEF Trimmed
<1> HIDE DEF stay
<1>3. Kept' = stay /\ \A i \in stay : sig'[i] = all[i]
  BY <1>1 DEF Kept
<1>4. ASSUME NEW x \in DOMAIN byExtId'
      PROVE  byExtId'[x] \in Kept' /\ sig'[byExtId'[x]].ext = x
  <2>1. x \in DOMAIN ids /\ x \notin gone /\ byExtId'[x] = ids[x]
    BY <1>1
  <2>2. ids[x] \in DOMAIN all /\ all[ids[x]].ext = x
    BY <2>1
  <2>3. ids[x] \in stay
    BY <2>1, <2>2
  <2>4. QED
    BY <1>3, <2>1, <2>2, <2>3
<1>5. ScoreInv'
  BY <1>2, <1>3, <1>4 DEF ScoreInv
<1>6. DecidedStays
  BY <1>2, <1>3 DEF DecidedStays, WithStatus, Follows
<1>7. QED
  BY <1>5, <1>6

\* So does a step that changes kept signals only.
LEMMA ChangeKeeps ==
  ASSUME ScoreInv, created' = created, byExtId' = byExtId, Kept' = Kept,
         \A i \in Kept : Follows(sig[i], sig'[i])
  PROVE  ScoreInv' /\ DecidedStays
<1>1. ScoreInv'
  BY DEF ScoreInv, Follows
<1>2. DecidedStays
  BY DEF DecidedStays, WithStatus, Follows
<1>3. QED
  BY <1>1, <1>2

LEMMA ScoreboardKept == ASSUME ScoreInv, ScoreboardNext PROVE ScoreInv' /\ DecidedStays
<1>1. CASE PostMessage
  <2>1. created' = created + 1 /\ sig' = sig /\ byExtId' = byExtId /\ Kept' = Kept
    BY <1>1 DEF PostMessage, Kept
  <2>2. ScoreInv'
    BY <2>1 DEF ScoreInv
  <2>3. DecidedStays
    BY <2>1 DEF DecidedStays, WithStatus
  <2>4. QED
    BY <2>2, <2>3
<1>2. ASSUME NEW x \in Exts \union {NoExt}, NEW tick \in BOOLEAN, IngestWebhook(x, tick)
      PROVE  ScoreInv' /\ DecidedStays
  <2> DEFINE now1 == IF tick THEN 2 ELSE price
             next == created + 1
             came == ResolveOne(New(x), now1)
             all == With1(sig, next, came)
             ids == IF x = NoExt THEN byExtId ELSE With1(byExtId, x, next)
  <2>1. created' = next /\ Store(all, ids)
    BY <1>2 DEF IngestWebhook
  <2>2. Sound(came) /\ came.ext = x
    BY NewResolved
  <2>3. created \in Nat /\ Kept \subseteq 1..created /\ next \notin Kept
    BY DEF ScoreInv
  <2> HIDE DEF came
  <2>4. /\ DOMAIN all = Kept \union {next}
        /\ all[next] = came
        /\ \A i \in Kept : all[i] = sig[i]
    BY <2>3 DEF With1, Kept
  <2>5. ASSUME NEW y \in DOMAIN ids
        PROVE  ids[y] \in DOMAIN all /\ all[ids[y]].ext = y
    <3>1. CASE x # NoExt /\ y = x
      BY <2>2, <2>4, <3>1 DEF With1
    <3>2. CASE ~(x # NoExt /\ y = x)
      <4>1. y \in DOMAIN byExtId /\ ids[y] = byExtId[y]
        BY <3>2 DEF With1
      <4>2. byExtId[y] \in Kept /\ sig[byExtId[y]].ext = y
        BY <4>1 DEF ScoreInv
      <4>3. QED
        BY <2>4, <4>1, <4>2
    <3>3. QED
      BY <3>1, <3>2
  <2>6. \A i \in Kept : Follows(sig[i], all[i])
    BY <2>4, SameFollows DEF ScoreInv
  <2>7. \A i \in DOMAIN all : Sound(all[i])
    BY <2>2, <2>4 DEF ScoreInv
  <2> HIDE DEF all, ids
  <2>8. /\ created' \in Nat /\ created <= created'
        /\ Kept \subseteq DOMAIN all /\ DOMAIN all \subseteq 1..created'
    <3>1. created' = created + 1 /\ created \in Nat
      BY <2>1, <2>3
    <3>2. \A i \in 1..created : i \in 1..created'
      BY <3>1
    <3>3. created' \in 1..created' /\ created' \in Nat /\ created <= created'
      BY <3>1
    <3>4. \A i \in DOMAIN all : i \in Kept \/ i = created'
      BY <2>1, <2>4
    <3>5. DOMAIN all \subseteq 1..created'
      BY <2>3, <3>2, <3>3, <3>4
    <3>6. QED
      BY <2>4, <3>3, <3>5
  <2>9. \A y \in DOMAIN ids : ids[y] \in DOMAIN all /\ all[ids[y]].ext = y
    BY <2>5
  <2> HIDE DEF next
  <2>10. QED
    BY <2>1, <2>6, <2>7, <2>8, <2>9, StoreKeeps
<1>3. ASSUME NEW there \in SUBSET ((1..LastSignal) \ Hooks), NEW cutoff \in 0..created, Rebuild(there, cutoff)
      PROVE  ScoreInv' /\ DecidedStays
  <2> DEFINE come == there \ Kept
             joined == [i \in Kept \union come |-> IF i \in Kept THEN sig[i] ELSE ResolveOne(New(NoExt), price)]
             all == StaleUpTo(joined, cutoff)
  <2>1. Store(all, byExtId) /\ there \subseteq 1..created /\ UNCHANGED created
    BY <1>3 DEF Rebuild
  <2>2. Sound(ResolveOne(New(NoExt), price))
    BY NewResolved
  <2>3. \A i \in DOMAIN joined : Sound(joined[i])
    BY <2>2 DEF ScoreInv
  <2>4. DOMAIN all = Kept \union come /\ \A i \in DOMAIN all : Follows(joined[i], all[i])
    BY <2>3, ExpiredFollows, SameFollows DEF StaleUpTo
  <2>5. \A i \in Kept : Follows(sig[i], all[i])
    BY <2>4
  <2> HIDE DEF joined, all
  <2>6. \A i \in DOMAIN all : Sound(all[i])
    BY <2>4 DEF Follows
  <2>7. \A x \in DOMAIN byExtId : byExtId[x] \in DOMAIN all /\ all[byExtId[x]].ext = x
    BY <2>4, <2>5 DEF ScoreInv, Follows
  <2>8. /\ created' \in Nat /\ created <= created'
        /\ Kept \subseteq DOMAIN all /\ DOMAIN all \subseteq 1..created'
    BY <2>1, <2>4 DEF ScoreInv
  <2>9. QED
    BY <2>1, <2>5, <2>6, <2>7, <2>8, StoreKeeps
<1>4. ASSUME NEW cutoff \in 1..created, ExpireStale(cutoff)
      PROVE  ScoreInv' /\ DecidedStays
  <2>1. sig' = StaleUpTo(sig, cutoff) /\ created' = created /\ byExtId' = byExtId
    BY <1>4 DEF ExpireStale
  <2>2. Kept' = Kept /\ \A i \in Kept : sig'[i] = IF i <= cutoff THEN Expired(sig[i]) ELSE sig[i]
    BY <2>1 DEF StaleUpTo, Kept
  <2>3. \A i \in Kept : Follows(sig[i], sig'[i])
    BY <2>2, ExpiredFollows, SameFollows DEF ScoreInv
  <2>4. QED
    BY <2>1, <2>2, <2>3, ChangeKeeps
<1>5. ASSUME NEW p \in Prices, SetPrice(p) \/ PollAnswers(p)
      PROVE  ScoreInv' /\ DecidedStays
  <2>1. sig' = [i \in Kept |-> ResolveOne(sig[i], p)] /\ created' = created /\ byExtId' = byExtId
    BY <1>5 DEF SetPrice, PollAnswers
  <2>2. Kept' = Kept /\ \A i \in Kept : sig'[i] = ResolveOne(sig[i], p)
    BY <2>1 DEF Kept
  <2>3. \A i \in Kept : Follows(sig[i], sig'[i])
    BY <2>2, ResolveOneFollows DEF ScoreInv
  <2>4. QED
    BY <2>1, <2>2, <2>3, ChangeKeeps
<1>6. ASSUME NEW ref \in Exts \union (1..LastSignal) \union {NoExt}, NEW kind \in {"tp1", "tp3", "sl", "close"},
             NEW result \in {"none", "loss"}, ApplyEvent(ref, kind, result)
      PROVE  ScoreInv' /\ DecidedStays
  <2>1. PICK k \in Found(ref) : sig' = [sig EXCEPT ![k] = ApplyKind(sig[k], kind, result, ref)]
    BY <1>6 DEF ApplyEvent
  <2>2. created' = created /\ byExtId' = byExtId
    BY <1>6 DEF ApplyEvent
  <2>3. ref # ByPrice
    BY ScoreboardAssumption DEF ByPrice, NoExt
  <2>4. \A i \in Kept : Sound(sig[i])
    BY DEF ScoreInv
  <2>5. Kept' = Kept /\ \A i \in Kept : sig'[i] = IF i = k THEN ApplyKind(sig[i], kind, result, ref) ELSE sig[i]
    BY <2>1 DEF Kept
  <2>6. \A i \in Kept : Follows(sig[i], sig'[i])
    BY <2>3, <2>4, <2>5, ApplyKindFollows, SameFollows
  <2>7. QED
    BY <2>2, <2>5, <2>6, ChangeKeeps
<1>7. CASE Forget
  <2>1. sig' = <<>> /\ byExtId' = <<>> /\ created' = created
    BY <1>7 DEF Forget
  <2>2. Kept' = {} /\ DOMAIN byExtId' = {}
    BY <2>1 DEF Kept
  <2>3. QED
    BY <2>1, <2>2 DEF ScoreInv, DecidedStays, WithStatus
<1>8. QED
  BY <1>1, <1>2, <1>3, <1>4, <1>5, <1>6, <1>7 DEF ScoreboardNext

------------------------------------------------------------------------------
(* The intake of alerts                                                      *)

\* A request that is handled, and none.
Handles(q) == q.at \in {"claimed", "counted", "stored"}
IsRequest(q) == q = NoRequest \/ (Handles(q) /\ q = [at |-> q.at, key |-> q.key, channel |-> q.channel])

\* A handled request owns its key: accepted, nobody else's, and not yet published when
\* its row is still to come.
OwnsKey(r) ==
  LET k == request[r].key IN
  /\ k \in DOMAIN log /\ log[k] = "accepted" /\ (request[r].at # "stored" => k \notin DOMAIN published)
  /\ \A q \in Requests : Handles(request[q]) /\ request[q].key = k => q = r

IntakeInv ==
  /\ DOMAIN request = Requests
  /\ \A r \in Requests : IsRequest(request[r]) /\ (Handles(request[r]) => OwnsKey(r))
  /\ \A k \in DOMAIN published : published[k] = 1 /\ k \in DOMAIN log /\ log[k] \in {"accepted", "error"}

LEMMA NoRequestIsIdle == ~Handles(NoRequest) /\ IsRequest(NoRequest)
BY DEF Handles, NoRequest, IsRequest

\* A request that ends keeps the key from later ones; the log may say error after the
\* row, and what it likes before it.
LEMMA GivesUp ==
  ASSUME IntakeInv, NEW r \in Requests, Handles(request[r]),
         request' = [request EXCEPT ![r] = NoRequest], published' = published,
         \/ log' = log
         \/ \E status : log' = Log(request[r].key, status) /\ (request[r].at # "stored" \/ status = "error")
  PROVE  IntakeInv'
<1> DEFINE key == request[r].key
<1>1. DOMAIN request' = Requests /\ \A q \in Requests : request'[q] = IF q = r THEN NoRequest ELSE request[q]
  BY DEF IntakeInv
<1>2. key \in DOMAIN log /\ log[key] = "accepted" /\ (request[r].at # "stored" => key \notin DOMAIN published)
  BY DEF IntakeInv, OwnsKey
<1>3. \A q \in Requests : Handles(request[q]) /\ q # r => request[q].key # key
  BY DEF IntakeInv, OwnsKey
<1>4. /\ DOMAIN log' = DOMAIN log
      /\ \A k \in DOMAIN log : k # key => log'[k] = log[k]
      /\ key \in DOMAIN published => log'[key] \in {"accepted", "error"}
  BY <1>2 DEF Log
<1>5. \A q \in Requests : IsRequest(request'[q]) /\ (Handles(request'[q]) => OwnsKey(q)')
  BY <1>1, <1>3, <1>4, NoRequestIsIdle DEF IntakeInv, OwnsKey
<1>6. \A k \in DOMAIN published' : published'[k] = 1 /\ k \in DOMAIN log' /\ log'[k] \in {"accepted", "error"}
  BY <1>4 DEF IntakeInv
<1>7. QED
  BY <1>1, <1>5, <1>6 DEF IntakeInv

\* A request moves on with its key, and publishes at most when it comes to its row.
LEMMA MovesOn ==
  ASSUME IntakeInv, NEW r \in Requests, Handles(request[r]), request[r].at # "stored", log' = log,
         NEW at \in {"counted", "stored"}, request' = [request EXCEPT ![r].at = at],
         \/ published' = published
         \/ published' = Again(request[r].key) /\ at = "stored"
  PROVE  IntakeInv'
<1> DEFINE key == request[r].key
<1>1. request[r] = [at |-> request[r].at, key |-> key, channel |-> request[r].channel]
  BY DEF IntakeInv, IsRequest, Handles, NoRequest
<1>2. /\ DOMAIN request' = Requests
      /\ \A q \in Requests : q # r => request'[q] = request[q]
      /\ request'[r] = [at |-> at, key |-> key, channel |-> request[r].channel]
  BY <1>1 DEF IntakeInv
<1>3. \A q \in Requests : /\ IsRequest(request'[q])
                          /\ Handles(request'[q]) <=> Handles(request[q])
                          /\ Handles(request[q]) => request'[q].key = request[q].key
  <2>1. /\ IsRequest(request'[r]) /\ Handles(request'[r]) /\ request'[r].key = key
    BY <1>2 DEF IsRequest, Handles
  <2>2. \A q \in Requests : IsRequest(request[q])
    BY DEF IntakeInv
  <2>3. QED
    BY <1>2, <2>1, <2>2
<1>4. key \in DOMAIN log /\ log[key] = "accepted" /\ key \notin DOMAIN published
  BY DEF IntakeInv, OwnsKey
<1>5. \A q \in Requests : Handles(request[q]) /\ q # r => request[q].key # key
  BY DEF IntakeInv, OwnsKey
<1>6. /\ DOMAIN published \subseteq DOMAIN published' /\ DOMAIN published' \subseteq DOMAIN published \union {key}
      /\ at # "stored" => published' = published
      /\ \A k \in DOMAIN published' : published'[k] = 1
  <2>1. \A k \in DOMAIN published : published[k] = 1
    BY DEF IntakeInv
  <2>2. CASE published' = published
    BY <2>1, <2>2
  <2>3. CASE published' = Again(key) /\ at = "stored"
    <3>1. DOMAIN published' = DOMAIN published \union {key}
      BY <2>3 DEF Again
    <3>2. \A k \in DOMAIN published' : published'[k] = Times(k) + (IF k = key THEN 1 ELSE 0)
      BY <2>3 DEF Again
    <3>3. Times(key) = 0 /\ \A k \in DOMAIN published : Times(k) = 1 /\ k # key
      BY <1>4, <2>1 DEF Times
    <3>4. QED
      BY <2>3, <3>1, <3>2, <3>3
  <2>4. QED
    BY <2>2, <2>3
<1>7. ASSUME NEW q \in Requests, Handles(request'[q]) PROVE OwnsKey(q)'
  <2>1. OwnsKey(q) /\ request'[q].key = request[q].key
    BY <1>3, <1>7 DEF IntakeInv
  <2>2. \A p \in Requests : Handles(request'[p]) /\ request'[p].key = request'[q].key => p = q
    BY <1>3, <2>1 DEF OwnsKey
  <2>3. request'[q].at # "stored" => request'[q].key \notin DOMAIN published'
    BY <1>2, <1>3, <1>4, <1>5, <1>6, <1>7, <2>1 DEF OwnsKey
  <2>4. QED
    BY <2>1, <2>2, <2>3 DEF OwnsKey
<1>8. \A k \in DOMAIN published' : published'[k] = 1 /\ k \in DOMAIN log' /\ log'[k] \in {"accepted", "error"}
  BY <1>4, <1>6 DEF IntakeInv
<1>9. QED
  BY <1>2, <1>3, <1>7, <1>8 DEF IntakeInv

LEMMA IntakeKept == ASSUME IntakeInv, IntakeNext PROVE IntakeInv'
<1>1. CASE MinutePasses
  BY <1>1 DEF MinutePasses, IntakeInv, OwnsKey
<1>2. CASE EndProcess
  <2>1. DOMAIN request' = Requests /\ \A r \in Requests : request'[r] = NoRequest
    BY <1>2 DEF EndProcess
  <2>2. log' = log /\ published' = published
    BY <1>2 DEF EndProcess
  <2>3. QED
    BY <2>1, <2>2, NoRequestIsIdle DEF IntakeInv
<1>3. ASSUME NEW b \in Bodies, Reject(b) PROVE IntakeInv'
  <2> DEFINE key == <<b, minute>>
  <2>1. key \notin DOMAIN log /\ log' = Log(key, "rejected") /\ request' = request /\ published' = published
    BY <1>3 DEF Reject
  <2> HIDE DEF key
  <2>2. DOMAIN log \subseteq DOMAIN log' /\ \A k \in DOMAIN log : log'[k] = log[k]
    BY <2>1 DEF Log
  <2>3. QED
    BY <2>1, <2>2 DEF IntakeInv, OwnsKey
<1>4. ASSUME NEW r \in Requests, NEW b \in Bodies, NEW c \in Channels, Claim(r, b, c) PROVE IntakeInv'
  <2> DEFINE key == <<b, minute>>
             mine == [at |-> "claimed", key |-> key, channel |-> c]
  <2>1. /\ key \notin DOMAIN log /\ log' = Log(key, "accepted")
        /\ request' = [request EXCEPT ![r] = mine] /\ published' = published
    BY <1>4 DEF Claim
  <2>2. Handles(mine) /\ IsRequest(mine) /\ mine.key = key
    BY DEF Handles, IsRequest
  <2> HIDE DEF key, mine
  <2>3. DOMAIN log' = DOMAIN log \union {key} /\ log'[key] = "accepted" /\ \A k \in DOMAIN log : log'[k] = log[k]
    BY <2>1 DEF Log
  <2>4. DOMAIN request' = Requests /\ \A q \in Requests : request'[q] = IF q = r THEN mine ELSE request[q]
    BY <2>1 DEF IntakeInv
  <2>5. \A q \in Requests : Handles(request[q]) => request[q].key \in DOMAIN log
    BY DEF IntakeInv, OwnsKey
  <2>6. key \notin DOMAIN published
    BY <2>1 DEF IntakeInv
  <2>7. ASSUME NEW q \in Requests, Handles(request'[q]) PROVE OwnsKey(q)'
    <3>1. CASE q = r
      BY <2>1, <2>2, <2>3, <2>4, <2>5, <2>6, <3>1 DEF OwnsKey
    <3>2. CASE q # r
      <4>1. request'[q] = request[q] /\ OwnsKey(q)
        BY <2>4, <2>7, <3>2 DEF IntakeInv
      <4>2. QED
        BY <2>1, <2>2, <2>3, <2>4, <4>1 DEF OwnsKey
    <3>3. QED
      BY <3>1, <3>2
  <2>8. QED
    BY <2>1, <2>2, <2>3, <2>4, <2>7 DEF IntakeInv
<1>5. ASSUME NEW r \in Requests, CountFlood(r) PROVE IntakeInv'
  <2>1. request[r].at = "claimed" /\ published' = published /\ Handles(request[r])
    BY <1>5 DEF CountFlood, Handles
  <2>2. \/ log' = Log(request[r].key, "rate_limited") /\ request' = [request EXCEPT ![r] = NoRequest]
        \/ log' = log /\ request' = [request EXCEPT ![r].at = "counted"]
    BY <1>5 DEF CountFlood
  <2>3. QED
    BY <2>1, <2>2, GivesUp, MovesOn
<1>6. ASSUME NEW r \in Requests, Publish(r) \/ PassThrough(r) \/ FinishRequest(r) \/ FailRequest(r) PROVE IntakeInv'
  <2>1. Handles(request[r])
    BY <1>6 DEF Publish, PassThrough, FinishRequest, FailRequest, Handles
  <2>2. \/ /\ request[r].at # "stored" /\ log' = log
           /\ request' = [request EXCEPT ![r].at = "stored"] /\ published' = Again(request[r].key)
        \/ /\ request' = [request EXCEPT ![r] = NoRequest] /\ published' = published
           /\ log' = log \/ log' = Log(request[r].key, "error")
    BY <1>6 DEF Publish, PassThrough, FinishRequest, FailRequest
  <2>3. QED
    BY <2>1, <2>2, GivesUp, MovesOn
<1>7. QED
  BY <1>1, <1>2, <1>3, <1>4, <1>5, <1>6 DEF IntakeNext

------------------------------------------------------------------------------
\* For any number of signals, ids, requests and minutes: what the bot manages is decided by
\* its events only and its ids stand for kept signals, and an alert is published once a
\* minute at most, whichever statement of its request fails, and never under a row that
\* refused it (SignalsKept in Community; signal-scoreboard.js and webhooks.js).
THEOREM SignalsAreKept == Spec => []SignalsKept
<1> DEFINE SignalsInv == ScoreInv /\ IntakeInv
<1>1. Init => SignalsInv
  <2> SUFFICES ASSUME Init PROVE SignalsInv
    OBVIOUS
  <2>1. ScoreInv
    BY DEF Init, ScoreboardInit, ScoreInv, Kept
  <2>2. IntakeInv
    BY NoRequestIsIdle DEF Init, IntakeInit, IntakeInv
  <2>3. QED
    BY <2>1, <2>2
<1>2. SignalsInv /\ [Next]_vars => SignalsInv'
  <2> SUFFICES ASSUME SignalsInv, [Next]_vars PROVE SignalsInv'
    OBVIOUS
  <2>1. ScoreboardNext \/ UNCHANGED scoreboardVars
    BY DEF Next, Only, vars
  <2>2. ScoreInv'
    BY <2>1, ScoreboardKept DEF ScoreInv, scoreboardVars, Kept
  <2>3. IntakeNext \/ UNCHANGED intakeVars
    BY DEF Next, Only, vars
  <2>4. IntakeInv'
    BY <2>3, IntakeKept DEF IntakeInv, OwnsKey, intakeVars
  <2>5. QED
    BY <2>2, <2>4
<1>3. SignalsInv => SignalsKept
  <2>1. ScoreInv => EventsAuthoritative
    BY DEF ScoreInv, Sound, EventsAuthoritative
  <2>2. IntakeInv => AlertOnce
    BY DEF IntakeInv, AlertOnce
  <2>3. QED
    BY <2>1, <2>2 DEF SignalsKept
<1>4. QED
  BY <1>1, <1>2, <1>3, PTL DEF Spec

------------------------------------------------------------------------------
(* The feed                                                                  *)

HoldsPost(c) == feedCall[c].at \in {"liking", "commenting"}
IsFeedCall(q) == DOMAIN q = {"at", "whom", "had", "row", "was"}

\* Who holds the post is amid one change of it, of which the counters do not know yet;
\* what was inserted is a row of a user who is there.
LikesAhead(c) ==
  /\ feedCall[c].at = "liking" => Caller(c) \in AllLikes
  /\ feedCall[c].at = "commenting" => <<Caller(c), feedCall[c].was>> \in comments
  /\ feedCall[c].at = "commenting" \/ feedCall[c].had = FALSE => Caller(c) \notin removed
  /\ counts.likes = Cardinality(AllLikes) - (IF feedCall[c].at = "liking" /\ feedCall[c].had = FALSE THEN 1 ELSE 0)
  /\ counts.comments = Cardinality(AllComments) - (IF feedCall[c].at = "commenting" THEN 1 ELSE 0)

\* What is lost was of users who are gone.
LostOfRemoved ==
  /\ lost = [likes |-> lost.likes, comments |-> lost.comments]
  /\ \A u \in lost.likes : u \in removed
  /\ \A x \in lost.comments : x[1] \in removed

FeedInv ==
  /\ DOMAIN feedCall = Callers
  /\ \A c \in Callers : IsFeedCall(feedCall[c]) /\ feedCall[c].had \in BOOLEAN
  /\ \A c \in Callers : HoldsPost(c) <=> holder = c
  /\ holder \in Callers \union {"nobody"}
  /\ IsFiniteSet(AllLikes) /\ IsFiniteSet(AllComments)
  /\ counts = [likes |-> counts.likes, comments |-> counts.comments] /\ counts.likes \in Int /\ counts.comments \in Int
  /\ LostOfRemoved
  /\ LikesCounted
  /\ holder # "nobody" => LikesAhead(holder)

\* A call that neither takes nor has the post changes nothing of it.
LEMMA FeedElsewhere ==
  ASSUME FeedInv, NEW c \in Callers, ~HoldsPost(c),
         NEW q, IsFeedCall(q), q.had \in BOOLEAN, q.at \notin {"liking", "commenting"},
         feedCall' = [feedCall EXCEPT ![c] = q],
         UNCHANGED <<counts, likes, comments, removed, lost, holder>>
  PROVE  FeedInv'
<1>1. DOMAIN feedCall' = Callers /\ \A d \in Callers : feedCall'[d] = IF d = c THEN q ELSE feedCall[d]
  BY DEF FeedInv
<1>2. holder # c
  BY DEF FeedInv
<1>3. \A d \in Callers : HoldsPost(d)' <=> holder' = d
  BY <1>1, <1>2 DEF FeedInv, HoldsPost
<1>4. AllLikes' = AllLikes /\ AllComments' = AllComments
  BY DEF AllLikes, AllComments
<1>5. holder' # "nobody" => LikesAhead(holder)'
  BY <1>1, <1>2, <1>4 DEF FeedInv, LikesAhead
<1>6. LikesCounted' /\ LostOfRemoved'
  BY <1>4 DEF FeedInv, LikesCounted, LostOfRemoved
<1>7. QED
  BY <1>1, <1>3, <1>4, <1>5, <1>6 DEF FeedInv

\* Taking the post for a change.
LEMMA FeedTaken ==
  ASSUME FeedInv, NEW c \in Callers, holder = "nobody", holder' = c,
         NEW q, IsFeedCall(q), q.had \in BOOLEAN, q.at \in {"liking", "commenting"},
         feedCall' = [feedCall EXCEPT ![c] = q],
         UNCHANGED <<counts, removed, lost>>, Caller(c) \notin removed,
         IsFiniteSet(AllLikes'), IsFiniteSet(AllComments'),
         q.at = "liking" => Caller(c) \in AllLikes',
         q.at = "commenting" => <<Caller(c), q.was>> \in comments',
         counts.likes = Cardinality(AllLikes') - (IF q.at = "liking" /\ q.had = FALSE THEN 1 ELSE 0),
         counts.comments = Cardinality(AllComments') - (IF q.at = "commenting" THEN 1 ELSE 0)
  PROVE  FeedInv'
<1>1. /\ DOMAIN feedCall' = Callers
      /\ \A d \in Callers : d # c => feedCall'[d] = feedCall[d]
      /\ feedCall'[c] = q
  BY DEF FeedInv
<1>2. c # "nobody" /\ \A d \in Callers : ~HoldsPost(d)
  BY FeedAssumption DEF FeedInv, Callers
<1>3. \A d \in Callers : HoldsPost(d)' <=> holder' = d
  BY <1>1, <1>2 DEF HoldsPost
<1>4. LikesAhead(c)'
  BY <1>1 DEF LikesAhead, Caller
<1>5. \A d \in Callers : IsFeedCall(feedCall'[d]) /\ feedCall'[d].had \in BOOLEAN
  BY <1>1 DEF FeedInv
<1>6. LostOfRemoved'
  BY DEF FeedInv, LostOfRemoved
<1>7. QED
  BY <1>1, <1>2, <1>3, <1>4, <1>5, <1>6 DEF FeedInv, LikesCounted

\* Giving it back when the counters are right.
LEMMA FeedReturned ==
  ASSUME FeedInv, NEW c \in Callers, HoldsPost(c), holder' = "nobody", Returns(c),
         IsFiniteSet(AllLikes'), IsFiniteSet(AllComments'),
         counts' = [likes |-> Cardinality(AllLikes'), comments |-> Cardinality(AllComments')],
         removed' = removed, LostOfRemoved'
  PROVE  FeedInv'
<1>1. /\ DOMAIN feedCall' = Callers
      /\ \A d \in Callers : feedCall'[d] = IF d = c THEN NoFeedCall ELSE feedCall[d]
  BY DEF FeedInv, Returns
<1>2. /\ IsFeedCall(NoFeedCall) /\ NoFeedCall.had = FALSE
      /\ NoFeedCall.at \notin {"liking", "commenting"}
  BY DEF IsFeedCall, NoFeedCall
<1>3. \A d \in Callers : d # "nobody" /\ ~HoldsPost(d)'
  BY <1>1, <1>2, FeedAssumption DEF FeedInv, HoldsPost, Callers
<1>4. Cardinality(AllLikes') \in Int /\ Cardinality(AllComments') \in Int
  BY FS_CardinalityType
<1>5. QED
  BY <1>1, <1>2, <1>3, <1>4 DEF FeedInv, LikesCounted

\* What is so whenever a call holds the post.
LEMMA FeedHeld ==
  ASSUME FeedInv, NEW c \in Callers, HoldsPost(c)
  PROVE  /\ holder = c /\ c # "nobody" /\ LikesAhead(c)
         /\ IsFiniteSet(AllLikes) /\ Cardinality(AllLikes) \in Nat
         /\ IsFiniteSet(AllComments) /\ Cardinality(AllComments) \in Nat
BY FeedAssumption, FS_CardinalityType DEF FeedInv, Callers

\* Rows that are there before a call takes the post.
LEMMA FeedFree ==
  ASSUME FeedInv, holder = "nobody"
  PROVE  /\ IsFiniteSet(AllLikes) /\ Cardinality(AllLikes) \in Nat /\ counts.likes = Cardinality(AllLikes)
         /\ IsFiniteSet(AllComments) /\ Cardinality(AllComments) \in Nat /\ counts.comments = Cardinality(AllComments)
BY FS_CardinalityType DEF FeedInv, LikesCounted

LEMMA FeedKept == ASSUME FeedInv, FeedNext PROVE FeedInv'
<1>1. CASE DeletePost
  <2>1. UNCHANGED <<counts, likes, comments, removed, lost, holder, feedCall>>
    BY <1>1 DEF DeletePost
  <2>2. AllLikes' = AllLikes /\ AllComments' = AllComments
    BY <2>1 DEF AllLikes, AllComments
  <2>3. QED
    BY <2>1, <2>2 DEF FeedInv, HoldsPost, LikesCounted, LikesAhead, LostOfRemoved
<1>2. ASSUME NEW c \in Callers, BeginLike(c) PROVE FeedInv'
  <2> DEFINE had == Caller(c) \in likes
             q == [feedCall[c] EXCEPT !.at = "liking", !.had = had]
  <2>1. /\ holder = "nobody" /\ holder' = c /\ likes' = likes \union {Caller(c)} /\ Caller(c) \notin removed
        /\ feedCall' = [feedCall EXCEPT ![c] = q] /\ UNCHANGED <<counts, comments, removed, lost>>
    BY <1>2 DEF BeginLike, LocksPost, Proceeds
  <2>2. had <=> Caller(c) \in AllLikes
    BY <2>1 DEF FeedInv, LostOfRemoved, AllLikes
  <2>3. AllLikes' = AllLikes \union {Caller(c)} /\ AllComments' = AllComments
    BY <2>1 DEF AllLikes, AllComments
  <2>4. had \in BOOLEAN
    OBVIOUS
  <2> HIDE DEF had
  <2>5. IsFeedCall(q) /\ q.had = had /\ q.at = "liking"
    BY DEF FeedInv, IsFeedCall
  <2>6. IsFiniteSet(AllLikes') /\ Cardinality(AllLikes') = Cardinality(AllLikes) + (IF had = FALSE THEN 1 ELSE 0)
    BY <2>1, <2>2, <2>3, <2>4, FeedFree, FS_AddElement
  <2> HIDE DEF q
  <2>7. /\ counts.likes = Cardinality(AllLikes') - (IF q.at = "liking" /\ q.had = FALSE THEN 1 ELSE 0)
        /\ counts.comments = Cardinality(AllComments') - (IF q.at = "commenting" THEN 1 ELSE 0)
        /\ IsFiniteSet(AllComments') /\ Caller(c) \in AllLikes'
    BY <2>1, <2>3, <2>4, <2>5, <2>6, FeedFree
  <2>8. QED
    BY <2>1, <2>4, <2>5, <2>6, <2>7, FeedTaken
<1>3. ASSUME NEW c \in Callers, EndLike(c) PROVE FeedInv'
  <2>1. feedCall[c].at = "liking" /\ HoldsPost(c)
    BY <1>3 DEF EndLike, HoldsPost
  <2>2. /\ LikesAhead(c) /\ IsFiniteSet(AllLikes) /\ Cardinality(AllLikes) \in Nat
        /\ IsFiniteSet(AllComments) /\ Cardinality(AllComments) \in Nat
    BY <2>1, FeedHeld
  <2>3. holder' = "nobody" /\ Returns(c) /\ comments' = comments /\ removed' = removed
    BY <1>3 DEF EndLike
  <2>4. counts = [likes |-> counts.likes, comments |-> Cardinality(AllComments)]
    BY <2>1, <2>2 DEF FeedInv, LikesAhead
  <2>5. CASE feedCall[c].had = TRUE
    <3>1. /\ likes' = likes \ {Caller(c)} /\ counts' = [counts EXCEPT !.likes = Less(counts.likes)]
          /\ lost' = [lost EXCEPT !.likes = lost.likes \ {Caller(c)}]
      BY <1>3, <2>5 DEF EndLike
    <3>2. lost' = [likes |-> lost.likes \ {Caller(c)}, comments |-> lost.comments]
      BY <3>1 DEF FeedInv, LostOfRemoved
    <3>3. AllLikes' = AllLikes \ {Caller(c)} /\ AllComments' = AllComments /\ LostOfRemoved'
      BY <2>3, <3>1, <3>2 DEF AllLikes, AllComments, FeedInv, LostOfRemoved
    <3>4. Caller(c) \in AllLikes /\ counts.likes = Cardinality(AllLikes)
      BY <2>1, <2>2, <2>5 DEF LikesAhead
    <3>5. IsFiniteSet(AllLikes') /\ Cardinality(AllLikes') = Cardinality(AllLikes) - 1 /\ Cardinality(AllLikes') \in Nat
      BY <2>2, <3>3, <3>4, FS_RemoveElement, FS_CardinalityType
    <3>6. Less(counts.likes) = Cardinality(AllLikes')
      BY <2>2, <3>4, <3>5 DEF Less
    <3>7. counts' = [likes |-> Cardinality(AllLikes'), comments |-> Cardinality(AllComments')]
      BY <2>4, <3>1, <3>3, <3>6
    <3>8. QED
      BY <2>1, <2>2, <2>3, <3>3, <3>5, <3>7, FeedReturned
  <2>6. CASE feedCall[c].had = FALSE
    <3>1. UNCHANGED <<likes, lost>> /\ counts' = [counts EXCEPT !.likes = counts.likes + 1]
      BY <1>3, <2>6 DEF EndLike
    <3>2. AllLikes' = AllLikes /\ AllComments' = AllComments /\ LostOfRemoved'
      BY <2>3, <3>1 DEF AllLikes, AllComments, FeedInv, LostOfRemoved
    <3>3. counts.likes = Cardinality(AllLikes) - 1
      BY <2>1, <2>2, <2>6 DEF LikesAhead
    <3>4. counts' = [likes |-> Cardinality(AllLikes'), comments |-> Cardinality(AllComments')]
      BY <2>2, <2>4, <3>1, <3>2, <3>3
    <3>5. QED
      BY <2>1, <2>2, <2>3, <3>2, <3>4, FeedReturned
  <2>7. QED
    BY <2>5, <2>6 DEF FeedInv
<1>4. ASSUME NEW c \in Callers, NEW id \in 1..MaxComments, BeginComment(c, id) PROVE FeedInv'
  <2> DEFINE mine == <<Caller(c), id>>
             q == [feedCall[c] EXCEPT !.at = "commenting", !.was = id]
  <2>1. /\ holder = "nobody" /\ holder' = c /\ comments' = comments \union {mine} /\ Caller(c) \notin removed
        /\ feedCall' = [feedCall EXCEPT ![c] = q] /\ UNCHANGED <<counts, likes, removed, lost>>
        /\ \A x \in AllComments : x[2] # id
    BY <1>4 DEF BeginComment, LocksPost
  <2>2. mine \notin AllComments
    BY <2>1
  <2>3. IsFeedCall(q) /\ q.had \in BOOLEAN /\ q.at = "commenting" /\ q.was = id
    BY DEF FeedInv, IsFeedCall
  <2>4. <<Caller(c), q.was>> \in comments'
    BY <2>1, <2>3
  <2> HIDE DEF q, mine
  <2>5. AllLikes' = AllLikes /\ AllComments' = AllComments \union {mine}
    BY <2>1 DEF AllLikes, AllComments
  <2>6. IsFiniteSet(AllComments') /\ Cardinality(AllComments') = Cardinality(AllComments) + 1
    BY <2>1, <2>2, <2>5, FeedFree, FS_AddElement
  <2>7. /\ counts.likes = Cardinality(AllLikes') - (IF q.at = "liking" /\ q.had = FALSE THEN 1 ELSE 0)
        /\ counts.comments = Cardinality(AllComments') - (IF q.at = "commenting" THEN 1 ELSE 0)
        /\ IsFiniteSet(AllLikes')
    BY <2>1, <2>3, <2>5, <2>6, FeedFree
  <2>8. QED
    BY <2>1, <2>3, <2>4, <2>6, <2>7, FeedTaken
<1>5. ASSUME NEW c \in Callers, EndComment(c) PROVE FeedInv'
  <2>1. feedCall[c].at = "commenting" /\ HoldsPost(c)
    BY <1>5 DEF EndComment, HoldsPost
  <2>2. /\ LikesAhead(c) /\ IsFiniteSet(AllLikes) /\ Cardinality(AllLikes) \in Nat
        /\ IsFiniteSet(AllComments) /\ Cardinality(AllComments) \in Nat
    BY <2>1, FeedHeld
  <2>3. /\ holder' = "nobody" /\ Returns(c) /\ UNCHANGED <<likes, comments, removed, lost>>
        /\ counts' = [counts EXCEPT !.comments = counts.comments + 1]
    BY <1>5 DEF EndComment
  <2>4. AllLikes' = AllLikes /\ AllComments' = AllComments /\ LostOfRemoved'
    BY <2>3 DEF AllLikes, AllComments, FeedInv, LostOfRemoved
  <2>5. counts = [likes |-> Cardinality(AllLikes), comments |-> Cardinality(AllComments) - 1]
    BY <2>1, <2>2 DEF FeedInv, LikesAhead
  <2>6. counts' = [likes |-> Cardinality(AllLikes'), comments |-> Cardinality(AllComments')]
    BY <2>2, <2>3, <2>4, <2>5
  <2>7. QED
    BY <2>1, <2>2, <2>3, <2>4, <2>6, FeedReturned
<1>6. ASSUME NEW c \in Callers, RollBackPost(c) PROVE FeedInv'
  <2>1. HoldsPost(c)
    BY <1>6 DEF RollBackPost, HoldsPost
  <2>2. /\ LikesAhead(c) /\ IsFiniteSet(AllLikes) /\ Cardinality(AllLikes) \in Nat
        /\ IsFiniteSet(AllComments) /\ Cardinality(AllComments) \in Nat
    BY <2>1, FeedHeld
  <2>3. holder' = "nobody" /\ Returns(c) /\ UNCHANGED <<counts, removed, lost>>
    BY <1>6 DEF RollBackPost
  <2>4. LostOfRemoved'
    BY <2>3 DEF FeedInv, LostOfRemoved
  <2>5. counts = [likes |-> counts.likes, comments |-> counts.comments]
    BY DEF FeedInv
  <2>6. CASE feedCall[c].at = "liking" /\ feedCall[c].had = FALSE
    <3>1. likes' = likes \ {Caller(c)} /\ comments' = comments
      BY <1>6, <2>6 DEF RollBackPost
    <3>2. Caller(c) \notin lost.likes
      BY <2>2, <2>6 DEF FeedInv, LostOfRemoved, LikesAhead
    <3>3. AllLikes' = AllLikes \ {Caller(c)} /\ AllComments' = AllComments
      BY <2>3, <3>1, <3>2 DEF AllLikes, AllComments
    <3>4. /\ Caller(c) \in AllLikes /\ counts.likes = Cardinality(AllLikes) - 1
          /\ counts.comments = Cardinality(AllComments)
      BY <2>2, <2>6 DEF LikesAhead
    <3>5. IsFiniteSet(AllLikes') /\ Cardinality(AllLikes') = Cardinality(AllLikes) - 1
      BY <2>2, <3>3, <3>4, FS_RemoveElement
    <3>6. counts' = [likes |-> Cardinality(AllLikes'), comments |-> Cardinality(AllComments')]
      BY <2>3, <2>5, <3>3, <3>4, <3>5
    <3>7. QED
      BY <2>1, <2>2, <2>3, <2>4, <3>3, <3>5, <3>6, FeedReturned
  <2>7. CASE feedCall[c].at = "liking" /\ feedCall[c].had = TRUE
    <3>1. likes' = likes /\ comments' = comments
      BY <1>6, <2>7 DEF RollBackPost
    <3>2. AllLikes' = AllLikes /\ AllComments' = AllComments
      BY <2>3, <3>1 DEF AllLikes, AllComments
    <3>3. counts.likes = Cardinality(AllLikes) /\ counts.comments = Cardinality(AllComments)
      BY <2>2, <2>7 DEF LikesAhead
    <3>4. QED
      BY <2>1, <2>2, <2>3, <2>4, <2>5, <3>2, <3>3, FeedReturned
  <2>8. CASE feedCall[c].at = "commenting"
    <3> DEFINE mine == <<Caller(c), feedCall[c].was>>
    <3>1. likes' = likes /\ comments' = comments \ {mine}
      BY <1>6, <2>8 DEF RollBackPost
    <3>2. mine \in comments /\ mine \notin lost.comments
      BY <2>2, <2>8 DEF FeedInv, LostOfRemoved, LikesAhead
    <3> HIDE DEF mine
    <3>3. AllLikes' = AllLikes /\ AllComments' = AllComments \ {mine} /\ mine \in AllComments
      BY <2>3, <3>1, <3>2 DEF AllLikes, AllComments
    <3>4. counts.likes = Cardinality(AllLikes) /\ counts.comments = Cardinality(AllComments) - 1
      BY <2>2, <2>8 DEF LikesAhead
    <3>5. IsFiniteSet(AllComments') /\ Cardinality(AllComments') = Cardinality(AllComments) - 1
      BY <2>2, <3>3, FS_RemoveElement
    <3>6. counts' = [likes |-> Cardinality(AllLikes'), comments |-> Cardinality(AllComments')]
      BY <2>3, <2>5, <3>3, <3>4, <3>5
    <3>7. QED
      BY <2>1, <2>2, <2>3, <2>4, <3>3, <3>5, <3>6, FeedReturned
  <2>9. QED
    BY <2>1, <2>6, <2>7, <2>8 DEF HoldsPost, FeedInv
<1>7. ASSUME NEW c \in Callers,
             \/ Unfollow(c) \/ CountFollower(c) \/ CountFollowing(c) \/ RollBackFollow(c)
             \/ \E u \in People : BeginFollow(c, u)
      PROVE  FeedInv'
  <2>1. UNCHANGED <<counts, likes, comments, removed, lost, holder>>
    BY <1>7 DEF Unfollow, CountFollower, CountFollowing, RollBackFollow, BeginFollow
  <2>2. ~HoldsPost(c)
    <3>1. CASE \E u \in People : BeginFollow(c, u)
      <4>1. feedCall[c] = NoFeedCall
        BY <3>1 DEF BeginFollow
      <4>2. QED
        BY <4>1 DEF HoldsPost, NoFeedCall
    <3>2. CASE Unfollow(c) \/ CountFollower(c) \/ CountFollowing(c) \/ RollBackFollow(c)
      <4>1. feedCall[c].at \in {"found", "changed", "counted"}
        BY <3>2 DEF Unfollow, CountFollower, CountFollowing, RollBackFollow
      <4>2. QED
        BY <4>1 DEF HoldsPost
    <3>3. QED
      BY <1>7, <3>1, <3>2
  <2>3. \E q : /\ feedCall' = [feedCall EXCEPT ![c] = q]
               /\ IsFeedCall(q) /\ q.had \in BOOLEAN /\ q.at \notin {"liking", "commenting"}
    <3>1. CASE CountFollowing(c) \/ RollBackFollow(c)
      <4>1. feedCall' = [feedCall EXCEPT ![c] = NoFeedCall]
        BY <3>1 DEF CountFollowing, RollBackFollow, Returns
      <4>2. IsFeedCall(NoFeedCall) /\ NoFeedCall.had \in BOOLEAN /\ NoFeedCall.at \notin {"liking", "commenting"}
        BY DEF NoFeedCall, IsFeedCall
      <4>3. QED
        BY <4>1, <4>2
    <3>2. ASSUME NEW u \in People, BeginFollow(c, u)
          PROVE  \E q : /\ feedCall' = [feedCall EXCEPT ![c] = q]
                        /\ IsFeedCall(q) /\ q.had \in BOOLEAN /\ q.at \notin {"liking", "commenting"}
      <4> DEFINE had == <<Caller(c), u>> \in follows
                 q == [NoFeedCall EXCEPT !.at = IF had THEN "found" ELSE "changed", !.whom = u, !.had = had]
      <4>1. feedCall' = [feedCall EXCEPT ![c] = q]
        BY <3>2 DEF BeginFollow
      <4>2. had \in BOOLEAN
        OBVIOUS
      <4> HIDE DEF had
      <4>3. IsFeedCall(q) /\ q.had = had /\ q.at \in {"found", "changed"}
        BY DEF NoFeedCall, IsFeedCall
      <4> HIDE DEF q
      <4>4. QED
        BY <4>1, <4>2, <4>3
    <3>3. CASE Unfollow(c)
      <4> DEFINE there == Pair(c) \in follows
                 q == [feedCall[c] EXCEPT !.at = "changed", !.row = there]
      <4>1. feedCall' = [feedCall EXCEPT ![c] = q]
        BY <3>3 DEF Unfollow
      <4> HIDE DEF there
      <4>2. IsFeedCall(q) /\ q.had \in BOOLEAN /\ q.at = "changed"
        BY DEF FeedInv, IsFeedCall
      <4> HIDE DEF q
      <4>3. QED
        BY <4>1, <4>2
    <3>4. CASE CountFollower(c)
      <4> DEFINE q == [feedCall[c] EXCEPT !.at = "counted", !.was = followers[feedCall[c].whom]]
      <4>1. feedCall' = [feedCall EXCEPT ![c] = q]
        BY <3>4 DEF CountFollower
      <4>2. IsFeedCall(q) /\ q.had \in BOOLEAN /\ q.at = "counted"
        BY DEF FeedInv, IsFeedCall
      <4> HIDE DEF q
      <4>3. QED
        BY <4>1, <4>2
    <3>5. QED
      BY <1>7, <3>1, <3>2, <3>3, <3>4
  <2>4. QED
    BY <2>1, <2>2, <2>3, FeedElsewhere
<1>8. CASE DropPost
  <2>1. /\ holder = "nobody" /\ UNCHANGED <<removed, holder, feedCall>>
        /\ counts' = [likes |-> 0, comments |-> 0] /\ likes' = {} /\ comments' = {}
        /\ lost' = [likes |-> {}, comments |-> {}]
    BY <1>8 DEF DropPost
  <2>2. AllLikes' = {} /\ AllComments' = {} /\ LostOfRemoved'
    BY <2>1 DEF AllLikes, AllComments, LostOfRemoved
  <2>3. /\ IsFiniteSet(AllLikes') /\ Cardinality(AllLikes') = 0
        /\ IsFiniteSet(AllComments') /\ Cardinality(AllComments') = 0
    BY <2>2, FS_EmptySet
  <2>4. QED
    BY <2>1, <2>2, <2>3 DEF FeedInv, HoldsPost, LikesCounted
<1>9. ASSUME NEW u \in People, RemoveAccount(u) PROVE FeedInv'
  <2> DEFINE mine == {x \in comments : x[1] = u}
  <2>1. /\ removed' = removed \union {u} /\ UNCHANGED <<counts, holder, feedCall>> /\ ~Engaged(u)
        /\ likes' = likes \ {u} /\ comments' = comments \ mine
        /\ lost' = [likes |-> lost.likes \union (likes \intersect {u}), comments |-> lost.comments \union mine]
    BY <1>9 DEF RemoveAccount
  <2>2. AllLikes' = AllLikes
    BY <2>1 DEF AllLikes
  <2>3. AllComments' = AllComments
    BY <2>1 DEF AllComments
  <2>4. LostOfRemoved'
    BY <2>1 DEF FeedInv, LostOfRemoved
  <2>5. ASSUME holder # "nobody" PROVE LikesAhead(holder)'
    <3>1. LikesAhead(holder) /\ holder \in Callers /\ holder' = holder /\ feedCall' = feedCall /\ HoldsPost(holder)
      BY <2>1, <2>5 DEF FeedInv
    <3>2. feedCall[holder].at = "commenting" \/ feedCall[holder].had = FALSE => Caller(holder) # u
      BY <2>1, <3>1 DEF Engaged, HoldsPost
    <3>3. feedCall[holder].at = "commenting" => <<Caller(holder), feedCall[holder].was>> \in comments'
      BY <2>1, <3>1, <3>2 DEF LikesAhead
    <3>4. QED
      BY <2>1, <2>2, <2>3, <3>1, <3>2, <3>3 DEF LikesAhead, Caller
  <2>6. QED
    BY <2>1, <2>2, <2>3, <2>4, <2>5 DEF FeedInv, HoldsPost, LikesCounted
<1>10. QED
  BY <1>1, <1>2, <1>3, <1>4, <1>5, <1>6, <1>7, <1>8, <1>9 DEF FeedNext

------------------------------------------------------------------------------
(* The store                                                                 *)

\* Who buys has read an active product's price under the lock of its row, which nobody
\* else holds, and has no licence; an owner who has gone has no product.
StoreInv ==
  /\ DOMAIN buying = Windows
  /\ \A v, w \in Windows : buying[v] # NotBuying /\ buying[w] # NotBuying => v = w
  /\ \A w \in Windows : buying[w] # NotBuying =>
       product.status = "active" /\ buying[w] = product.price /\ BuyerOf(w) \notin DOMAIN licences
  /\ DOMAIN product = {"status", "price", "file"} /\ product.price \in Nat
  /\ sold \in Int
  /\ "owner" \in departed => product.status \in {"none", "gone"}
  /\ LicencesPaid

\* A step that neither buys nor sells.
LEMMA NothingSold ==
  ASSUME StoreInv, UNCHANGED <<licences, paid, sold, departed>>
  PROVE  LicencesPaid' /\ LicencesStand
<1>1. LicencesPaid'
  BY DEF StoreInv, LicencesPaid
<1>2. LicencesStand
  <2>1. sold \in Int /\ DOMAIN licences \ DOMAIN licences = {} /\ Cardinality({}) = 0
    BY FS_EmptySet DEF StoreInv
  <2>2. QED
    BY <2>1 DEF LicencesStand
<1>3. QED
  BY <1>1, <1>2

LEMMA StoreKept == ASSUME StoreInv, StoreNext PROVE StoreInv' /\ LicencesStand
<1>1. ASSUME UNCHANGED <<licences, paid, sold, departed, buying, product>> PROVE StoreInv' /\ LicencesStand
  <2>1. LicencesPaid' /\ LicencesStand
    BY <1>1, NothingSold
  <2>2. StoreInv'
    BY <1>1, <2>1 DEF StoreInv
  <2>3. QED
    BY <2>1, <2>2
<1>2. ASSUME UNCHANGED <<licences, paid, sold, departed, buying>>, ~Held,
             DOMAIN product' = {"status", "price", "file"}, product'.price \in Nat,
             "owner" \in departed => product'.status \in {"none", "gone"}
      PROVE  StoreInv' /\ LicencesStand
  <2>1. LicencesPaid' /\ LicencesStand
    BY <1>2, NothingSold
  <2>2. StoreInv'
    BY <1>2, <2>1 DEF StoreInv, Held
  <2>3. QED
    BY <2>1, <2>2
<1>3. CASE BecomeCreator \/ BecomeCreatorUnrewarded \/ UnlinkSource \/ FailEdit
  BY <1>1, <1>3 DEF BecomeCreator, BecomeCreatorUnrewarded, UnlinkSource, FailEdit
<1>4. CASE Archive
  BY <1>2, <1>4 DEF Archive, StoreInv
<1>5. CASE \E x \in Files : UploadSource(x)
  BY <1>1, <1>5 DEF UploadSource
<1>6. CASE \E x \in Files \union {NoFile} : BeginEdit(x)
  BY <1>1, <1>6 DEF BeginEdit
<1>7. ASSUME NEW status \in {"active", "draft"}, NEW p \in ProductPrices, NEW x \in Files \union {NoFile},
             CreateProduct(status, p, x)
      PROVE  StoreInv' /\ LicencesStand
  <2>1. ~Held
    BY <1>7 DEF CreateProduct, StoreInv, Held
  <2>2. QED
    BY <1>2, <1>7, <2>1, StoreAssumption DEF CreateProduct
<1>8. ASSUME NEW status \in {"active", "draft", "archived"}, NEW p \in ProductPrices, EndEdit(status, p)
      PROVE  StoreInv' /\ LicencesStand
  <2>1. "owner" \notin departed
    BY <1>8 DEF EndEdit, StoreInv
  <2>2. QED
    BY <1>2, <1>8, <2>1, StoreAssumption DEF EndEdit
<1>9. ASSUME NEW w \in Windows, BeginBuy(w) PROVE StoreInv' /\ LicencesStand
  <2>1. /\ product.status = "active" /\ ~Held /\ BuyerOf(w) \notin DOMAIN licences
        /\ buying' = [buying EXCEPT ![w] = product.price]
        /\ UNCHANGED <<licences, paid, sold, departed, product>>
    BY <1>9 DEF BeginBuy, TakesProduct
  <2>2. LicencesPaid' /\ LicencesStand
    BY <2>1, NothingSold
  <2>3. StoreInv'
    BY <2>1, <2>2 DEF StoreInv, Held
  <2>4. QED
    BY <2>2, <2>3
<1>10. ASSUME NEW w \in Windows, RollBackBuy(w) PROVE StoreInv' /\ LicencesStand
  <2>1. /\ buying' = [buying EXCEPT ![w] = NotBuying]
        /\ UNCHANGED <<licences, paid, sold, departed, product>>
    BY <1>10 DEF RollBackBuy
  <2>2. LicencesPaid' /\ LicencesStand
    BY <2>1, NothingSold
  <2>3. StoreInv'
    BY <2>1, <2>2 DEF StoreInv
  <2>4. QED
    BY <2>2, <2>3
<1>11. ASSUME NEW w \in Windows, CommitBuy(w) PROVE StoreInv' /\ LicencesStand
  <2> DEFINE b == BuyerOf(w)
  <2>1. /\ buying[w] # NotBuying /\ Payment(w)
        /\ licences' = Put(licences, b, buying[w]) /\ sold' = sold + 1
        /\ buying' = [buying EXCEPT ![w] = NotBuying] /\ UNCHANGED <<product, departed>>
        /\ b \notin departed
    BY <1>11 DEF CommitBuy
  <2>2. /\ product.status = "active" /\ buying[w] = product.price /\ product.price \in Nat
        /\ b \notin DOMAIN licences /\ b \notin DOMAIN paid
    BY <2>1 DEF StoreInv, LicencesPaid
  <2> HIDE DEF b
  <2>3. /\ DOMAIN licences' = DOMAIN licences \union {b} /\ licences'[b] = product.price
        /\ \A x \in DOMAIN licences : licences'[x] = licences[x]
    BY <2>1, <2>2 DEF Put
  <2>4. sold \in Int /\ DOMAIN licences' \ DOMAIN licences = {b} /\ Cardinality({b}) = 1
    BY <2>2, <2>3, FS_Singleton DEF StoreInv
  <2>5. LicencesPaid'
    <3>1. CASE buying[w] > 0
      <4>1. paid' = Put(paid, b, buying[w])
        BY <2>1, <2>2, <3>1 DEF Payment, b
      <4>2. /\ DOMAIN paid' = DOMAIN paid \union {b} /\ paid'[b] = product.price
            /\ \A x \in DOMAIN paid : paid'[x] = paid[x]
        BY <2>2, <4>1 DEF Put
      <4>3. QED
        BY <2>1, <2>2, <2>3, <4>2 DEF StoreInv, LicencesPaid
    <3>2. CASE ~(buying[w] > 0)
      <4>1. paid' = paid /\ product.price = 0
        BY <2>1, <2>2, <3>2 DEF Payment
      <4>2. QED
        BY <2>1, <2>2, <2>3, <4>1 DEF StoreInv, LicencesPaid
    <3>3. QED
      BY <3>1, <3>2
  <2>6. LicencesStand
    <3>1. DOMAIN licences \intersect DOMAIN licences' = DOMAIN licences /\ DOMAIN licences \ DOMAIN licences = {}
      BY <2>3
    <3>2. sold' - sold = 1
      BY <2>1, <2>4
    <3>3. \A x \in {b} : product.status = "active" /\ licences'[x] = product.price
      BY <2>2, <2>3
    <3>4. QED
      BY <2>3, <2>4, <3>1, <3>2, <3>3 DEF LicencesStand
  <2>7. /\ DOMAIN buying' = Windows
        /\ \A v \in Windows : buying'[v] = NotBuying
    BY <2>1 DEF StoreInv
  <2>8. StoreInv'
    BY <2>1, <2>2, <2>4, <2>5, <2>7 DEF StoreInv
  <2>9. QED
    BY <2>6, <2>8
<1>12. CASE RemoveOwner
  <2>1. /\ ~Held /\ "owner" \notin departed /\ departed' = departed \union {"owner"} /\ licences' = <<>>
        /\ product' = (IF product.status = "none" THEN product ELSE [product EXCEPT !.status = "gone"])
        /\ UNCHANGED <<paid, sold, buying>>
    BY <1>12 DEF RemoveOwner
  <2>2. /\ DOMAIN product' = {"status", "price", "file"} /\ product'.price \in Nat
        /\ product'.status \in {"none", "gone"}
    BY <2>1 DEF StoreInv
  <2>3. DOMAIN licences' = {} /\ DOMAIN licences' \ DOMAIN licences = {} /\ Cardinality({}) = 0
    BY <2>1, FS_EmptySet
  <2>4. LicencesStand
    BY <2>1, <2>3 DEF LicencesStand, StoreInv
  <2>5. LicencesPaid'
    BY <2>1, <2>3 DEF LicencesPaid
  <2>6. QED
    BY <2>1, <2>2, <2>4, <2>5 DEF StoreInv, Held
<1>13. ASSUME NEW b \in {"first", "second"}, RemoveBuyer(b) PROVE StoreInv' /\ LicencesStand
  <2>1. /\ b \notin departed /\ departed' = departed \union {b} /\ b # "owner"
        /\ DOMAIN licences' = DOMAIN licences \ {b}
        /\ \A x \in DOMAIN licences' : licences'[x] = licences[x]
        /\ UNCHANGED <<product, paid, sold, buying>>
    BY <1>13 DEF RemoveBuyer
  <2>2. DOMAIN licences' \ DOMAIN licences = {} /\ Cardinality({}) = 0
    BY <2>1, FS_EmptySet
  <2>3. LicencesStand
    BY <2>1, <2>2 DEF LicencesStand, StoreInv
  <2>4. LicencesPaid'
    BY <2>1 DEF LicencesPaid, StoreInv
  <2>5. QED
    BY <2>1, <2>3, <2>4 DEF StoreInv
<1>14. QED
  BY <1>3, <1>4, <1>5, <1>6, <1>7, <1>8, <1>9, <1>10, <1>11, <1>12, <1>13 DEF StoreNext

\* The store is right at the start and after each step of the whole.
LEMMA StoreStarts == ASSUME Init PROVE StoreInv
<1>1. /\ DOMAIN buying = Windows /\ \A w \in Windows : buying[w] = NotBuying
      /\ product = [status |-> "none", price |-> 0, file |-> NoFile]
      /\ licences = <<>> /\ paid = <<>> /\ sold = 0 /\ departed = {}
  BY DEF Init, StoreInit
<1>2. DOMAIN licences = {} /\ DOMAIN paid = {}
  BY <1>1
<1>3. QED
  BY <1>1, <1>2 DEF StoreInv, LicencesPaid

LEMMA StoreGoesOn == ASSUME StoreInv, [Next]_vars PROVE StoreInv'
<1>1. StoreNext \/ UNCHANGED storeVars
  BY DEF Next, Only, vars
<1>2. CASE UNCHANGED storeVars
  BY <1>2 DEF StoreInv, storeVars, LicencesPaid
<1>3. QED
  BY <1>1, <1>2, StoreKept

------------------------------------------------------------------------------
(* Signing up                                                                *)

\* The code was mailed for a registration with the password.
MailedFor(code, password) == code \in Mailed /\ mailed[code] = password

SignUpInv ==
  /\ DOMAIN visit = Visitors
  /\ \A v \in Visitors : DOMAIN visit[v] = {"at", "password", "entered", "row"}
  /\ DOMAIN pending = {"code", "password", "attempts", "expired"}
  /\ DOMAIN account = {"password", "code", "welcomed"}
  /\ \E n \in Nat : Mailed = 1..n
  /\ pending # NoPending => MailedFor(pending.code, pending.password)
  /\ \A v \in Visitors : visit[v].at = "verifying" => MailedFor(visit[v].row.code, visit[v].row.password)
  /\ \A v \in Visitors : visit[v].at = "welcoming" => account # NoAccount
  /\ account # NoAccount => MailedFor(account.code, account.password)

\* A new code leaves the old ones as they were.
LEMMA MailAdds ==
  ASSUME SignUpInv, NEW password, NEW code, code = NextCode, Mail(code, password)
  PROVE  /\ \E n \in Nat : Mailed' = 1..n
         /\ MailedFor(code, password)'
         /\ \A c, p : MailedFor(c, p) => MailedFor(c, p)'
<1>1. PICK n \in Nat : Mailed = 1..n
  BY DEF SignUpInv
<1>2. Cardinality(1..n) = n
  BY <1>1, FS_Interval
<1>3. code = n + 1
  BY <1>1, <1>2 DEF NextCode
<1>4. mailed' = [c \in Mailed \union {code} |-> IF c = code THEN password ELSE mailed[c]]
  BY DEF Mail
<1>5. Mailed' = 1..(n + 1)
  BY <1>1, <1>3, <1>4 DEF Mailed
<1>6. ASSUME NEW c, NEW p, MailedFor(c, p) PROVE MailedFor(c, p)'
  BY <1>1, <1>3, <1>4, <1>5, <1>6 DEF MailedFor
<1>7. mailed'[code] = password /\ code \in Mailed' /\ n + 1 \in Nat
  BY <1>3, <1>4, <1>5
<1>8. \E k \in Nat : Mailed' = 1..k
  BY <1>5, <1>7
<1>9. QED
  BY <1>6, <1>7, <1>8 DEF MailedFor

\* A visitor's step with an account that is there, and a pending registration that goes or
\* stays as it is.
LEMMA VisitMoves ==
  ASSUME SignUpInv, NEW v \in Visitors, NEW q, visit' = [visit EXCEPT ![v] = q], UNCHANGED mailed,
         DOMAIN q = {"at", "password", "entered", "row"},
         q.at = "verifying" => MailedFor(q.row.code, q.row.password),
         q.at = "welcoming" => account' # NoAccount,
         account # NoAccount => account' # NoAccount,
         DOMAIN account' = {"password", "code", "welcomed"},
         account' # NoAccount => MailedFor(account'.code, account'.password),
         DOMAIN pending' = {"code", "password", "attempts", "expired"},
         pending' # NoPending => pending # NoPending /\ pending'.code = pending.code /\ pending'.password = pending.password
  PROVE  SignUpInv'
<1>1. Mailed' = Mailed /\ \A c, p : MailedFor(c, p)' <=> MailedFor(c, p)
  BY DEF Mailed, MailedFor
<1>2. DOMAIN visit' = Visitors /\ visit'[v] = q /\ \A w \in Visitors \ {v} : visit'[w] = visit[w]
  BY DEF SignUpInv
<1>3. \A w \in Visitors : /\ DOMAIN visit'[w] = {"at", "password", "entered", "row"}
                          /\ visit'[w].at = "verifying" => MailedFor(visit'[w].row.code, visit'[w].row.password)
                          /\ visit'[w].at = "welcoming" => account' # NoAccount
  BY <1>2 DEF SignUpInv
<1>4. \E n \in Nat : Mailed' = 1..n
  BY <1>1 DEF SignUpInv
<1>5. pending' # NoPending => MailedFor(pending'.code, pending'.password)
  BY DEF SignUpInv
<1>6. QED
  BY <1>1, <1>2, <1>3, <1>4, <1>5 DEF SignUpInv, MailedFor

\* A code that is mailed for the registration that is then pending.
LEMMA CodeMailed ==
  ASSUME SignUpInv, NEW password, NEW code, code = NextCode, Mail(code, password), UNCHANGED account,
         DOMAIN pending' = {"code", "password", "attempts", "expired"},
         pending'.code = code, pending'.password = password,
         DOMAIN visit' = Visitors, \A v \in Visitors : visit'[v] \in {visit[v], NoVisit}
  PROVE  SignUpInv'
<1>1. /\ \E n \in Nat : Mailed' = 1..n
      /\ MailedFor(code, password)'
      /\ \A c, p : MailedFor(c, p) => MailedFor(c, p)'
  BY MailAdds
<1>2. /\ DOMAIN NoVisit = {"at", "password", "entered", "row"}
      /\ NoVisit.at = "idle"
  BY DEF NoVisit
<1>3. \A w \in Visitors : /\ DOMAIN visit'[w] = {"at", "password", "entered", "row"}
                          /\ visit'[w].at = "verifying" => MailedFor(visit[w].row.code, visit[w].row.password) /\ visit'[w] = visit[w]
                          /\ visit'[w].at = "welcoming" => account # NoAccount
  BY <1>2 DEF SignUpInv
<1>4. account # NoAccount => MailedFor(account.code, account.password)
  BY DEF SignUpInv
<1>5. QED
  BY <1>1, <1>3, <1>4 DEF SignUpInv, MailedFor

LEMMA SignUpKept == ASSUME SignUpInv, SignUpNext PROVE SignUpInv'
<1>0. /\ DOMAIN NoVisit = {"at", "password", "entered", "row"} /\ NoVisit.at = "idle"
      /\ DOMAIN NoPending = {"code", "password", "attempts", "expired"}
  BY DEF NoVisit, NoPending
<1>1. CASE Resend
  <2>1. PICK code : code = NextCode
    OBVIOUS
  <2>2. PICK password : password = pending.password
    OBVIOUS
  <2>3. /\ Mail(code, password)
        /\ pending' = [pending EXCEPT !.code = code, !.attempts = 0, !.expired = FALSE]
        /\ UNCHANGED <<account, visit>>
    BY <1>1, <2>1, <2>2 DEF Resend
  <2>4. /\ DOMAIN pending' = {"code", "password", "attempts", "expired"}
        /\ pending'.code = code /\ pending'.password = password
    BY <2>2, <2>3 DEF SignUpInv
  <2>5. DOMAIN visit' = Visitors /\ \A v \in Visitors : visit'[v] \in {visit[v], NoVisit}
    BY <2>3 DEF SignUpInv
  <2>6. QED
    BY <2>1, <2>3, <2>4, <2>5, CodeMailed
<1>2. CASE TenMinutesPass
  <2>1. /\ UNCHANGED <<mailed, account, visit>> /\ pending # NoPending
        /\ DOMAIN pending' = {"code", "password", "attempts", "expired"}
        /\ pending'.code = pending.code /\ pending'.password = pending.password
    BY <1>2 DEF TenMinutesPass, SignUpInv
  <2>2. Mailed' = Mailed
    BY <2>1 DEF Mailed
  <2>3. QED
    BY <2>1, <2>2 DEF SignUpInv, MailedFor
<1>3. ASSUME NEW v \in Visitors, NEW password \in Passwords, Register(v, password)
      PROVE  SignUpInv'
  <2>1. PICK q : q = [NoVisit EXCEPT !.at = "hashing", !.password = password]
    OBVIOUS
  <2>2. DOMAIN q = {"at", "password", "entered", "row"} /\ q.at = "hashing"
    BY <1>0, <2>1
  <2>3. visit' = [visit EXCEPT ![v] = q] /\ UNCHANGED <<pending, mailed, account>>
    BY <1>3, <2>1 DEF Register
  <2>4. QED
    BY <2>2, <2>3, VisitMoves DEF SignUpInv
<1>4. ASSUME NEW v \in Visitors, StorePending(v)
      PROVE  SignUpInv'
  <2>1. PICK code : code = NextCode
    OBVIOUS
  <2>2. PICK password : password = visit[v].password
    OBVIOUS
  <2>3. /\ Mail(code, password) /\ UNCHANGED account
        /\ pending' = [NoPending EXCEPT !.code = code, !.password = password]
        /\ visit' = [visit EXCEPT ![v] = NoVisit]
    BY <1>4, <2>1, <2>2 DEF StorePending, Leaves
  <2>4. /\ DOMAIN pending' = {"code", "password", "attempts", "expired"}
        /\ pending'.code = code /\ pending'.password = password
    BY <2>3 DEF NoPending
  <2>5. DOMAIN visit' = Visitors /\ \A w \in Visitors : visit'[w] \in {visit[w], NoVisit}
    BY <2>3 DEF SignUpInv
  <2>6. QED
    BY <2>1, <2>3, <2>4, <2>5, CodeMailed
<1>5. ASSUME NEW v \in Visitors, NEW code \in 0..LastCode, Verify(v, code)
      PROVE  SignUpInv'
  <2>1. PICK q : q = [NoVisit EXCEPT !.at = "verifying", !.entered = code, !.row = pending]
    OBVIOUS
  <2>2. DOMAIN q = {"at", "password", "entered", "row"} /\ q.at = "verifying" /\ q.row = pending
    BY <2>1 DEF NoVisit
  <2>3. /\ visit' = [visit EXCEPT ![v] = q] /\ pending # NoPending
        /\ UNCHANGED <<pending, mailed, account>>
    BY <1>5, <2>1 DEF Verify
  <2>4. QED
    BY <2>2, <2>3, VisitMoves DEF SignUpInv
<1>6. ASSUME NEW v \in Visitors, Drop(v) \/ AlreadyRegistered(v) \/ FailWelcome(v)
      PROVE  SignUpInv'
  <2>1. /\ visit' = [visit EXCEPT ![v] = NoVisit] /\ UNCHANGED <<mailed, account>>
        /\ pending' \in {pending, NoPending}
    BY <1>6 DEF Drop, AlreadyRegistered, FailWelcome, Leaves
  <2>2. QED
    BY <1>0, <2>1, VisitMoves DEF SignUpInv
<1>7. ASSUME NEW v \in Visitors, WrongCode(v)
      PROVE  SignUpInv'
  <2>1. /\ visit' = [visit EXCEPT ![v] = NoVisit] /\ UNCHANGED <<mailed, account>>
        /\ pending' = IF pending = NoPending THEN NoPending ELSE [pending EXCEPT !.attempts = @ + 1]
    BY <1>7 DEF WrongCode, Leaves
  <2>2. /\ DOMAIN pending' = {"code", "password", "attempts", "expired"}
        /\ pending' # NoPending => pending # NoPending /\ pending'.code = pending.code /\ pending'.password = pending.password
    BY <1>0, <2>1 DEF SignUpInv
  <2>3. QED
    BY <1>0, <2>1, <2>2, VisitMoves DEF SignUpInv
<1>8. ASSUME NEW v \in Visitors, CreateUser(v)
      PROVE  SignUpInv'
  <2>1. /\ visit[v].at = "verifying" /\ visit[v].entered = visit[v].row.code
        /\ account' = [password |-> visit[v].row.password, code |-> visit[v].row.code, welcomed |-> FALSE]
        /\ UNCHANGED <<pending, mailed>>
    BY <1>8 DEF CreateUser, RightCode, PasswordOf
  <2>2. PICK q : q = [visit[v] EXCEPT !.at = "welcoming"]
    OBVIOUS
  <2>3. visit' = [visit EXCEPT ![v] = q]
    BY <1>8, <2>2 DEF CreateUser
  <2>4. DOMAIN q = {"at", "password", "entered", "row"} /\ q.at = "welcoming"
    BY <2>2 DEF SignUpInv
  <2>5. MailedFor(visit[v].row.code, visit[v].row.password)
    BY <2>1 DEF SignUpInv
  <2>6. visit[v].row.code # 0
    BY <2>5 DEF SignUpInv, MailedFor
  <2>7. /\ DOMAIN account' = {"password", "code", "welcomed"} /\ account' # NoAccount
        /\ MailedFor(account'.code, account'.password)
    BY <2>1, <2>5, <2>6 DEF NoAccount
  <2>8. QED
    BY <2>1, <2>3, <2>4, <2>7, VisitMoves DEF SignUpInv
<1>9. ASSUME NEW v \in Visitors, Welcome(v)
      PROVE  SignUpInv'
  <2>1. /\ account # NoAccount /\ MailedFor(account.code, account.password)
        /\ account' = [account EXCEPT !.welcomed = TRUE]
        /\ visit' = [visit EXCEPT ![v] = NoVisit]
        /\ pending' = NoPending /\ UNCHANGED mailed
    BY <1>9 DEF Welcome, Leaves, SignUpInv
  <2>2. account.code # 0
    BY <2>1 DEF SignUpInv, MailedFor
  <2>3. /\ DOMAIN account' = {"password", "code", "welcomed"}
        /\ account'.code = account.code /\ account'.password = account.password
    BY <2>1 DEF SignUpInv
  <2>4. account' # NoAccount
    BY <2>2, <2>3 DEF NoAccount
  <2>5. QED
    BY <1>0, <2>1, <2>3, <2>4, VisitMoves
<1>10. QED
  BY <1>1, <1>2, <1>3, <1>4, <1>5, <1>6, <1>7, <1>8, <1>9 DEF SignUpNext

------------------------------------------------------------------------------
(* The row of a member                                                        *)

\* A day, or none, that is no further away than Pro time was given.
Covered(until) == until \in Int /\ until >= Never /\ (until # Never => until - today <= given)

\* A kept whose subscription, if it has one, ends on such a day.
SoundMember(kept) ==
  /\ DOMAIN kept = {"there", "role", "blocked", "status", "expiry"}
  /\ Covered(kept.expiry)
  /\ kept.status = "active" => kept.expiry # Never

AccessInv ==
  /\ today \in Nat /\ given \in Nat
  /\ SoundMember(member)
  /\ wizard \in Powers \union {"idle"}
  /\ DOMAIN notices = Notices
  /\ \A n \in Notices : DOMAIN notices[n] = {"at", "read"} /\ Covered(notices[n].read)

\* Days that pass and time that is given leave what was covered so.
LEMMA CoverStays ==
  ASSUME AccessInv, NEW until, Covered(until),
         today' \in Nat, given' \in Nat, today <= today', given <= given'
  PROVE  Covered(until)'
<1>1. today \in Nat /\ given \in Nat
  BY DEF AccessInv
<1>2. until \in Int /\ until >= Never
  BY DEF Covered
<1>3. until # Never => until - today' <= given'
  <2>1. until # Never => until - today <= given
    BY DEF Covered
  <2>2. until - today' <= until - today
    <3>1. \A u, t, w \in Int : t <= w => u - w <= u - t
      OBVIOUS
    <3>2. until \in Int /\ today \in Int /\ today' \in Int /\ today <= today'
      BY <1>1, <1>2
    <3> QED
      BY ONLY <3>1, <3>2
  <2>3. until - today' \in Int /\ until - today \in Int
    BY <1>1, <1>2
  <2>4. QED
    BY <1>1, <2>1, <2>2, <2>3
<1>4. QED
  BY <1>2, <1>3 DEF Covered, Never

LEMMA MemberChanges ==
  ASSUME AccessInv, today' = today, given' \in Nat, given <= given',
         NEW kept, SoundMember(kept)', member' \in {kept, member}, UNCHANGED notices, wizard' \in Powers \union {"idle"}
  PROVE  AccessInv'
<1>1. \A until : Covered(until) => Covered(until)'
  BY CoverStays DEF AccessInv
<1>2. SoundMember(member)'
  <2>1. CASE member' = kept
    BY <2>1 DEF SoundMember, Covered
  <2>2. CASE member' = member
    BY <1>1, <2>2 DEF AccessInv, SoundMember, Covered
  <2>3. QED
    BY <2>1, <2>2
<1>3. \A n \in Notices : Covered(notices[n].read)'
  BY <1>1 DEF AccessInv, Covered
<1>4. QED
  BY <1>2, <1>3 DEF AccessInv, Covered

LEMMA PowerKept ==
  ASSUME AccessInv, NEW power \in Powers, Exercise(power), Gives(power), UNCHANGED <<today, notices>>,
         wizard' \in Powers \union {"idle"}
  PROVE  AccessInv'
<1>1. given' \in Nat /\ given <= given' /\ (power = "grant" => given' = given + 1)
  BY DEF AccessInv, Gives
<1>2. \A until : Covered(until) => Covered(until)'
  BY <1>1, CoverStays DEF AccessInv
<1>3. ASSUME NEW kept, SoundMember(kept) PROVE SoundMember(kept)'
  BY <1>2, <1>3 DEF SoundMember, Covered
<1>4. CASE power = "block"
  <2>1. PICK kept : kept = [member EXCEPT !.blocked = TRUE]
    OBVIOUS
  <2>2. SoundMember(kept)
    BY <2>1 DEF AccessInv, SoundMember
  <2>3. member' \in {kept, member}
    BY <1>4, <2>1 DEF Exercise, Update
  <2>4. QED
    BY <1>1, <1>3, <2>2, <2>3, MemberChanges
<1>5. CASE power = "unblock"
  <2>1. PICK kept : kept = [member EXCEPT !.blocked = FALSE]
    OBVIOUS
  <2>2. SoundMember(kept)
    BY <2>1 DEF AccessInv, SoundMember
  <2>3. member' \in {kept, member}
    BY <1>5, <2>1 DEF Exercise, Update
  <2>4. QED
    BY <1>1, <1>3, <2>2, <2>3, MemberChanges
<1>6. CASE power = "grant"
  <2>1. PICK kept : kept = [member EXCEPT !.status = "active", !.expiry = today + 1]
    OBVIOUS
  <2>2. SoundMember(kept)'
    BY <1>1, <1>6, <2>1 DEF AccessInv, SoundMember, Covered, Never
  <2>3. member' \in {kept, member}
    BY <1>6, <2>1 DEF Exercise, Update, ActiveUntil
  <2>4. QED
    BY <1>1, <2>2, <2>3, MemberChanges
<1>7. CASE power = "free"
  <2>1. PICK kept : kept = [member EXCEPT !.status = "free", !.expiry = Never]
    OBVIOUS
  <2>2. SoundMember(kept)
    BY <2>1 DEF AccessInv, SoundMember, Covered, Never
  <2>3. member' \in {kept, member}
    BY <1>7, <2>1 DEF Exercise, Update, Free
  <2>4. QED
    BY <1>1, <1>3, <2>2, <2>3, MemberChanges
<1>8. CASE power = "delete"
  <2>1. PICK kept : kept = [NewMember EXCEPT !.there = FALSE]
    OBVIOUS
  <2>2. SoundMember(kept)
    BY <2>1 DEF SoundMember, Covered, NewMember, Never
  <2>3. member' = kept
    BY <1>8, <2>1 DEF Exercise
  <2>4. QED
    BY <1>1, <1>3, <2>2, <2>3, MemberChanges
<1>9. QED
  BY <1>4, <1>5, <1>6, <1>7, <1>8 DEF Powers

LEMMA AccessKept == ASSUME AccessInv, AccessNext PROVE AccessInv'
<1>1. CASE UNCHANGED <<today, member, notices, given>> /\ wizard' \in Powers \union {"idle"}
  BY <1>1 DEF AccessInv, SoundMember, Covered
<1>2. CASE DayPassesBy
  <2>1. /\ today' = today + 1 /\ UNCHANGED <<member, notices, wizard, given>>
        /\ today' \in Nat /\ given' \in Nat /\ today <= today' /\ given <= given'
    BY <1>2 DEF DayPassesBy, AccessInv
  <2>2. \A until : Covered(until) => Covered(until)'
    BY <2>1, CoverStays
  <2>3. QED
    BY <2>1, <2>2 DEF AccessInv, SoundMember, Covered
<1>3. CASE SeeLapsed
  BY <1>1, <1>3 DEF SeeLapsed, AccessInv
<1>4. CASE EndLapsed
  <2>1. PICK kept : kept = [member EXCEPT !.status = "free"]
    OBVIOUS
  <2>2. member' \in {kept, member} /\ UNCHANGED <<today, notices, wizard, given>>
    BY <1>4, <2>1 DEF EndLapsed, Update
  <2>3. SoundMember(kept)'
    BY <2>1, <2>2 DEF AccessInv, SoundMember, Covered
  <2>4. QED
    BY <2>2, <2>3, MemberChanges DEF AccessInv
<1>5. CASE Appoint
  <2>1. PICK kept : kept = [ActiveUntil(today + WizardDays) EXCEPT !.role = "wizard"]
    OBVIOUS
  <2>2. /\ member' \in {kept, member} /\ UNCHANGED <<today, notices, wizard>> /\ given' = given + WizardDays
        /\ given' \in Nat /\ given <= given'
    BY <1>5, <2>1, AccessAssumption DEF Appoint, Update, AccessInv
  <2>3. /\ DOMAIN kept = {"there", "role", "blocked", "status", "expiry"}
        /\ kept.expiry = today + WizardDays
    BY <2>1 DEF ActiveUntil, AccessInv, SoundMember
  <2>4. SoundMember(kept)'
    BY <2>2, <2>3, AccessAssumption DEF AccessInv, SoundMember, Covered, Never
  <2>5. QED
    BY <2>2, <2>4, MemberChanges DEF AccessInv
<1>6. CASE Dismiss
  <2>1. PICK kept : kept = [member EXCEPT !.role = "user"]
    OBVIOUS
  <2>2. member' \in {kept, member} /\ UNCHANGED <<today, notices, wizard, given>>
    BY <1>6, <2>1 DEF Dismiss, Update
  <2>3. SoundMember(kept)'
    BY <2>1, <2>2 DEF AccessInv, SoundMember, Covered
  <2>4. QED
    BY <2>2, <2>3, MemberChanges DEF AccessInv
<1>7. ASSUME NEW power \in Powers, Administer(power) \/ LoadTarget(power) PROVE AccessInv'
  BY <1>1, <1>7, PowerKept DEF Administer, LoadTarget, AccessInv
<1>8. CASE WizardActs
  <2>1. Exercise(wizard) /\ Gives(wizard) /\ UNCHANGED <<today, notices>> /\ wizard \in Powers /\ wizard' = "idle"
    BY <1>8 DEF WizardActs, AccessInv
  <2>2. QED
    BY <2>1, PowerKept
<1>9. ASSUME NEW n \in Notices, ReadExpiry(n) PROVE AccessInv'
  <2>1. /\ notices' = [notices EXCEPT ![n] = [at |-> "read", read |-> member.expiry]]
        /\ UNCHANGED <<today, member, wizard, given>>
    BY <1>9 DEF ReadExpiry
  <2>2. /\ DOMAIN notices' = Notices
        /\ \A m \in Notices : DOMAIN notices'[m] = {"at", "read"} /\ Covered(notices'[m].read)
    BY <2>1 DEF AccessInv, SoundMember
  <2>3. QED
    BY <2>1, <2>2 DEF AccessInv, SoundMember, Covered
<1>10. ASSUME NEW n \in Notices, Extend(n) PROVE AccessInv'
  <2>1. PICK until : until = Extended(notices[n].read)
    OBVIOUS
  <2>2. until \in Nat /\ until - today <= given + 1
    BY <2>1 DEF Extended, AccessInv, Covered, Never
  <2>3. PICK kept : kept = [member EXCEPT !.status = "active", !.expiry = until]
    OBVIOUS
  <2>4. /\ member' \in {kept, member} /\ UNCHANGED <<today, wizard>> /\ given' = given + 1
        /\ notices' = [notices EXCEPT ![n].at = "done"]
        /\ given' \in Nat /\ given <= given' /\ today' \in Nat /\ today <= today'
    BY <1>10, <2>1, <2>3 DEF Extend, Update, ActiveUntil, AccessInv
  <2>5. \A t : Covered(t) => Covered(t)'
    BY <2>4, CoverStays
  <2>6. SoundMember(kept)' /\ (SoundMember(member) => SoundMember(member)')
    <3>1. SoundMember(kept)'
      BY <2>2, <2>3, <2>4 DEF AccessInv, SoundMember, Covered, Never
    <3>2. CASE member' = member
      BY <2>5, <3>1, <3>2 DEF SoundMember, Covered
    <3>3. CASE member' = kept
      BY <3>1, <3>3 DEF SoundMember, Covered
    <3>4. QED
      BY <2>4, <3>1, <3>2, <3>3
  <2>7. /\ DOMAIN notices' = Notices
        /\ \A m \in Notices : DOMAIN notices'[m] = {"at", "read"} /\ Covered(notices'[m].read)
    BY <2>4 DEF AccessInv
  <2>8. QED
    BY <2>4, <2>5, <2>6, <2>7 DEF AccessInv, Covered
<1>11. ASSUME NEW call \in {"appoint", "dismiss"}, ReadRole(call) PROVE AccessInv'
  BY <1>1, <1>11 DEF ReadRole, AccessInv
<1>12. QED
  BY <1>2, <1>3, <1>4, <1>5, <1>6, <1>7, <1>8, <1>9, <1>10, <1>11 DEF AccessNext

------------------------------------------------------------------------------
(* Real prices                                                               *)

\* A call knows a moment that has been; the price it got, when it opens or exits a
\* position, is no older than the cache allows.
SoundCall(q) ==
  /\ q = [what |-> q.what, since |-> q.since, got |-> q.got]
  /\ q.since \in Nat /\ q.since <= now
  /\ q.got \in Int
  /\ q.what \in {"open", "cashout"} /\ q.got # NoPrice => q.since - q.got < SPOT_TTL

\* A price of the cache was the market's when it was asked for, or later.
SoundCache ==
  /\ spotCache.price \in Int /\ spotCache.at \in Nat
  /\ spotCache.price # NoPrice => spotCache.price >= spotCache.at

PricesInv ==
  /\ now \in 0..LastCandle
  /\ DOMAIN asking = Calls
  /\ \A c \in Calls : SoundCall(asking[c])
  /\ SoundCache

Untouched(until) == \A u \in (deal.opened + 1)..until : u <= LastCandle => reached[u] = {}
FirstTouch(bs) == \E t \in deal.opened..LastCandle : reached[t] = bs /\ Untouched(t - 1)

\* What VerdictShown says of a position that has ended.
SettledAsSeen ==
  /\ deal.status = "won" => FirstTouch({"target"})
  /\ deal.status = "lost" => FirstTouch({"stop"})
  /\ deal.status = "void" =>
       /\ now >= deal.expires
       /\ Untouched(IF deal.expires < deal.opened + MaxCandles THEN deal.expires - 1 ELSE deal.opened + MaxCandles - 1)
  /\ deal.status = "draw" => now >= deal.expires \/ FirstTouch(Barriers)

DealInv ==
  /\ PricesInv
  /\ DOMAIN reached = 0..LastCandle
  /\ \A t \in 0..LastCandle : reached[t] \subseteq Barriers
  /\ deal = [status |-> deal.status, opened |-> deal.opened, expires |-> deal.expires, age |-> deal.age]
  /\ deal.opened \in Nat /\ deal.expires \in Int /\ deal.age \in Int
  /\ deal.age < SPOT_TTL
  /\ SettledAsSeen

LEMMA ShownIsVerdict == ASSUME DealInv PROVE VerdictShown
BY DEF DealInv, SettledAsSeen, VerdictShown, FirstTouch, Untouched

\* The end of a call.
LEMMA NoCallIsSound == ASSUME PricesInv PROVE SoundCall(NoCall1)
BY PricesAssumption DEF PricesInv, SoundCall, NoCall1, NoPrice

LEMMA CallMoves ==
  ASSUME PricesInv, NEW c \in Calls, NEW q, SoundCall(q), asking' = [asking EXCEPT ![c] = q],
         now' = now, SoundCache'
  PROVE  PricesInv'
<1>1. DOMAIN asking' = Calls /\ \A k \in Calls : SoundCall(asking'[k])
  BY DEF PricesInv
<1>2. QED
  BY <1>1 DEF PricesInv, SoundCall

LEMMA CallEnds ==
  ASSUME PricesInv, NEW c \in Calls, EndsCall(c), UNCHANGED <<now, spotCache>>
  PROVE  PricesInv'
BY CallMoves, NoCallIsSound DEF EndsCall, PricesInv, SoundCache

LEMMA TimeKeepsCalls == ASSUME PricesInv, TimePasses PROVE PricesInv'
<1>1. now' \in 0..LastCandle /\ now <= now' /\ UNCHANGED <<asking, spotCache>>
  BY PricesAssumption DEF TimePasses, PricesInv
<1>2. QED
  BY <1>1 DEF PricesInv, SoundCall, SoundCache

LEMMA BeginKeepsCalls ==
  ASSUME PricesInv, NEW c \in Calls, NEW what \in {"open", "cashout", "evaluate", "strip"}, Begin(c, what)
  PROVE  PricesInv'
<1>1. PICK q : q = [what |-> what, since |-> now, got |-> IF what \in Spots /\ Young(what) THEN spotCache.price ELSE NoPrice]
  OBVIOUS
<1>2. asking' = [asking EXCEPT ![c] = q] /\ UNCHANGED <<now, spotCache>>
  BY <1>1 DEF Begin
<1>3. q.got \in Int /\ (what \in {"open", "cashout"} /\ q.got # NoPrice => now - q.got < SPOT_TTL)
  <2>1. CASE what \in Spots /\ Young(what)
    <3>1. q.got = spotCache.price /\ spotCache.price # NoPrice /\ now - spotCache.at < MaxAge(what)
      BY <1>1, <2>1 DEF Young
    <3>2. /\ spotCache.price \in Int /\ spotCache.at \in Nat /\ spotCache.price >= spotCache.at
          /\ now \in Nat /\ SPOT_TTL \in Nat
      BY <3>1, PricesAssumption DEF PricesInv, SoundCache
    <3>3. CASE what \in {"open", "cashout"}
      <4>1. MaxAge(what) = SPOT_TTL
        BY <3>3 DEF MaxAge
      <4>2. QED
        BY <3>1, <3>2, <4>1
    <3>4. QED
      BY <3>1, <3>2, <3>3
  <2>2. CASE ~(what \in Spots /\ Young(what))
    BY <1>1, <2>2 DEF NoPrice
  <2>3. QED
    BY <2>1, <2>2
<1>4. SoundCall(q)
  BY <1>1, <1>3 DEF SoundCall, PricesInv
<1>5. QED
  BY <1>2, <1>4, CallMoves DEF PricesInv, SoundCache

LEMMA SpotKeepsCalls ==
  ASSUME PricesInv, NEW c \in Calls, NEW p \in 0..LastCandle, SpotArrives(c, p)
  PROVE  PricesInv'
<1>1. PICK q : q = [asking[c] EXCEPT !.got = p]
  OBVIOUS
<1>2. /\ asking' = [asking EXCEPT ![c] = q] /\ now' = now
      /\ spotCache' = [price |-> p, at |-> asking[c].since] /\ p \in asking[c].since..now
  BY <1>1 DEF SpotArrives, Cached
<1>3. SoundCall(asking[c])
  BY DEF PricesInv
<1>4. SoundCall(q)
  BY <1>1, <1>2, <1>3, PricesAssumption DEF SoundCall, PricesInv
<1>5. SoundCache'
  BY <1>2, <1>3 DEF SoundCache, SoundCall, PricesInv
<1>6. QED
  BY <1>2, <1>4, <1>5, CallMoves

\* What a position was settled at stays so: the market is no longer watched.
LEMMA VerdictStays ==
  ASSUME DealInv, PricesInv', deal' = deal, now <= now',
         DOMAIN reached' = 0..LastCandle, \A t \in 0..LastCandle : reached'[t] \subseteq Barriers,
         reached' = reached \/ deal.status \in {"none", "open"}
  PROVE  DealInv'
<1>1. now \in Int /\ now' \in Int
  BY DEF DealInv, PricesInv
<1>2. SettledAsSeen'
  <2>1. CASE deal.status \in {"none", "open"}
    BY <2>1 DEF SettledAsSeen
  <2>2. CASE reached' = reached
    <3>1. /\ \A u : Untouched(u)' <=> Untouched(u)
          /\ \A bs : FirstTouch(bs)' <=> FirstTouch(bs)
      BY <2>2 DEF Untouched, FirstTouch
    <3>2. now >= deal.expires => now' >= deal.expires
      BY <1>1 DEF DealInv
    <3>3. QED
      BY <3>1, <3>2 DEF DealInv, SettledAsSeen
  <2>3. QED
    BY <2>1, <2>2
<1>3. QED
  BY <1>2 DEF DealInv

\* The candle that decides is the first that touched.
LEMMA DecidesFirst ==
  ASSUME DealInv, NEW first \in {deal.opened, deal.opened + 1}, NEW upTo \in Nat, upTo <= now,
         NEW window, window = Window(first, upTo), NEW t \in window, Decides(t, window)
  PROVE  t \in deal.opened..LastCandle /\ Untouched(t - 1) /\ reached[t] # {}
<1>1. /\ deal.opened \in Nat /\ deal.expires \in Int /\ now \in 0..LastCandle /\ LastCandle \in Nat
      /\ MaxCandles \in Nat
  BY PricesAssumption DEF DealInv, PricesInv
<1>2. /\ t \in first..(deal.opened + MaxCandles - 1) /\ t <= upTo /\ t <= deal.expires
      /\ reached[t] # {}
      /\ \A u \in window : reached[u] # {} => t <= u
  BY DEF Window, Decides, Touched
<1>3. ASSUME NEW u \in (deal.opened + 1)..(t - 1) PROVE reached[u] = {}
  <2>1. u \in Int /\ u < t /\ u \in first..(deal.opened + MaxCandles - 1) /\ u <= upTo /\ u <= deal.expires
    BY <1>1, <1>2
  <2>2. u \in window
    BY <2>1 DEF Window
  <2>3. QED
    BY <1>2, <2>1, <2>2
<1>4. QED
  BY <1>1, <1>2, <1>3 DEF Untouched

\* An open position that is settled.
LEMMA ResolvedShown ==
  ASSUME DealInv, PricesInv', UNCHANGED <<now, reached>>, NEW status,
         deal' = IF deal.status = "open" THEN [deal EXCEPT !.status = status] ELSE deal,
         status = "won" => FirstTouch({"target"}),
         status = "lost" => FirstTouch({"stop"}),
         status = "void" =>
           /\ now >= deal.expires
           /\ Untouched(IF deal.expires < deal.opened + MaxCandles THEN deal.expires - 1 ELSE deal.opened + MaxCandles - 1),
         status = "draw" => now >= deal.expires \/ FirstTouch(Barriers)
  PROVE  DealInv'
<1>1. CASE deal.status # "open"
  <2>1. deal' = deal /\ now \in Int
    BY <1>1 DEF DealInv, PricesInv
  <2>2. QED
    BY <2>1, VerdictStays DEF DealInv
<1>2. CASE deal.status = "open"
  <2>1. /\ deal' = [status |-> deal'.status, opened |-> deal'.opened, expires |-> deal'.expires, age |-> deal'.age]
        /\ deal'.status = status /\ deal'.opened = deal.opened /\ deal'.expires = deal.expires /\ deal'.age = deal.age
    BY <1>2 DEF DealInv
  <2>2. /\ \A u : Untouched(u)' <=> Untouched(u)
        /\ \A bs : FirstTouch(bs)' <=> FirstTouch(bs)
    BY <2>1 DEF Untouched, FirstTouch
  <2>3. SettledAsSeen'
    BY <2>1, <2>2 DEF SettledAsSeen
  <2>4. QED
    BY <2>1, <2>3 DEF DealInv
<1>3. QED
  BY <1>1, <1>2

\* Nothing was touched in the candles of the window, and the limit has come.
LEMMA UntouchedInWindow ==
  ASSUME DealInv, NEW first \in {deal.opened, deal.opened + 1}, NEW upTo \in Nat, upTo >= deal.expires,
         Touched(Window(first, upTo)) = {}
  PROVE  Untouched(IF deal.expires < deal.opened + MaxCandles THEN deal.expires - 1 ELSE deal.opened + MaxCandles - 1)
<1> DEFINE until == IF deal.expires < deal.opened + MaxCandles THEN deal.expires - 1 ELSE deal.opened + MaxCandles - 1
<1>1. deal.opened \in Nat /\ deal.expires \in Int /\ MaxCandles \in Nat
  BY PricesAssumption DEF DealInv
<1>2. until \in Int /\ until <= deal.expires - 1 /\ until <= deal.opened + MaxCandles - 1
  BY <1>1
<1> HIDE DEF until
<1>3. ASSUME NEW u \in (deal.opened + 1)..until PROVE reached[u] = {}
  <2>1. u \in first..(deal.opened + MaxCandles - 1) /\ u <= upTo /\ u <= deal.expires
    BY <1>1, <1>2
  <2>2. u \in Window(first, upTo)
    BY <2>1 DEF Window
  <2>3. QED
    BY <2>2 DEF Touched
<1>4. Untouched(until)
  BY <1>3 DEF Untouched
<1>5. QED
  BY <1>4 DEF until

LEMMA CandlesKeepDeal ==
  ASSUME DealInv, NEW c \in Calls, NEW first \in {deal.opened, deal.opened + 1}, CandlesGiven(c, first)
  PROVE  DealInv'
<1> DEFINE upTo == asking[c].since
           window == Window(first, upTo)
<1>1. /\ EndsCall(c) /\ UNCHANGED <<now, reached, spotCache>>
      /\ \/ \E t \in window : Decides(t, window) /\ Resolved1(VerdictAt(t))
         \/ Touched(window) = {} /\ Resolved1(IF Matured(asking[c]) THEN "void" ELSE "open")
  BY DEF CandlesGiven
<1>2. PricesInv'
  BY <1>1, CallEnds DEF DealInv
<1>3. upTo \in Nat /\ upTo <= now /\ now \in Int /\ deal.expires \in Int
  BY DEF DealInv, PricesInv, SoundCall
<1>4. CASE \E t \in window : Decides(t, window) /\ Resolved1(VerdictAt(t))
  <2>1. PICK t \in window : Decides(t, window) /\ Resolved1(VerdictAt(t))
    BY <1>4
  <2>2. t \in deal.opened..LastCandle /\ Untouched(t - 1) /\ reached[t] # {}
    BY <1>3, <2>1, DecidesFirst
  <2>3. t \in 0..LastCandle
    BY <2>2 DEF DealInv
  <2>4. reached[t] \in {{"target"}, {"stop"}, Barriers}
    BY <2>2, <2>3 DEF DealInv, Barriers
  <2>5. PICK status : status = VerdictAt(t)
    OBVIOUS
  <2>6. /\ status = "won" => reached[t] = {"target"}
        /\ status = "lost" => reached[t] = {"stop"}
        /\ status = "draw" => reached[t] = Barriers
        /\ status # "void"
    <3>1. CASE reached[t] = {"target"}
      BY <2>5, <3>1 DEF VerdictAt
    <3>2. CASE reached[t] = {"stop"}
      BY <2>5, <3>2 DEF VerdictAt
    <3>3. CASE reached[t] = Barriers
      BY <2>5, <3>3 DEF VerdictAt, Barriers
    <3>4. QED
      BY <2>4, <3>1, <3>2, <3>3
  <2>7. deal' = IF deal.status = "open" THEN [deal EXCEPT !.status = status] ELSE deal
    BY <2>1, <2>5 DEF Resolved1
  <2>8. /\ status = "won" => FirstTouch({"target"})
        /\ status = "lost" => FirstTouch({"stop"})
        /\ status = "draw" => FirstTouch(Barriers)
    BY <2>2, <2>6 DEF FirstTouch
  <2>9. QED
    BY <1>1, <1>2, <2>6, <2>7, <2>8, ResolvedShown
<1>5. CASE Touched(window) = {} /\ Resolved1(IF Matured(asking[c]) THEN "void" ELSE "open")
  <2>1. PICK status : status = IF Matured(asking[c]) THEN "void" ELSE "open"
    OBVIOUS
  <2>2. deal' = IF deal.status = "open" THEN [deal EXCEPT !.status = status] ELSE deal
    BY <1>5, <2>1 DEF Resolved1
  <2>3. status = "void" => upTo >= deal.expires
    BY <2>1 DEF Matured
  <2>4. status = "void" =>
          Untouched(IF deal.expires < deal.opened + MaxCandles THEN deal.expires - 1 ELSE deal.opened + MaxCandles - 1)
    BY <1>3, <1>5, <2>3, UntouchedInWindow
  <2>5. /\ status \in {"void", "open"} /\ (status = "void" => now >= deal.expires)
    BY <1>3, <2>1, <2>3
  <2>6. QED
    BY <1>1, <1>2, <2>2, <2>4, <2>5, ResolvedShown
<1>6. QED
  BY <1>1, <1>4, <1>5

LEMMA DealKept == ASSUME DealInv, DealNext PROVE DealInv'
<1>1. PricesInv /\ now \in Int /\ DOMAIN reached = 0..LastCandle /\ \A t \in 0..LastCandle : reached[t] \subseteq Barriers
  BY DEF DealInv, PricesInv
<1>2. CASE TimePasses
  <2>1. /\ now' = now + 1 /\ deal' = deal
        /\ reached' = IF deal.status = "none" THEN [reached EXCEPT ![now] = {}] ELSE reached
    BY <1>2 DEF TimePasses
  <2>2. PricesInv' /\ now <= now'
    BY <1>1, <1>2, <2>1, TimeKeepsCalls
  <2>3. DOMAIN reached' = 0..LastCandle /\ \A t \in 0..LastCandle : reached'[t] \subseteq Barriers
    BY <1>1, <2>1
  <2>4. reached' = reached \/ deal.status \in {"none", "open"}
    BY <2>1
  <2>5. QED
    BY <2>1, <2>2, <2>3, <2>4, VerdictStays
<1>3. ASSUME NEW b \in Barriers, MarketReaches(b) PROVE DealInv'
  <2>1. /\ deal.status \in {"none", "open"} /\ reached' = [reached EXCEPT ![now] = @ \union {b}]
        /\ UNCHANGED <<now, spotCache, deal, asking>>
    BY <1>3 DEF MarketReaches
  <2>2. PricesInv'
    BY <1>1, <2>1 DEF PricesInv, SoundCall, SoundCache
  <2>3. DOMAIN reached' = 0..LastCandle /\ \A t \in 0..LastCandle : reached'[t] \subseteq Barriers
    BY <1>1, <2>1
  <2>4. QED
    BY <1>1, <2>1, <2>2, <2>3, VerdictStays
<1>4. ASSUME NEW c \in Calls, NEW what \in {"open", "cashout", "evaluate"}, Begin(c, what) PROVE DealInv'
  <2>1. PricesInv' /\ UNCHANGED <<now, reached, deal>>
    BY <1>1, <1>4, BeginKeepsCalls DEF Begin
  <2>2. QED
    BY <1>1, <2>1, VerdictStays
<1>5. ASSUME NEW c \in Calls, NEW p \in 0..LastCandle, SpotArrives(c, p) PROVE DealInv'
  <2>1. PricesInv' /\ UNCHANGED <<now, reached, deal>>
    BY <1>1, <1>5, SpotKeepsCalls DEF SpotArrives
  <2>2. QED
    BY <1>1, <2>1, VerdictStays
<1>6. ASSUME NEW c \in Calls, SpotFails(c) \/ RefuseDeal(c) PROVE DealInv'
  <2>1. PricesInv' /\ UNCHANGED <<now, reached, deal>>
    BY <1>1, <1>6, CallEnds DEF SpotFails, RefuseDeal
  <2>2. QED
    BY <1>1, <2>1, VerdictStays
<1>7. ASSUME NEW c \in Calls, Got(c, "open") \/ Got(c, "cashout") PROVE Age(asking[c]) \in Int /\ Age(asking[c]) < SPOT_TTL
  <2>1. SoundCall(asking[c]) /\ asking[c].what \in {"open", "cashout"} /\ asking[c].got # NoPrice
    BY <1>1, <1>7 DEF PricesInv, Got
  <2>2. QED
    BY <2>1, PricesAssumption DEF SoundCall, Age
<1>8. ASSUME NEW c \in Calls, CashOutDeal(c) PROVE DealInv'
  <2>1. PICK age : age = Age(asking[c])
    OBVIOUS
  <2>2. age \in Int /\ age < SPOT_TTL
    BY <1>7, <1>8, <2>1 DEF CashOutDeal
  <2>3. deal' = [deal EXCEPT !.status = "cashed", !.age = age] /\ UNCHANGED <<now, reached>>
    BY <1>8, <2>1 DEF CashOutDeal
  <2>4. PricesInv'
    BY <1>1, <1>8, CallEnds DEF CashOutDeal
  <2>5. /\ deal' = [status |-> deal'.status, opened |-> deal'.opened, expires |-> deal'.expires, age |-> deal'.age]
        /\ deal'.status = "cashed" /\ deal'.opened = deal.opened /\ deal'.expires = deal.expires /\ deal'.age = age
    BY <2>3 DEF DealInv
  <2>6. SettledAsSeen'
    BY <2>5 DEF SettledAsSeen
  <2>7. QED
    BY <1>1, <2>2, <2>3, <2>4, <2>5, <2>6 DEF DealInv
<1>9. ASSUME NEW c \in Calls, NEW limited \in BOOLEAN, OpenDeal(c, limited) PROVE DealInv'
  <2>1. PICK age : age = Age(asking[c])
    OBVIOUS
  <2>2. PICK expires : expires = IF limited THEN asking[c].since + TimeLimit ELSE Endless
    OBVIOUS
  <2>3. deal' = [status |-> "open", opened |-> now, age |-> age, expires |-> expires] /\ UNCHANGED <<now, reached>>
    BY <1>9, <2>1, <2>2 DEF OpenDeal
  <2>4. age \in Int /\ age < SPOT_TTL
    BY <1>7, <1>9, <2>1 DEF OpenDeal
  <2>5. expires \in Int /\ now \in Nat
    BY <1>1, <2>2, PricesAssumption DEF PricesInv, SoundCall, Endless
  <2>6. PricesInv'
    BY <1>1, <1>9, CallEnds DEF OpenDeal
  <2>7. SettledAsSeen'
    BY <2>3 DEF SettledAsSeen
  <2>8. QED
    BY <1>1, <2>3, <2>4, <2>5, <2>6, <2>7 DEF DealInv
<1>10. ASSUME NEW c \in Calls, NoCandles(c) PROVE DealInv'
  <2>1. PICK status : status = IF Matured(asking[c]) THEN "draw" ELSE "open"
    OBVIOUS
  <2>2. /\ deal' = IF deal.status = "open" THEN [deal EXCEPT !.status = status] ELSE deal
        /\ UNCHANGED <<now, reached>>
    BY <1>10, <2>1 DEF NoCandles, Resolved1
  <2>3. PricesInv'
    BY <1>1, <1>10, CallEnds DEF NoCandles
  <2>4. asking[c].since \in Nat /\ asking[c].since <= now /\ deal.expires \in Int
    BY DEF DealInv, PricesInv, SoundCall
  <2>5. status \in {"draw", "open"} /\ (status = "draw" => now >= deal.expires)
    BY <1>1, <2>1, <2>4 DEF Matured
  <2>6. QED
    BY <2>2, <2>3, <2>5, ResolvedShown
<1>11. QED
  BY <1>2, <1>3, <1>4, <1>5, <1>6, <1>8, <1>9, <1>10, CandlesKeepDeal DEF DealNext

\* The strip: the ambient price of a tile is older than the first real one, also where it is
\* still on its way.
StripInv ==
  /\ PricesInv
  /\ lastReal \in Int
  /\ \A c \in Calls : asking[c].what = "ambient" => asking[c].since <= lastReal
  /\ strip.at \in Nat /\ strip.at <= now
  /\ TileShown

LEMMA StripKept == ASSUME StripInv, StripNext PROVE StripInv'
<1>1. PricesInv /\ now \in 0..LastCandle /\ LastCandle \in Nat /\ DOMAIN asking = Calls
  BY PricesAssumption DEF StripInv, PricesInv
<1>2. CASE TimePasses
  <2>1. PricesInv' /\ now' = now + 1 /\ UNCHANGED <<lastReal, strip, asking>>
    BY <1>1, <1>2, TimeKeepsCalls DEF TimePasses
  <2>2. QED
    BY <1>1, <2>1 DEF StripInv, TileShown
<1>3. ASSUME NEW c \in Calls, Begin(c, "strip") PROVE StripInv'
  <2>1. PricesInv' /\ UNCHANGED <<now, lastReal, strip>>
    BY <1>1, <1>3, BeginKeepsCalls DEF Begin
  <2>2. \A k \in Calls : asking'[k].what = "ambient" => asking'[k] = asking[k]
    BY <1>1, <1>3 DEF Begin
  <2>3. QED
    BY <2>1, <2>2 DEF StripInv, TileShown
<1>4. ASSUME NEW c \in Calls, NEW p \in 0..LastCandle, SpotArrives(c, p) PROVE StripInv'
  <2>1. PricesInv' /\ UNCHANGED <<now, lastReal, strip>>
    BY <1>1, <1>4, SpotKeepsCalls DEF SpotArrives
  <2>2. asking' = [asking EXCEPT ![c].got = p] /\ SoundCall(asking[c])
    BY <1>1, <1>4 DEF SpotArrives, PricesInv
  <2>3. \A k \in Calls : asking'[k].what = asking[k].what /\ asking'[k].since = asking[k].since
    BY <1>1, <2>2 DEF SoundCall
  <2>4. QED
    BY <2>1, <2>3 DEF StripInv, TileShown
<1>5. ASSUME NEW c \in Calls, TileFound(c) PROVE StripInv'
  <2>1. /\ lastReal' = IF Got(c, "strip") /\ lastReal = Endless THEN now ELSE lastReal
        /\ UNCHANGED <<now, spotCache, strip>>
    BY <1>5 DEF TileFound
  <2>2. PICK what : what = IF lastReal' # Endless THEN "real" ELSE "ambient"
    OBVIOUS
  <2>3. PICK q : q = [asking[c] EXCEPT !.what = what, !.got = NoPrice]
    OBVIOUS
  <2>4. asking' = [asking EXCEPT ![c] = q]
    BY <1>5, <2>2, <2>3 DEF TileFound
  <2>5. SoundCall(asking[c]) /\ \A k \in Calls : asking[k].since \in Nat /\ asking[k].since <= now
    BY <1>1 DEF PricesInv, SoundCall
  <2>6. SoundCall(q) /\ q.since = asking[c].since /\ q.what = what
    <3>1. what \in {"real", "ambient"}
      BY <2>2
    <3>2. /\ q = [what |-> q.what, since |-> q.since, got |-> q.got]
          /\ q.what = what /\ q.since = asking[c].since /\ q.got = NoPrice
      BY <2>3, <2>5 DEF SoundCall
    <3>3. QED
      BY <2>5, <3>1, <3>2 DEF SoundCall, NoPrice
  <2>7. PricesInv'
    BY <1>1, <2>1, <2>4, <2>6, CallMoves DEF PricesInv, SoundCache
  <2>8. /\ lastReal' \in Int /\ (lastReal' = lastReal \/ lastReal' = now)
        /\ what = "ambient" => lastReal' = LastCandle + 1
    BY <1>1, <2>1, <2>2 DEF StripInv, Endless
  <2>9. \A k \in Calls : asking'[k].what = "ambient" => asking'[k].since <= lastReal'
    <3>1. ASSUME NEW k \in Calls, asking'[k].what = "ambient" PROVE asking'[k].since <= lastReal'
      <4>1. CASE k = c
        BY <1>1, <2>4, <2>5, <2>6, <2>8, <3>1, <4>1
      <4>2. CASE k # c
        BY <1>1, <2>4, <2>5, <2>8, <3>1, <4>2 DEF StripInv
      <4>3. QED
        BY <4>1, <4>2
    <3>2. QED
      BY <3>1
  <2>10. QED
    BY <1>1, <2>1, <2>7, <2>8, <2>9 DEF StripInv, TileShown
<1>6. ASSUME NEW c \in Calls, StripDone(c) PROVE StripInv'
  <2>1. /\ strip' = [shows |-> asking[c].what, at |-> asking[c].since]
        /\ asking' = [asking EXCEPT ![c] = NoCall1] /\ UNCHANGED <<now, lastReal, spotCache>>
    BY <1>6 DEF StripDone, EndsCall
  <2>2. PricesInv'
    BY <1>1, <1>6, CallEnds DEF StripDone
  <2>3. asking[c].since \in Nat /\ asking[c].since <= now
    BY <1>1 DEF PricesInv, SoundCall
  <2>4. \A k \in Calls : asking'[k].what = "ambient" => asking'[k] = asking[k]
    BY <1>1, <2>1 DEF NoCall1
  <2>5. QED
    BY <2>1, <2>2, <2>3, <2>4 DEF StripInv, TileShown
<1>7. QED
  BY <1>2, <1>3, <1>4, <1>5, <1>6 DEF StripNext

------------------------------------------------------------------------------
\* For any number of windows, visitors, notices, calls and candles: the counters of a post
\* are its likes and comments and those that went with deleted accounts; the licences of a product, the password of an account, the Pro time of a member, the
\* verdict on a position at real prices and the tile of a symbol are what the rows and the
\* market say (RecordsAgree in Community; market.js, auth.js, payment.js, admin.js,
\* wizard.js, quantoption.js and quantoption-pricefeed.js).
THEOREM RecordsDoAgree == Spec => []RecordsAgree
<1> DEFINE RecordsInv == /\ FeedInv /\ StoreInv /\ SignUpInv /\ AccessInv
                         /\ part = "prices" => DealInv
                         /\ part = "strip" => StripInv
<1>1. Init => RecordsInv
  <2> SUFFICES ASSUME Init PROVE RecordsInv
    OBVIOUS
  <2>1. FeedInv
    <3>1. /\ DOMAIN feedCall = Callers /\ \A c \in Callers : feedCall[c] = NoFeedCall
          /\ holder = "nobody" /\ likes = {} /\ comments = {} /\ counts = [likes |-> 0, comments |-> 0]
          /\ lost = [likes |-> {}, comments |-> {}]
      BY DEF Init, FeedInit
    <3>2. NoFeedCall.at = "idle" /\ NoFeedCall.had = FALSE /\ IsFeedCall(NoFeedCall)
      BY DEF NoFeedCall, IsFeedCall
    <3>3. /\ IsFiniteSet(AllLikes) /\ Cardinality(AllLikes) = 0 /\ LostOfRemoved
          /\ IsFiniteSet(AllComments) /\ Cardinality(AllComments) = 0
      BY <3>1, FS_EmptySet DEF AllLikes, AllComments, LostOfRemoved
    <3>4. \A c \in Callers : c # "nobody"
      BY FeedAssumption DEF Callers
    <3>5. \A c \in Callers : HoldsPost(c) <=> holder = c
      BY <3>1, <3>2, <3>4 DEF HoldsPost
    <3>6. /\ counts.likes = 0 /\ counts.comments = 0
          /\ counts = [likes |-> counts.likes, comments |-> counts.comments]
      BY <3>1
    <3>7. \A c \in Callers : IsFeedCall(feedCall[c]) /\ feedCall[c].had \in BOOLEAN
      BY <3>1, <3>2
    <3>8. LikesCounted
      BY <3>1, <3>3, <3>6 DEF LikesCounted
    <3>9. QED
      BY <3>1, <3>3, <3>5, <3>6, <3>7, <3>8 DEF FeedInv
  <2>2. StoreInv
    BY StoreStarts
  <2>3. SignUpInv
    <3>1. /\ pending = NoPending /\ mailed = <<>> /\ account = NoAccount
          /\ DOMAIN visit = Visitors /\ \A v \in Visitors : visit[v] = NoVisit
      BY DEF Init, SignUpInit
    <3>2. Mailed = 1..0
      BY <3>1 DEF Mailed
    <3>3. /\ DOMAIN NoVisit = {"at", "password", "entered", "row"} /\ NoVisit.at = "idle"
          /\ DOMAIN NoPending = {"code", "password", "attempts", "expired"}
          /\ DOMAIN NoAccount = {"password", "code", "welcomed"}
      BY DEF NoVisit, NoPending, NoAccount
    <3>4. QED
      BY <3>1, <3>2, <3>3 DEF SignUpInv
  <2>4. AccessInv
    BY DEF Init, AccessInit, AccessInv, SoundMember, Covered, NewMember, Never
  <2>5. PricesInv
    <3>1. /\ now = 0 /\ DOMAIN asking = Calls /\ \A c \in Calls : asking[c] = NoCall1
          /\ spotCache = [price |-> NoPrice, at |-> 0]
      BY DEF Init, PricesInit
    <3>2. SoundCall(NoCall1)
      BY <3>1 DEF SoundCall, NoCall1, NoPrice
    <3>3. QED
      BY <3>1, <3>2, PricesAssumption DEF PricesInv, SoundCache, NoPrice
  <2>6. DealInv
    <3>1. /\ reached = [t \in 0..LastCandle |-> {}]
          /\ deal = [status |-> "none", opened |-> 0, expires |-> LastCandle + 1, age |-> 0]
      BY DEF Init, PricesInit, NoDeal, Endless
    <3>2. QED
      BY <2>5, <3>1, PricesAssumption DEF DealInv, SettledAsSeen
  <2>7. StripInv
    <3>1. /\ lastReal = LastCandle + 1 /\ strip = [shows |-> "none", at |-> 0]
          /\ now = 0 /\ \A c \in Calls : asking[c].what = "none"
      BY DEF Init, PricesInit, Endless, NoCall1
    <3>2. QED
      BY <2>5, <3>1, PricesAssumption DEF StripInv, TileShown
  <2>8. QED
    BY <2>1, <2>2, <2>3, <2>4, <2>6, <2>7
<1>2. RecordsInv /\ [Next]_vars => RecordsInv'
  <2> SUFFICES ASSUME RecordsInv, [Next]_vars PROVE RecordsInv'
    OBVIOUS
  <2>1. FeedInv'
    <3>1. FeedNext \/ UNCHANGED feedVars
      BY DEF Next, Only, vars
    <3>2. CASE UNCHANGED feedVars
      BY <3>2 DEF FeedInv, feedVars, HoldsPost, LikesAhead, LikesCounted, LostOfRemoved, AllLikes, AllComments
    <3>3. QED
      BY <3>1, <3>2, FeedKept
  <2>2. StoreInv'
    BY StoreGoesOn
  <2>3. SignUpInv'
    <3>1. SignUpNext \/ UNCHANGED signUpVars
      BY DEF Next, Only, vars
    <3>2. CASE UNCHANGED signUpVars
      BY <3>2 DEF SignUpInv, signUpVars, Mailed, MailedFor
    <3>3. QED
      BY <3>1, <3>2, SignUpKept
  <2>4. AccessInv'
    <3>1. AccessNext \/ UNCHANGED accessVars
      BY DEF Next, Only, vars
    <3>2. CASE UNCHANGED accessVars
      BY <3>2 DEF AccessInv, accessVars, SoundMember, Covered
    <3>3. QED
      BY <3>1, <3>2, AccessKept
  <2>5. part' = part
    BY DEF Next, Only, vars
  <2>6. ASSUME part = "prices" PROVE DealInv'
    <3>1. DealNext \/ UNCHANGED pricesVars
      BY <2>6 DEF Next, Only, vars
    <3>2. CASE UNCHANGED pricesVars
      <4>1. PricesInv'
        BY <2>6, <3>2 DEF DealInv, PricesInv, SoundCall, SoundCache, pricesVars
      <4>2. now <= now' /\ UNCHANGED <<deal, reached>>
        BY <2>6, <3>2 DEF DealInv, PricesInv, pricesVars
      <4>3. QED
        BY <2>6, <4>1, <4>2, VerdictStays DEF DealInv
    <3>3. QED
      BY <2>6, <3>1, <3>2, DealKept
  <2>7. ASSUME part = "strip" PROVE StripInv'
    <3>1. StripNext \/ UNCHANGED pricesVars
      BY <2>7 DEF Next, Only, vars
    <3>2. CASE UNCHANGED pricesVars
      BY <2>7, <3>2 DEF StripInv, PricesInv, SoundCall, SoundCache, TileShown, pricesVars
    <3>3. QED
      BY <2>7, <3>1, <3>2, StripKept
  <2>8. QED
    BY <2>1, <2>2, <2>3, <2>4, <2>5, <2>6, <2>7
<1>3. RecordsInv => RecordsAgree
  <2> SUFFICES ASSUME RecordsInv PROVE RecordsAgree
    OBVIOUS
  <2>1. LikesCounted /\ LicencesPaid
    BY DEF FeedInv, StoreInv
  <2>2. CodeProvesPassword
    BY DEF SignUpInv, MailedFor, CodeProvesPassword
  <2>3. ProIsGiven
    BY DEF AccessInv, SoundMember, Covered, ProIsGiven
  <2>4. part = "prices" => VerdictShown
    BY ShownIsVerdict
  <2>5. part = "strip" => TileShown
    BY DEF StripInv
  <2>6. QED
    BY <2>1, <2>2, <2>3, <2>4, <2>5 DEF RecordsAgree
<1>4. QED
  BY <1>1, <1>2, <1>3, PTL DEF Spec

------------------------------------------------------------------------------
(* Chats                                                                     *)

ChatInv ==
  /\ DOMAIN role = Users
  /\ NothingOrphaned

\* What a step leaves of the reactions, receipts and pins when messages go.
LEMMA MessagesDropped ==
  ASSUME ChatInv, NEW ids, DropMessages(ids), DOMAIN role' = Users,
         chat' # "open" => Messages \subseteq ids /\ Members' = {}
  PROVE  ChatInv' /\ ReadStays
<1>1. /\ Messages' = Messages \ ids
      /\ pinned' = pinned \ ids
      /\ reactions' = {r \in reactions : r[1] \notin ids}
      /\ receipts' = [r \in {q \in DOMAIN receipts : q[1] \notin ids} |-> receipts[r]]
  BY DEF DropMessages, Runs, Messages
<1>2. ReadStays
  BY <1>1 DEF ReadStays
<1>3. \A r \in reactions' \union DOMAIN receipts' : r[1] \in Messages'
  BY <1>1 DEF ChatInv, NothingOrphaned
<1>4. pinned' \subseteq Messages'
  BY <1>1 DEF ChatInv, NothingOrphaned
<1>5. chat' # "open" => Messages' = {} /\ Members' = {}
  BY <1>1
<1>6. QED
  BY <1>2, <1>3, <1>4, <1>5 DEF ChatInv, NothingOrphaned

\* A step that neither drops a message nor changes a receipt.
LEMMA MessagesStay ==
  ASSUME ChatInv, UNCHANGED receipts, DOMAIN role' = Users,
         Messages \subseteq Messages',
         \A r \in reactions' : r \in reactions \/ r[1] \in Messages',
         pinned' \subseteq pinned \union Messages',
         chat' # "open" => Messages' = {} /\ Members' = {}
  PROVE  ChatInv' /\ ReadStays
<1>1. ReadStays
  BY DEF ReadStays
<1>2. QED
  BY <1>1 DEF ChatInv, NothingOrphaned

\* New receipts are for messages that are there, and "read" is written over nothing but itself.
LEMMA ReceiptsWritten ==
  ASSUME ChatInv, UNCHANGED <<chat, role, author, pinned, reactions>>,
         NEW hit, \A r \in hit : r[1] \in Messages,
         DOMAIN receipts' = DOMAIN receipts \union hit,
         \A r \in DOMAIN receipts : receipts'[r] \in {receipts[r], "read"}
  PROVE  ChatInv' /\ ReadStays
<1>1. ReadStays
  BY DEF ReadStays
<1>2. Messages' = Messages /\ Members' = Members
  BY DEF Messages, Members
<1>3. QED
  BY <1>1, <1>2 DEF ChatInv, NothingOrphaned

LEMMA ChatsKept == ASSUME ChatInv, ChatsNext PROVE ChatInv' /\ ReadStays
<1>1. ASSUME UNCHANGED <<chat, role, author, pinned, reactions, receipts>> PROVE ChatInv' /\ ReadStays
  <2>1. Messages' = Messages /\ Members' = Members
    BY <1>1 DEF Messages, Members
  <2>2. QED
    BY <1>1, <2>1, MessagesStay DEF ChatInv, NothingOrphaned
<1>2. ASSUME NEW others \in SUBSET (Users \ {Creator}), CreateChat(others) PROVE ChatInv' /\ ReadStays
  <2>1. /\ chat' = "open" /\ DOMAIN role' = Users
        /\ UNCHANGED <<author, pinned, reactions, receipts>>
    BY <1>2 DEF CreateChat
  <2>2. Messages' = Messages
    BY <2>1 DEF Messages
  <2>3. QED
    BY <2>1, <2>2, MessagesStay
<1>3. ASSUME NEW m \in 1..LastMsg, Expire(m) PROVE ChatInv' /\ ReadStays
  <2>1. PICK ids : ids = {k \in Messages : k <= m}
    OBVIOUS
  <2>2. m \in Messages /\ DropMessages(ids) /\ UNCHANGED <<chat, role>>
    BY <1>3, <2>1 DEF Expire
  <2>3. chat = "open" /\ DOMAIN role' = Users
    BY <2>2 DEF ChatInv, NothingOrphaned
  <2>4. QED
    BY <2>2, <2>3, MessagesDropped
<1>4. ASSUME NEW u \in Users,
             \/ \E op \in Ops, m \in 0..LastMsg : Call(u, op, m)
             \/ TakeId(u) \/ OwnRead(u) \/ ClearMarks(u) \/ ReceiptMark(u) \/ Newest(u) \/ MarkRead(u)
             \/ OpenRoom(u) \/ CloseRoom(u)
      PROVE  ChatInv' /\ ReadStays
  BY <1>1, <1>4 DEF Call, TakeId, OwnRead, ClearMarks, ReceiptMark, Newest, MarkRead, OpenRoom, CloseRoom, chatState
<1>5. ASSUME NEW u \in Users, Insert(u) PROVE ChatInv' /\ ReadStays
  <2>1. UNCHANGED <<chat, role, pinned, reactions, receipts>> /\ Members' = Members
    BY <1>5 DEF Insert, Members
  <2>2. CASE chat = "open"
    <3>1. Messages \subseteq Messages'
      BY <1>5, <2>2 DEF Insert, Messages
    <3>2. QED
      BY <2>1, <2>2, <3>1, MessagesStay DEF ChatInv
  <2>3. CASE chat # "open"
    BY <1>1, <1>5, <2>3 DEF Insert
  <2>4. QED
    BY <2>2, <2>3
<1>6. ASSUME NEW u \in Users, Pin(u) \/ Unreact(u) \/ React(u) \/ \E m \in 1..LastMsg : Unpin(u, m)
      PROVE  ChatInv' /\ ReadStays
  <2>1. UNCHANGED <<chat, role, author, receipts>>
    BY <1>6 DEF Pin, Unreact, React, Unpin
  <2>2. Messages' = Messages /\ Members' = Members
    BY <2>1 DEF Messages, Members
  <2>3. pinned' \subseteq pinned \union Messages
    BY <1>6 DEF Pin, Unreact, React, Unpin
  <2>4. \A r \in reactions' : r \in reactions \/ r[1] \in Messages
    BY <1>6 DEF Pin, Unreact, React, Unpin
  <2>5. QED
    BY <2>1, <2>2, <2>3, <2>4, MessagesStay DEF ChatInv, NothingOrphaned
<1>7. ASSUME NEW u \in Users, RemoveMessage(u) PROVE ChatInv' /\ ReadStays
  <2>1. PICK m : m = calls[u].msg
    OBVIOUS
  <2>2. DropMessages({m}) /\ UNCHANGED <<chat, role>>
    BY <1>7, <2>1 DEF RemoveMessage
  <2>3. chat' # "open" => Messages \subseteq {m} /\ Members' = {}
    BY <2>2 DEF ChatInv, NothingOrphaned, Members
  <2>4. QED
    BY <2>2, <2>3, MessagesDropped DEF ChatInv
<1>8. ASSUME NEW u \in Users, ClearMessages(u) \/ DeleteMessages(u) PROVE ChatInv' /\ ReadStays
  <2>1. DropMessages(Messages) /\ UNCHANGED <<chat, role>>
    BY <1>8 DEF ClearMessages, DeleteMessages
  <2>2. chat' # "open" => Messages \subseteq Messages /\ Members' = {}
    BY <2>1 DEF ChatInv, NothingOrphaned, Members
  <2>3. QED
    BY <2>1, <2>2, MessagesDropped DEF ChatInv
<1>9. ASSUME NEW u \in Users, DeleteMembers(u) PROVE ChatInv' /\ ReadStays
  <2>1. /\ UNCHANGED <<chat, author, pinned, reactions, receipts>> /\ DOMAIN role' = Users
        /\ Messages' = Messages /\ Members' = {}
    BY <1>9 DEF DeleteMembers, Messages, Members
  <2>2. QED
    BY <2>1, MessagesStay DEF ChatInv, NothingOrphaned
<1>10. ASSUME NEW u \in Users, DeleteChat(u) PROVE ChatInv' /\ ReadStays
  <2>1. DropMessages(Messages) /\ DOMAIN role' = Users /\ Members' = {}
    BY <1>10 DEF DeleteChat, Members
  <2>2. QED
    BY <2>1, MessagesDropped
<1>11. ASSUME NEW u \in Users, Enters(u), UNCHANGED <<chat, author, pinned, reactions, receipts>>
       PROVE  ChatInv' /\ ReadStays
  <2>1. DOMAIN role' = Users /\ Messages' = Messages
    BY <1>11 DEF Enters, ChatInv, Messages
  <2>2. chat # "open" => Members' = Members
    BY <1>11 DEF Enters, Members
  <2>3. QED
    BY <1>11, <2>1, <2>2, MessagesStay DEF ChatInv, NothingOrphaned
<1>12. ASSUME NEW u \in Users, Join(u) \/ \E v \in Users : AddMember(v, u) PROVE ChatInv' /\ ReadStays
  BY <1>11, <1>12 DEF Join, AddMember
<1>13. ASSUME NEW u \in Users, NEW v \in Users, RemoveMember(u, v) PROVE ChatInv' /\ ReadStays
  <2>1. /\ UNCHANGED <<chat, author, pinned, reactions, receipts>> /\ v \in Members
        /\ role' = [role EXCEPT ![v] = "none"]
    BY <1>13 DEF RemoveMember
  <2>2. DOMAIN role' = Users /\ Messages' = Messages /\ chat = "open"
    BY <2>1 DEF ChatInv, NothingOrphaned, Messages
  <2>3. QED
    BY <2>1, <2>2, MessagesStay DEF ChatInv, NothingOrphaned
<1>14. ASSUME NEW u \in Users, ReceiptDelivered(u) PROVE ChatInv' /\ ReadStays
  <2>1. PICK hit : hit = {<<m, u>> : m \in {k \in {calls[u].msg} : k \in Messages /\ author[k] # u}}
    OBVIOUS
  <2>2. /\ receipts' = [r \in DOMAIN receipts \union hit |-> IF r \in hit THEN DeliveredStatus(r) ELSE receipts[r]]
        /\ UNCHANGED <<chat, role, author, pinned, reactions>>
    BY <1>14, <2>1 DEF ReceiptDelivered, Upsert
  <2>3. \A r \in hit : r[1] \in Messages
    BY <2>1
  <2>4. \A r \in DOMAIN receipts : receipts'[r] = receipts[r]
    BY <2>2 DEF DeliveredStatus
  <2>5. DOMAIN receipts' = DOMAIN receipts \union hit
    BY <2>2
  <2>6. QED
    BY <2>2, <2>3, <2>4, <2>5, ReceiptsWritten
<1>15. ASSUME NEW u \in Users, ReceiptRead(u) PROVE ChatInv' /\ ReadStays
  <2>1. PICK hit : hit = {<<m, u>> : m \in {k \in 1..calls[u].msg : k \in Messages /\ author[k] # u}}
    OBVIOUS
  <2>2. /\ receipts' = [r \in DOMAIN receipts \union hit |-> IF r \in hit THEN "read" ELSE receipts[r]]
        /\ UNCHANGED <<chat, role, author, pinned, reactions>>
    BY <1>15, <2>1 DEF ReceiptRead, Upsert
  <2>3. \A r \in hit : r[1] \in Messages
    BY <2>1
  <2>4. \A r \in DOMAIN receipts : receipts'[r] \in {receipts[r], "read"}
    BY <2>2
  <2>5. DOMAIN receipts' = DOMAIN receipts \union hit
    BY <2>2
  <2>6. QED
    BY <2>2, <2>3, <2>4, <2>5, ReceiptsWritten
<1>16. QED
  BY <1>2, <1>3, <1>4, <1>5, <1>6, <1>7, <1>8, <1>9, <1>10, <1>12, <1>13, <1>14, <1>15 DEF ChatsNext

\* The chats are right at the start and after each step of the whole.
LEMMA ChatsStart == ASSUME Init PROVE ChatInv
<1>1. /\ role = [u \in Users |-> "none"] /\ reactions = {} /\ pinned = {}
      /\ author = <<>> /\ receipts = <<>>
  BY DEF Init, ChatsInit
<1>2. Messages = {} /\ Members = {} /\ DOMAIN receipts = {}
  BY <1>1 DEF Messages, Members
<1>3. QED
  BY <1>1, <1>2 DEF ChatInv, NothingOrphaned

LEMMA ChatsGoOn == ASSUME ChatInv, [Next]_vars PROVE ChatInv'
<1>1. ChatsNext \/ UNCHANGED chatsVars
  BY DEF Next, Only, vars
<1>2. CASE UNCHANGED chatsVars
  BY <1>2 DEF ChatInv, NothingOrphaned, Messages, Members, chatsVars, chatState
<1>3. QED
  BY <1>1, <1>2, ChatsKept

------------------------------------------------------------------------------
\* For any number of users, messages, signals, windows and prices: "read" stays until its
\* message goes, a decided signal keeps its outcome, and a licence is given at the price of
\* an active product and taken back by nothing but the deletion of the owner's or the
\* buyer's account (NothingTakenBack in Community; messaging.js, signal-scoreboard.js,
\* market.js, admin.js and wizard.js).
THEOREM NothingIsTakenBack == Spec => NothingTakenBack
<1> DEFINE Stays == /\ part = "chats" => ReadStays
                    /\ part = "scoreboard" => DecidedStays
                    /\ part = "store" => LicencesStand
           RowsInv == ChatInv /\ ScoreInv /\ StoreInv
<1>1. Init => RowsInv
  <2> SUFFICES ASSUME Init PROVE RowsInv
    OBVIOUS
  <2>1. ChatInv
    BY ChatsStart
  <2>2. ScoreInv
    BY DEF Init, ScoreboardInit, ScoreInv, Kept
  <2>3. StoreInv
    BY StoreStarts
  <2>4. QED
    BY <2>1, <2>2, <2>3
<1>2. RowsInv /\ [Next]_vars => RowsInv'
  <2> SUFFICES ASSUME RowsInv, [Next]_vars PROVE RowsInv'
    OBVIOUS
  <2>1. ChatInv'
    BY ChatsGoOn
  <2>2. ScoreInv'
    <3>1. ScoreboardNext \/ UNCHANGED scoreboardVars
      BY DEF Next, Only, vars
    <3>2. QED
      BY <3>1, ScoreboardKept DEF ScoreInv, scoreboardVars, Kept
  <2>3. StoreInv'
    BY StoreGoesOn
  <2>4. QED
    BY <2>1, <2>2, <2>3
<1>3. RowsInv /\ [Next]_vars => [Stays]_vars
  <2> SUFFICES ASSUME RowsInv, Next PROVE Stays
    OBVIOUS
  <2>1. part = "chats" => ChatsNext
    BY DEF Next, Only
  <2>2. part = "scoreboard" => ScoreboardNext
    BY DEF Next, Only
  <2>3. part = "store" => StoreNext
    BY DEF Next, Only
  <2>4. QED
    BY <2>1, <2>2, <2>3, ChatsKept, ScoreboardKept, StoreKept
<1>4. QED
  BY <1>1, <1>2, <1>3, PTL DEF Spec, NothingTakenBack

------------------------------------------------------------------------------
(* The assistant                                                             *)

Asking(k) == {d \in Devices : device[d].at = "asking" /\ device[d].dm = k}

\* While nothing was deleted from a chat, its questions of each age are no fewer than the
\* answers of that age and the questions that wait for one.
AssistantInv ==
  /\ DOMAIN own = Assistants /\ DOMAIN asked = Assistants /\ DOMAIN device = Devices
  /\ \A k \in Assistants : own[k] \in [Ages -> Nat] /\ asked[k] \in [Ages -> Nat]
  /\ \A d \in Devices : /\ device[d] = [at |-> device[d].at, dm |-> device[d].dm]
                        /\ device[d].at = "asking" => device[d].dm \in Assistants
  /\ \A k \in Assistants : IsFiniteSet(Asking(k))
  /\ \A k \in Assistants \ erased : \A age \in Ages :
       asked[k][age] + (IF age = 0 THEN Cardinality(Asking(k)) ELSE 0) <= own[k][age]
  /\ \A k \in Assistants \intersect erased, age \in Ages : asked[k][age] = 0
  /\ AnswersRationed

LEMMA AgesFinite ==
  /\ IsFiniteSet(Ages) /\ 0 \in Ages /\ Day - 1 \in Ages /\ Day \in Nat
  /\ \A age \in Ages : age \in Nat
BY AssistantAssumption, FS_Interval DEF Ages

\* A day later no more is counted.
LEMMA OlderTotal ==
  ASSUME NEW b \in [Ages -> Nat], NEW o, o = [age \in Ages |-> IF age = 0 THEN 0 ELSE b[age - 1]]
  PROVE  o \in [Ages -> Nat] /\ Total(o) <= Total(b)
<1> DEFINE later == 1..(Day - 1)
           earlier == 0..(Day - 2)
           name == [x \in later |-> x - 1]
<1>1. Day \in Nat \ {0} /\ IsFiniteSet(Ages) /\ IsFiniteSet(later) /\ IsFiniteSet(earlier)
  BY AgesFinite, AssistantAssumption, FS_Interval
<1>2. /\ later = Ages \ {0} /\ earlier = Ages \ {Day - 1} /\ 0 \in Ages /\ Day - 1 \in Ages
      /\ \A x \in later : x - 1 \in Ages /\ x \in Ages /\ x # 0
  <2>1. \A x : x \in later <=> x \in Ages \ {0}
    BY <1>1 DEF Ages
  <2>2. \A x : x \in earlier <=> x \in Ages \ {Day - 1}
    <3>1. Day \in Int /\ \A x \in Int : 0 <= x /\ x <= Day - 2 <=> 0 <= x /\ x <= Day - 1 /\ x # Day - 1
      BY <1>1
    <3>2. \A x : x \in Ages <=> x \in Int /\ 0 <= x /\ x <= Day - 1
      BY <3>1 DEF Ages
    <3>3. \A x : x \in earlier <=> x \in Int /\ 0 <= x /\ x <= Day - 2
      BY <3>1
    <3> HIDE DEF earlier
    <3>4. QED
      BY <3>1, <3>2, <3>3
  <2>3. \A x \in later : x - 1 \in Ages
    BY <1>1 DEF Ages
  <2> HIDE DEF later, earlier
  <2>4. QED
    BY <2>1, <2>2, <2>3, AgesFinite
<1>3. /\ o \in [Ages -> Nat] /\ o[0] = 0
      /\ \A x \in later : o[x] = b[x - 1]
  BY <1>2, AgesFinite DEF Ages
<1>4. Total(o) = 0 + SumFunctionOnSet(o, later)
  <2> HIDE DEF later, earlier
  <2>1. \A x \in Ages : o[x] \in Int
    BY <1>3
  <2>2. SumFunctionOnSet(o, Ages) = o[0] + SumFunctionOnSet(o, Ages \ {0})
    BY <1>1, <1>2, <2>1, SumTakesOut
  <2>3. QED
    BY <1>2, <1>3, <2>2 DEF Total
<1>5. /\ \A x, y \in later : name[x] = name[y] => x = y
      /\ \A x \in later : o[x] \in Int /\ b[name[x]] = o[x]
      /\ {name[x] : x \in later} = earlier
  <2>1. \A x \in later : name[x] = x - 1 /\ x \in Int
    OBVIOUS
  <2>2. \A x \in earlier : x + 1 \in later /\ name[x + 1] = x
    BY <1>1
  <2>3. \A x \in later : name[x] \in earlier
    BY <1>1
  <2>4. {name[x] : x \in later} = earlier
    BY <2>2, <2>3
  <2>5. \A x \in later : o[x] \in Int
    BY <1>2, <1>3
  <2> HIDE DEF later, name, earlier
  <2>6. QED
    BY <1>3, <2>1, <2>4, <2>5
<1> HIDE DEF later, earlier, name
<1>6. SumFunctionOnSet(b, earlier) = SumFunctionOnSet(o, later)
  <2>1. SumFunctionOnSet(b, {name[x] : x \in later}) = SumFunctionOnSet(o, later)
    <3>1. \A x, y \in later : name[x] = name[y] => x = y
      BY <1>5
    <3>2. \A x \in later : o[x] \in Int /\ b[name[x]] = o[x]
      BY <1>5
    <3>3. IsFiniteSet(later)
      BY <1>1
    <3>4. QED
      BY ONLY <3>1, <3>2, <3>3, SumRenamed, SMT
  <2>2. QED
    BY <1>5, <2>1, Zenon
<1>7. /\ Total(b) = b[Day - 1] + SumFunctionOnSet(b, earlier)
      /\ SumFunctionOnSet(b, earlier) \in Int
  BY <1>1, <1>2, SumTakesOut DEF Total
<1>8. b[Day - 1] \in Nat
  BY <1>2
<1>9. QED
  BY <1>3, <1>4, <1>6, <1>7, <1>8

\* A call that neither asks now nor did before.
LEMMA DeviceElsewhere ==
  ASSUME AssistantInv, NEW d \in Devices, NEW q, device' = [device EXCEPT ![d] = q],
         q = [at |-> q.at, dm |-> q.dm], q.at # "asking", device[d].at # "asking",
         UNCHANGED <<own, asked, erased>>
  PROVE  AssistantInv'
<1>1. \A k \in Assistants : Asking(k)' = Asking(k)
  BY DEF Asking, AssistantInv
<1>2. /\ DOMAIN device' = Devices
      /\ \A e \in Devices : /\ device'[e] = [at |-> device'[e].at, dm |-> device'[e].dm]
                            /\ device'[e].at = "asking" => device'[e].dm \in Assistants
  BY DEF AssistantInv
<1>3. QED
  BY <1>1, <1>2 DEF AssistantInv, AnswersRationed

\* Something was deleted from a chat.
LEMMA ErasedKept ==
  ASSUME AssistantInv, NEW k \in Assistants, Erased(k), NEW b \in [Ages -> Nat], own' = [own EXCEPT ![k] = b]
  PROVE  AssistantInv'
<1> DEFINE zeros == [age \in Ages |-> 0]
<1>1. /\ erased' = erased \union {k} /\ asked' = [asked EXCEPT ![k] = zeros] /\ device' = device
      /\ zeros \in [Ages -> Nat] /\ \A age \in Ages : zeros[age] = 0
  BY DEF Erased
<1> HIDE DEF zeros
<1>2. \A j : Asking(j)' = Asking(j)
  BY <1>1 DEF Asking
<1>3. Total(zeros) = 0
  BY <1>1, AgesFinite, SumOfZeros DEF Total
<1>4. /\ DOMAIN own' = Assistants /\ DOMAIN asked' = Assistants
      /\ own'[k] = b /\ asked'[k] = zeros
      /\ \A j \in Assistants \ {k} : own'[j] = own[j] /\ asked'[j] = asked[j]
  BY <1>1 DEF AssistantInv
<1>5. \A j \in Assistants : own'[j] \in [Ages -> Nat] /\ asked'[j] \in [Ages -> Nat]
  BY <1>1, <1>4 DEF AssistantInv
<1>6. AnswersRationed'
  <2>1. \A j \in Assistants : Total(asked'[j]) <= FREE_DAILY_LIMIT
    BY <1>3, <1>4, AssistantAssumption DEF AssistantInv, AnswersRationed
  <2>2. QED
    BY <2>1 DEF AnswersRationed, Total
<1>7. \A j \in Assistants \intersect erased', age \in Ages : asked'[j][age] = 0
  BY <1>1, <1>4 DEF AssistantInv
<1>8. \A j \in Assistants \ erased' : \A age \in Ages :
        asked'[j][age] + (IF age = 0 THEN Cardinality(Asking(j)) ELSE 0) <= own'[j][age]
  BY <1>1, <1>4 DEF AssistantInv
<1>9. QED
  BY <1>1, <1>2, <1>4, <1>5, <1>6, <1>7, <1>8 DEF AssistantInv

LEMMA AssistantKept == ASSUME AssistantInv, AssistantNext PROVE AssistantInv'
<1>1. CASE DayPasses
  <2>1. /\ \A d \in Devices : device[d].at # "asking"
        /\ own' = Older(own) /\ asked' = Older(asked) /\ UNCHANGED <<erased, device>>
    BY <1>1 DEF DayPasses
  <2>2. /\ DOMAIN own' = Assistants /\ DOMAIN asked' = Assistants
        /\ \A k \in Assistants :
             /\ own'[k] = [age \in Ages |-> IF age = 0 THEN 0 ELSE own[k][age - 1]]
             /\ asked'[k] = [age \in Ages |-> IF age = 0 THEN 0 ELSE asked[k][age - 1]]
    BY <2>1 DEF Older
  <2>3. \A k \in Assistants : own[k] \in [Ages -> Nat] /\ asked[k] \in [Ages -> Nat]
    BY DEF AssistantInv
  <2>4. \A k \in Assistants : /\ own'[k] \in [Ages -> Nat] /\ asked'[k] \in [Ages -> Nat]
                              /\ Total(asked'[k]) <= Total(asked[k])
    BY <2>2, <2>3, OlderTotal
  <2>5. \A k \in Assistants : Total(asked[k]) \in Int /\ Total(asked'[k]) \in Int
    BY <2>3, <2>4, AgesFinite, SumTakesOut DEF Total
  <2>6. AnswersRationed'
    <3>1. \A k \in Assistants : Total(asked'[k]) <= FREE_DAILY_LIMIT
      BY <2>4, <2>5, AssistantAssumption DEF AssistantInv, AnswersRationed
    <3>2. QED
      BY <3>1 DEF AnswersRationed, Total
  <2>7. \A k \in Assistants : Asking(k) = {} /\ Asking(k)' = {}
    BY <2>1 DEF Asking
  <2>8. \A age \in Ages \ {0} : age - 1 \in Ages
    BY AgesFinite DEF Ages
  <2>9. \A k \in Assistants \ erased' : \A age \in Ages : asked'[k][age] + 0 <= own'[k][age]
    <3>1. ASSUME NEW k \in Assistants \ erased, NEW age \in Ages PROVE asked'[k][age] + 0 <= own'[k][age]
      <4>1. CASE age = 0
        BY <2>2, <4>1
      <4>2. CASE age # 0
        <5>1. age - 1 \in Ages
          BY <2>8, <4>2
        <5>2. asked[k][age - 1] + (IF age - 1 = 0 THEN Cardinality(Asking(k)) ELSE 0) <= own[k][age - 1]
          BY <5>1 DEF AssistantInv
        <5>3. asked[k][age - 1] \in Nat /\ own[k][age - 1] \in Nat /\ Cardinality(Asking(k)) = 0
          BY <2>3, <2>7, <5>1, FS_EmptySet
        <5>4. QED
          BY <2>2, <4>2, <5>2, <5>3
      <4>3. QED
        BY <4>1, <4>2
    <3>2. QED
      BY <2>1, <3>1
  <2>10. \A k \in Assistants \intersect erased', age \in Ages : asked'[k][age] = 0
    BY <2>1, <2>2, <2>8 DEF AssistantInv
  <2>11. \A k \in Assistants : IsFiniteSet(Asking(k)') /\ Cardinality(Asking(k)') = 0
    BY <2>7, FS_EmptySet
  <2>12. /\ DOMAIN device' = Devices
         /\ \A d \in Devices : /\ device'[d] = [at |-> device'[d].at, dm |-> device'[d].dm]
                               /\ device'[d].at = "asking" => device'[d].dm \in Assistants
    BY <2>1 DEF AssistantInv
  <2>13. \A k \in Assistants \ erased' : \A age \in Ages :
           asked'[k][age] + (IF age = 0 THEN Cardinality(Asking(k)') ELSE 0) <= own'[k][age]
    BY <2>9, <2>11
  <2>14. QED
    BY <2>2, <2>4, <2>6, <2>10, <2>11, <2>12, <2>13 DEF AssistantInv
<1>2. CASE Subscription
  <2>1. UNCHANGED <<own, asked, erased, device>>
    BY <1>2 DEF Subscription
  <2>2. QED
    BY <2>1 DEF AssistantInv, Asking, AnswersRationed, Total
<1>3. ASSUME NEW d \in Devices, LookForDm(d) \/ CreateDm(d) \/ JoinDm(d) PROVE AssistantInv'
  <2>1. device[d].at # "asking" /\ UNCHANGED <<own, asked, erased>>
    BY <1>3 DEF LookForDm, CreateDm, JoinDm, NoCall
  <2>2. \E q : /\ device' = [device EXCEPT ![d] = q]
               /\ q = [at |-> q.at, dm |-> q.dm] /\ q.at # "asking"
    <3>1. CASE LookForDm(d)
      <4>1. PICK q : q = [device[d] EXCEPT !.at = "creating"]
        OBVIOUS
      <4>2. q = [at |-> q.at, dm |-> q.dm] /\ q.at # "asking"
        BY <4>1 DEF AssistantInv
      <4>3. device' = [device EXCEPT ![d] = q]
        BY <3>1, <4>1 DEF LookForDm
      <4>4. QED
        BY <4>2, <4>3
    <3>2. CASE CreateDm(d)
      <4>1. PICK k : device' = [device EXCEPT ![d] = [at |-> "joining", dm |-> k]]
        BY <3>2 DEF CreateDm
      <4>2. PICK q : q = [at |-> "joining", dm |-> k]
        OBVIOUS
      <4>3. q = [at |-> q.at, dm |-> q.dm] /\ q.at # "asking"
        BY <4>2
      <4>4. QED
        BY <4>1, <4>2, <4>3
    <3>3. CASE JoinDm(d)
      <4>1. PICK q : q = NoCall
        OBVIOUS
      <4>2. q = [at |-> q.at, dm |-> q.dm] /\ q.at # "asking"
        BY <4>1 DEF NoCall
      <4>3. device' = [device EXCEPT ![d] = q]
        BY <3>3, <4>1 DEF JoinDm
      <4>4. QED
        BY <4>2, <4>3
    <3>4. QED
      BY <1>3, <3>1, <3>2, <3>3
  <2>3. QED
    BY <2>1, <2>2, DeviceElsewhere
<1>4. ASSUME NEW d \in Devices, AskAssistant(d) PROVE AssistantInv'
  <2>1. PICK k : k = device[d].dm
    OBVIOUS
  <2>2. /\ device[d].at = "asking" /\ k \in Assistants
        /\ device' = [device EXCEPT ![d] = NoCall]
        /\ UNCHANGED <<own, erased>>
    BY <1>4, <2>1 DEF AskAssistant, AssistantInv
  <2>3. /\ DOMAIN device' = Devices
        /\ \A e \in Devices : /\ device'[e] = [at |-> device'[e].at, dm |-> device'[e].dm]
                              /\ device'[e].at = "asking" => device'[e].dm \in Assistants
    BY <2>2 DEF AssistantInv, NoCall
  <2>4. /\ Asking(k)' = Asking(k) \ {d} /\ d \in Asking(k)
        /\ \A j \in Assistants \ {k} : Asking(j)' = Asking(j)
    BY <2>1, <2>2 DEF Asking, AssistantInv, NoCall
  <2>5. /\ IsFiniteSet(Asking(k)') /\ Cardinality(Asking(k)) \in Nat
        /\ Cardinality(Asking(k)') = Cardinality(Asking(k)) - 1
    BY <2>2, <2>4, FS_RemoveElement, FS_CardinalityType DEF AssistantInv
  <2>6. \A j \in Assistants : IsFiniteSet(Asking(j)')
    BY <2>4, <2>5 DEF AssistantInv
  <2>7. CASE asked' = asked
    <3>1. \A j \in Assistants \ erased : \A age \in Ages :
            asked[j][age] + (IF age = 0 THEN Cardinality(Asking(j)') ELSE 0) <= own[j][age]
      <4>1. ASSUME NEW j \in Assistants \ erased, NEW age \in Ages
            PROVE  asked[j][age] + (IF age = 0 THEN Cardinality(Asking(j)') ELSE 0) <= own[j][age]
        <5>1. /\ asked[j][age] \in Nat /\ own[j][age] \in Nat
              /\ asked[j][age] + (IF age = 0 THEN Cardinality(Asking(j)) ELSE 0) <= own[j][age]
          BY DEF AssistantInv
        <5>2. CASE j = k
          BY <2>5, <5>1, <5>2
        <5>3. CASE j # k
          BY <2>4, <5>1, <5>3
        <5>4. QED
          BY <5>2, <5>3
      <4>2. QED
        BY <4>1
    <3>2. QED
      BY <2>2, <2>3, <2>6, <2>7, <3>1 DEF AssistantInv, AnswersRationed
  <2>8. CASE asked' # asked
    <3>1. /\ k \notin erased /\ ~(Total(own[k]) > FREE_DAILY_LIMIT)
          /\ asked' = [asked EXCEPT ![k][0] = @ + 1]
      BY <1>4, <2>1, <2>8 DEF AskAssistant, Counted
    <3>2. /\ \A j \in Assistants : own[j] \in [Ages -> Nat] /\ asked[j] \in [Ages -> Nat]
          /\ DOMAIN asked = Assistants
      BY DEF AssistantInv
    <3>3. PICK b : b = [asked[k] EXCEPT ![0] = @ + 1]
      OBVIOUS
    <3>4. /\ asked' = [asked EXCEPT ![k] = b] /\ b \in [Ages -> Nat] /\ b[0] = asked[k][0] + 1
          /\ \A age \in Ages \ {0} : b[age] = asked[k][age]
      BY <2>2, <3>1, <3>2, <3>3, AgesFinite
    <3>5. /\ DOMAIN asked' = Assistants /\ asked'[k] = b
          /\ \A j \in Assistants \ {k} : asked'[j] = asked[j]
      BY <2>2, <3>2, <3>4
    <3>6. \A age \in Ages : b[age] + (IF age = 0 THEN Cardinality(Asking(k)') ELSE 0) <= own[k][age]
      <4>1. ASSUME NEW age \in Ages
            PROVE  b[age] + (IF age = 0 THEN Cardinality(Asking(k)') ELSE 0) <= own[k][age]
        <5>1. /\ asked[k][age] \in Nat /\ own[k][age] \in Nat
              /\ asked[k][age] + (IF age = 0 THEN Cardinality(Asking(k)) ELSE 0) <= own[k][age]
          BY <2>2, <3>1, <3>2 DEF AssistantInv
        <5>2. CASE age = 0
          BY <2>5, <3>4, <5>1, <5>2
        <5>3. CASE age # 0
          BY <3>4, <5>1, <5>3
        <5>4. QED
          BY <5>2, <5>3
      <4>2. QED
        BY <4>1
    <3>7. \A age \in Ages : b[age] \in Int /\ own[k][age] \in Int /\ b[age] <= own[k][age]
      <4>1. Cardinality(Asking(k)') \in Nat
        BY <2>5, <2>6, <2>2, FS_CardinalityType
      <4>2. \A age \in Ages : b[age] \in Nat /\ own[k][age] \in Nat
        BY <2>2, <3>2, <3>4
      <4>3. QED
        BY <3>6, <4>1, <4>2
    <3>8. Total(b) <= Total(own[k]) /\ Total(b) \in Int /\ Total(own[k]) \in Int
      BY <3>7, AgesFinite, SumMonotone, SumTakesOut DEF Total
    <3>9. \A j \in Assistants : Total(asked'[j]) <= FREE_DAILY_LIMIT
      <4>1. Total(asked'[k]) <= FREE_DAILY_LIMIT
        BY <3>1, <3>5, <3>8, AssistantAssumption
      <4>2. \A j \in Assistants \ {k} : Total(asked'[j]) <= FREE_DAILY_LIMIT
        BY <3>5 DEF AssistantInv, AnswersRationed
      <4>3. QED
        BY <4>1, <4>2
    <3>10. AnswersRationed'
      BY <3>9 DEF AnswersRationed, Total
    <3>11. \A j \in Assistants : asked'[j] \in [Ages -> Nat]
      BY <3>2, <3>4, <3>5
    <3>12. \A j \in Assistants \ erased : \A age \in Ages :
             asked'[j][age] + (IF age = 0 THEN Cardinality(Asking(j)') ELSE 0) <= own[j][age]
      <4>1. ASSUME NEW j \in Assistants \ erased, j # k, NEW age \in Ages
            PROVE  asked'[j][age] + (IF age = 0 THEN Cardinality(Asking(j)') ELSE 0) <= own[j][age]
        BY <2>4, <3>5, <4>1 DEF AssistantInv
      <4>2. QED
        BY <3>5, <3>6, <4>1
    <3>13. \A j \in Assistants \intersect erased, age \in Ages : asked'[j][age] = 0
      BY <3>1, <3>5 DEF AssistantInv
    <3>14. QED
      BY <2>2, <2>3, <2>6, <3>5, <3>10, <3>11, <3>12, <3>13 DEF AssistantInv
  <2>9. QED
    BY <2>7, <2>8
<1>5. ASSUME NEW d \in Devices, NEW k \in Assistants, Ask(d, k) PROVE AssistantInv'
  <2>1. PICK b : b = [own[k] EXCEPT ![0] = @ + 1]
    OBVIOUS
  <2>2. /\ device[d].at = "idle" /\ own' = [own EXCEPT ![k] = b]
        /\ device' = [device EXCEPT ![d] = [at |-> "asking", dm |-> k]]
        /\ UNCHANGED <<asked, erased>>
    BY <1>5, <2>1 DEF Ask, NoCall
  <2>3. own[k] \in [Ages -> Nat]
    BY DEF AssistantInv
  <2>4. /\ b \in [Ages -> Nat] /\ b[0] = own[k][0] + 1 /\ \A age \in Ages \ {0} : b[age] = own[k][age]
    BY <2>1, <2>3, AgesFinite
  <2>5. /\ DOMAIN own' = Assistants /\ own'[k] = b /\ \A j \in Assistants \ {k} : own'[j] = own[j]
    BY <2>2 DEF AssistantInv
  <2>6. /\ DOMAIN device' = Devices
        /\ \A e \in Devices : /\ device'[e] = [at |-> device'[e].at, dm |-> device'[e].dm]
                              /\ device'[e].at = "asking" => device'[e].dm \in Assistants
    BY <2>2 DEF AssistantInv
  <2>7. /\ Asking(k)' = Asking(k) \union {d} /\ d \notin Asking(k)
        /\ \A j \in Assistants \ {k} : Asking(j)' = Asking(j)
    BY <2>2 DEF Asking, AssistantInv
  <2>8. /\ IsFiniteSet(Asking(k)') /\ Cardinality(Asking(k)) \in Nat
        /\ Cardinality(Asking(k)') = Cardinality(Asking(k)) + 1
    BY <2>7, FS_AddElement, FS_CardinalityType DEF AssistantInv
  <2>9. \A j \in Assistants : IsFiniteSet(Asking(j)') /\ own'[j] \in [Ages -> Nat]
    BY <2>4, <2>5, <2>7, <2>8 DEF AssistantInv
  <2>10. \A j \in Assistants \ erased : \A age \in Ages :
           asked[j][age] + (IF age = 0 THEN Cardinality(Asking(j)') ELSE 0) <= own'[j][age]
    <3>1. ASSUME NEW j \in Assistants \ erased, NEW age \in Ages
          PROVE  asked[j][age] + (IF age = 0 THEN Cardinality(Asking(j)') ELSE 0) <= own'[j][age]
      <4>1. /\ asked[j][age] \in Nat /\ own[j][age] \in Nat
            /\ asked[j][age] + (IF age = 0 THEN Cardinality(Asking(j)) ELSE 0) <= own[j][age]
        BY DEF AssistantInv
      <4>2. CASE j = k /\ age = 0
        BY <2>4, <2>5, <2>8, <4>1, <4>2
      <4>3. CASE j = k /\ age # 0
        BY <2>4, <2>5, <4>1, <4>3
      <4>4. CASE j # k
        BY <2>5, <2>7, <4>1, <4>4
      <4>5. QED
        BY <4>2, <4>3, <4>4
    <3>2. QED
      BY <3>1
  <2>11. QED
    BY <2>2, <2>5, <2>6, <2>9, <2>10 DEF AssistantInv, AnswersRationed
<1>6. ASSUME NEW k \in Assistants, NEW age \in Ages, Erase(k, age) PROVE AssistantInv'
  <2>1. PICK b : b = [own[k] EXCEPT ![age] = @ - 1]
    OBVIOUS
  <2>2. own[k] \in [Ages -> Nat] /\ own[k][age] > 0 /\ own' = [own EXCEPT ![k] = b] /\ Erased(k)
    BY <1>6, <2>1 DEF Erase, AssistantInv
  <2>3. b \in [Ages -> Nat]
    BY <2>1, <2>2
  <2>4. QED
    BY <2>2, <2>3, ErasedKept
<1>7. ASSUME NEW k \in Assistants, EraseAll(k) PROVE AssistantInv'
  <2>1. PICK b : b = [age \in Ages |-> 0]
    OBVIOUS
  <2>2. own' = [own EXCEPT ![k] = b] /\ Erased(k)
    BY <1>7, <2>1 DEF EraseAll
  <2>3. b \in [Ages -> Nat]
    BY <2>1
  <2>4. QED
    BY <2>2, <2>3, ErasedKept
<1>8. QED
  BY <1>1, <1>2, <1>3, <1>4, <1>5, <1>6, <1>7 DEF AssistantNext

------------------------------------------------------------------------------
(* Reports                                                                   *)

IsReport(q) == q = [at |-> q.at, flag |-> q.flag, how |-> q.how]
IsFlag(f) == f = [by |-> f.by, status |-> f.status]

\* A message that is about to be hidden has a flag, or is gone.
ReportsInv ==
  /\ DOMAIN moderation = Readers \union Moderators
  /\ \A p \in Readers \union Moderators : /\ IsReport(moderation[p])
                                          /\ moderation[p].at = "hiding" => reported = "gone" \/ flags # <<>>
  /\ IsSeq(flags)
  /\ \A i \in DOMAIN flags : IsFlag(flags[i])
  /\ ReportsKept

LEMMA NoFlags == IsSeq(<<>>) /\ DOMAIN <<>> = {}
<1>1. PICK s : s = <<>>
  OBVIOUS
<1>2. s \in Seq({}) /\ DOMAIN s = {}
  BY <1>1
<1>3. IsSeq(s)
  BY <1>2, SeqIsSeq
<1>4. QED
  BY <1>1, <1>2, <1>3

\* A call moves, and the flags are as they were.
LEMMA ReportMoves ==
  ASSUME ReportsInv, NEW p \in Readers \union Moderators, NEW q, IsReport(q),
         moderation' = [moderation EXCEPT ![p] = q], UNCHANGED flags,
         q.at = "hiding" => reported' = "gone" \/ flags # <<>>,
         reported' = reported \/ (reported' = "hidden" /\ flags # <<>> /\ reported # "gone")
  PROVE  ReportsInv'
<1>1. /\ DOMAIN moderation' = Readers \union Moderators /\ moderation'[p] = q
      /\ \A r \in Readers \union Moderators : r # p => moderation'[r] = moderation[r]
  BY DEF ReportsInv
<1>2. \A r \in Readers \union Moderators :
        /\ IsReport(moderation'[r])
        /\ moderation'[r].at = "hiding" => reported' = "gone" \/ flags' # <<>>
  BY <1>1 DEF ReportsInv
<1>3. ReportsKept'
  BY DEF ReportsInv, ReportsKept, OpenFlags
<1>4. QED
  BY <1>1, <1>2, <1>3 DEF ReportsInv

LEMMA ReportsInvKept == ASSUME ReportsInv, ReportsNext PROVE ReportsInv'
<1>0. IsReport(NoReport) /\ NoReport.at = "idle"
  BY DEF IsReport, NoReport
<1>1. CASE AuthorDeletes
  <2>1. reported' = "gone" /\ flags' = <<>> /\ UNCHANGED moderation
    BY <1>1 DEF AuthorDeletes
  <2>2. IsSeq(flags') /\ DOMAIN flags' = {}
    BY <2>1, NoFlags
  <2>3. ReportsKept'
    BY <2>1, <2>2 DEF ReportsKept, OpenFlags
  <2>4. QED
    BY <2>1, <2>2, <2>3 DEF ReportsInv
<1>2. ASSUME NEW u \in Readers, AskFlag(u) PROVE ReportsInv'
  <2>1. PICK q : q = [moderation[u] EXCEPT !.at = "flagging"]
    OBVIOUS
  <2>2. moderation' = [moderation EXCEPT ![u] = q] /\ UNCHANGED <<reported, flags>>
    BY <1>2, <2>1 DEF AskFlag
  <2>3. IsReport(q) /\ q.at = "flagging"
    <3>1. IsReport(moderation[u])
      BY DEF ReportsInv
    <3>2. QED
      BY <2>1, <3>1 DEF IsReport
  <2>4. QED
    BY <2>2, <2>3, ReportMoves
<1>3. ASSUME NEW u \in Readers, InsertFlag(u) PROVE ReportsInv'
  <2>1. moderation' = [moderation EXCEPT ![u] = NoReport] /\ UNCHANGED reported
    BY <1>3 DEF InsertFlag, Finishes
  <2>2. CASE flags' = flags
    BY <1>0, <2>1, <2>2, ReportMoves
  <2>3. CASE flags' # flags
    <3>1. PICK f : f = [by |-> u, status |-> "open"]
      OBVIOUS
    <3>2. reported # "gone" /\ (\A i \in OpenFlags : flags[i].by # u) /\ flags' = Append(flags, f)
      BY <1>3, <2>3, <3>1 DEF InsertFlag, RefusesFlag
    <3>3. /\ IsSeq(flags') /\ DOMAIN flags = 1..Len(flags) /\ DOMAIN flags' = 1..Len(flags) + 1
          /\ \A i \in 1..Len(flags) : flags'[i] = flags[i]
          /\ flags'[Len(flags) + 1] = f /\ Len(flags) \in Nat
      BY <3>2, AppendFacts DEF ReportsInv, IsSeq
    <3>4. IsFlag(f) /\ f.by = u
      BY <3>1 DEF IsFlag
    <3>5. \A i \in DOMAIN flags' : (i \in DOMAIN flags /\ flags'[i] = flags[i]) \/ (i = Len(flags) + 1 /\ flags'[i] = f)
      BY <3>3
    <3>6. \A i \in DOMAIN flags' : IsFlag(flags'[i])
      BY <3>4, <3>5 DEF ReportsInv
    <3>7. \A i \in OpenFlags' : (i \in OpenFlags /\ flags'[i] = flags[i]) \/ (i = Len(flags) + 1 /\ flags'[i] = f)
      BY <3>5 DEF OpenFlags
    <3>8. \A i, j \in OpenFlags' : flags'[i].by = flags'[j].by => i = j
      BY <3>2, <3>4, <3>7 DEF ReportsInv, ReportsKept
    <3>9. flags' # <<>>
      BY <3>3
    <3>10. ReportsKept'
      BY <2>1, <3>2, <3>8, <3>9 DEF ReportsKept
    <3>11. /\ DOMAIN moderation' = Readers \union Moderators
           /\ \A p \in Readers \union Moderators : IsReport(moderation'[p])
      BY <1>0, <2>1 DEF ReportsInv
    <3>12. QED
      BY <3>3, <3>6, <3>9, <3>10, <3>11 DEF ReportsInv
  <2>4. QED
    BY <2>2, <2>3
<1>4. ASSUME NEW p \in Readers \union Moderators, FailReport(p) PROVE ReportsInv'
  BY <1>0, <1>4, ReportMoves DEF FailReport, Finishes
<1>5. ASSUME NEW v \in Moderators, LoadQueue(v) PROVE ReportsInv'
  BY <1>5 DEF LoadQueue, ReportsInv, ReportsKept, OpenFlags
<1>6. ASSUME NEW v \in Moderators, NEW i \in DOMAIN flags, NEW how \in Verdicts, BeginVerdict(v, i, how) PROVE ReportsInv'
  <2>1. PICK q : q = [at |-> IF how = "delete" THEN "hiding" ELSE "closing", flag |-> i, how |-> how]
    OBVIOUS
  <2>2. moderation' = [moderation EXCEPT ![v] = q] /\ UNCHANGED <<reported, flags>>
    BY <1>6, <2>1 DEF BeginVerdict
  <2>3. IsReport(q) /\ flags # <<>>
    BY <2>1 DEF IsReport
  <2>4. QED
    BY <2>2, <2>3, ReportMoves
<1>7. ASSUME NEW v \in Moderators, HideMessage(v) PROVE ReportsInv'
  <2>1. PICK q : q = [moderation[v] EXCEPT !.at = "closing"]
    OBVIOUS
  <2>2. /\ moderation[v].at = "hiding" /\ moderation' = [moderation EXCEPT ![v] = q] /\ UNCHANGED flags
        /\ reported' = IF reported = "gone" THEN reported ELSE "hidden"
    BY <1>7, <2>1 DEF HideMessage
  <2>3. IsReport(q) /\ q.at = "closing"
    <3>1. IsReport(moderation[v])
      BY DEF ReportsInv
    <3>2. QED
      BY <2>1, <3>1 DEF IsReport
  <2>4. reported = "gone" \/ flags # <<>>
    BY <2>2 DEF ReportsInv
  <2>5. QED
    BY <2>2, <2>3, <2>4, ReportMoves
<1>8. ASSUME NEW v \in Moderators, CloseFlag(v) PROVE ReportsInv'
  <2>1. PICK i : i = moderation[v].flag
    OBVIOUS
  <2>2. PICK status : status = IF moderation[v].how = "dismiss" THEN "dismissed" ELSE "resolved"
    OBVIOUS
  <2>3. /\ flags' = IF i \in DOMAIN flags THEN [flags EXCEPT ![i].status = status] ELSE flags
        /\ moderation' = [moderation EXCEPT ![v] = NoReport] /\ UNCHANGED reported
    BY <1>8, <2>1, <2>2 DEF CloseFlag, Finishes
  <2>4. CASE i \notin DOMAIN flags
    BY <1>0, <2>3, <2>4, ReportMoves
  <2>5. CASE i \in DOMAIN flags
    <3>1. PICK f : f = [flags[i] EXCEPT !.status = status]
      OBVIOUS
    <3>2. IsFlag(f) /\ f.status \in {"dismissed", "resolved"}
      BY <2>2, <2>5, <3>1 DEF ReportsInv, IsFlag
    <3>3. flags' = [flags EXCEPT ![i] = f]
      BY <2>3, <2>5, <3>1
    <3>4. IsSeq(flags') /\ DOMAIN flags' = DOMAIN flags
      BY <2>5, <3>3, ExceptFacts DEF ReportsInv
    <3>5. flags'[i] = f /\ \A j \in DOMAIN flags : j # i => flags'[j] = flags[j]
      BY <2>5, <3>3
    <3>6. \A j \in DOMAIN flags' : IsFlag(flags'[j])
      BY <3>2, <3>4, <3>5 DEF ReportsInv
    <3>7. \A j \in OpenFlags' : j \in OpenFlags /\ flags'[j] = flags[j]
      BY <3>2, <3>4, <3>5 DEF OpenFlags
    <3>8. flags' # <<>> /\ flags # <<>>
      BY <2>5, <3>4
    <3>9. ReportsKept'
      BY <2>3, <3>7, <3>8 DEF ReportsInv, ReportsKept
    <3>10. /\ DOMAIN moderation' = Readers \union Moderators
           /\ \A p \in Readers \union Moderators : IsReport(moderation'[p])
      BY <1>0, <2>3 DEF ReportsInv
    <3>11. QED
      BY <3>4, <3>6, <3>8, <3>9, <3>10 DEF ReportsInv
  <2>6. QED
    BY <2>4, <2>5
<1>9. QED
  BY <1>1, <1>2, <1>3, <1>4, <1>5, <1>6, <1>7, <1>8 DEF ReportsNext

------------------------------------------------------------------------------
\* For any number of users, messages, devices, readers and moderators: nothing that belongs
\* to a message outlives it and nothing is left of a deleted chat, a chat with the
\* assistant gets no more answers in 24 hours than the limit while nothing is erased from
\* it, and each reader has one open flag (ConversationsKept in Community; chats.js,
\* messaging.js, manage.js).
THEOREM ConversationsAreKept == Spec => []ConversationsKept
<1> DEFINE TalkInv == ChatInv /\ AssistantInv /\ ReportsInv
<1>1. Init => TalkInv
  <2> SUFFICES ASSUME Init PROVE TalkInv
    OBVIOUS
  <2>1. ChatInv
    BY ChatsStart
  <2>2. AssistantInv
    <3>1. PICK zeros : zeros = [age \in Ages |-> 0]
      OBVIOUS
    <3>2. /\ own = [k \in Assistants |-> zeros] /\ asked = [k \in Assistants |-> zeros]
          /\ DOMAIN device = Devices /\ \A d \in Devices : device[d] = NoCall
          /\ erased = {}
      BY <3>1 DEF Init, AssistantInit, None
    <3>3. zeros \in [Ages -> Nat] /\ \A age \in Ages : zeros[age] = 0
      BY <3>1
    <3>4. Total(zeros) = 0
      BY <3>3, AgesFinite, SumOfZeros DEF Total
    <3>5. \A k \in Assistants : Asking(k) = {}
      BY <3>2 DEF Asking, NoCall
    <3>6. IsFiniteSet({}) /\ Cardinality({}) = 0
      BY FS_EmptySet
    <3>7. AnswersRationed
      BY <3>2, <3>4, AssistantAssumption DEF AnswersRationed
    <3>8. \A d \in Devices : device[d] = [at |-> device[d].at, dm |-> device[d].dm] /\ device[d].at = "idle"
      BY <3>2 DEF NoCall
    <3>9. \A k \in Assistants : \A age \in Ages :
            asked[k][age] + (IF age = 0 THEN Cardinality(Asking(k)) ELSE 0) <= own[k][age]
      BY <3>2, <3>3, <3>5, <3>6
    <3>10. QED
      BY <3>2, <3>3, <3>5, <3>6, <3>7, <3>8, <3>9 DEF AssistantInv
  <2>3. ReportsInv
    <3>1. /\ reported = "shown" /\ flags = <<>>
          /\ DOMAIN moderation = Readers \union Moderators
          /\ \A p \in Readers \union Moderators : moderation[p] = NoReport
      BY DEF Init, ReportsInit
    <3>2. IsReport(NoReport) /\ NoReport.at = "idle"
      BY DEF IsReport, NoReport
    <3>3. IsSeq(flags) /\ DOMAIN flags = {}
      BY <3>1, NoFlags
    <3>4. ReportsKept
      BY <3>1, <3>3 DEF ReportsKept, OpenFlags
    <3>5. QED
      BY <3>1, <3>2, <3>3, <3>4 DEF ReportsInv
  <2>4. QED
    BY <2>1, <2>2, <2>3
<1>2. TalkInv /\ [Next]_vars => TalkInv'
  <2> SUFFICES ASSUME TalkInv, [Next]_vars PROVE TalkInv'
    OBVIOUS
  <2>1. ChatInv'
    BY ChatsGoOn
  <2>2. AssistantInv'
    <3>1. AssistantNext \/ UNCHANGED assistantVars
      BY DEF Next, Only, vars
    <3>2. CASE UNCHANGED assistantVars
      BY <3>2 DEF AssistantInv, AnswersRationed, Asking, Total, assistantVars
    <3>3. QED
      BY <3>1, <3>2, AssistantKept
  <2>3. ReportsInv'
    <3>1. ReportsNext \/ UNCHANGED reportsVars
      BY DEF Next, Only, vars
    <3>2. CASE UNCHANGED reportsVars
      BY <3>2 DEF ReportsInv, ReportsKept, OpenFlags, reportsVars
    <3>3. QED
      BY <3>1, <3>2, ReportsInvKept
  <2>4. QED
    BY <2>1, <2>2, <2>3
<1>3. TalkInv => ConversationsKept
  BY DEF ChatInv, AssistantInv, ReportsInv, ConversationsKept
<1>4. QED
  BY <1>1, <1>2, <1>3, PTL DEF Spec
------------------------------------------------------------------------------
(* The charts of the page of signals                                         *)

IsChart(r) == DOMAIN r = {"candles", "socket", "retry", "retried", "stopped"}

\* A chart without candles has no socket, timer or stop; one that waits for its timer has no
\* open socket, nor has one that is stopped.
ChartSound(r) ==
  /\ IsChart(r)
  /\ r.candles # "here" => r.socket = "none" /\ ~r.retry /\ ~r.stopped
  /\ r.retry \/ r.stopped => r.socket # "open"

ChartsInv ==
  /\ DOMAIN live = Charts
  /\ \A k \in Charts : ChartSound(live[k])
  /\ sockets = {k \in Charts : live[k].socket = "open"}

LEMMA ChartMoves ==
  ASSUME ChartsInv, NEW k \in Charts, NEW r, ChartSound(r), live' = [live EXCEPT ![k] = r],
         sockets' = IF r.socket = "open" THEN sockets \union {k} ELSE sockets \ {k}
  PROVE  ChartsInv'
<1>1. DOMAIN live' = Charts /\ live'[k] = r /\ \A j \in Charts : j # k => live'[j] = live[j]
  BY DEF ChartsInv
<1>2. \A j \in Charts : ChartSound(live'[j])
  BY <1>1 DEF ChartsInv
<1>3. sockets' = {j \in Charts : live'[j].socket = "open"}
  BY <1>1 DEF ChartsInv
<1>4. QED
  BY <1>1, <1>2, <1>3 DEF ChartsInv

LEMMA ChartsKept == ASSUME ChartsInv, LiveNext PROVE ChartsInv'
<1>1. PICK k \in Charts :
        \/ AskKlines(k) \/ KlinesNull(k) \/ SocketCloses(k) \/ StopChart(k)
        \/ \E works \in BOOLEAN : Subscribe(k, works) \/ RetryTimer(k, works)
  BY DEF LiveNext
<1> DEFINE r == live[k]
<1>2. ChartSound(r) /\ IsChart(r) /\ DOMAIN live = Charts /\ (k \in sockets <=> r.socket = "open")
  BY DEF ChartsInv, ChartSound
<1>3. CASE AskKlines(k)
  <2> DEFINE q == [r EXCEPT !.candles = "asked"]
  <2>1. live' = [live EXCEPT ![k] = q] /\ sockets' = sockets
    BY <1>3 DEF AskKlines
  <2>2. ChartSound(q) /\ q.socket = r.socket
    BY <1>2, <1>3 DEF AskKlines, ChartSound, IsChart
  <2>3. sockets' = IF q.socket = "open" THEN sockets \union {k} ELSE sockets \ {k}
    BY <1>2, <2>1, <2>2
  <2> HIDE DEF q
  <2>4. QED
    BY <2>1, <2>2, <2>3, ChartMoves
<1>4. CASE KlinesNull(k)
  <2> DEFINE q == [r EXCEPT !.candles = "null"]
  <2>1. live' = [live EXCEPT ![k] = q] /\ sockets' = sockets
    BY <1>4 DEF KlinesNull
  <2>2. ChartSound(q) /\ q.socket = r.socket
    BY <1>2, <1>4 DEF KlinesNull, ChartSound, IsChart
  <2>3. sockets' = IF q.socket = "open" THEN sockets \union {k} ELSE sockets \ {k}
    BY <1>2, <2>1, <2>2
  <2> HIDE DEF q
  <2>4. QED
    BY <2>1, <2>2, <2>3, ChartMoves
<1>5. CASE SocketCloses(k)
  <2> DEFINE q == [r EXCEPT !.socket = "none", !.retry = ~r.stopped /\ ~r.retried, !.retried = r.retried \/ ~r.stopped]
  <2>1. live' = [live EXCEPT ![k] = q] /\ sockets' = sockets \ {k}
    BY <1>2, <1>5 DEF SocketCloses
  <2>2. ChartSound(q) /\ q.socket = "none"
    BY <1>2, <1>5 DEF SocketCloses, ChartSound, IsChart
  <2>3. sockets' = IF q.socket = "open" THEN sockets \union {k} ELSE sockets \ {k}
    BY <2>1, <2>2
  <2> HIDE DEF q
  <2>4. QED
    BY <2>1, <2>2, <2>3, ChartMoves
<1>6. CASE StopChart(k)
  <2> DEFINE q == [r EXCEPT !.stopped = TRUE, !.socket = IF r.socket = "open" THEN "closing" ELSE r.socket]
  <2>1. live' = [live EXCEPT ![k] = q] /\ sockets' = sockets \ {k}
    BY <1>2, <1>6 DEF StopChart
  <2>2. ChartSound(q) /\ q.socket # "open"
    BY <1>2, <1>6 DEF StopChart, ChartSound, IsChart
  <2>3. sockets' = IF q.socket = "open" THEN sockets \union {k} ELSE sockets \ {k}
    BY <2>1, <2>2
  <2> HIDE DEF q
  <2>4. QED
    BY <2>1, <2>2, <2>3, ChartMoves
<1>7. ASSUME NEW works \in BOOLEAN, Subscribe(k, works) PROVE ChartsInv'
  <2> DEFINE q == [r EXCEPT !.candles = "here", !.socket = IF works THEN "open" ELSE "none"]
  <2>1. live' = [live EXCEPT ![k] = q] /\ sockets' = IF works THEN sockets \union {k} ELSE sockets
    BY <1>2, <1>7 DEF Subscribe
  <2>2. ChartSound(q) /\ q.socket = (IF works THEN "open" ELSE "none") /\ r.socket = "none"
    BY <1>2, <1>7 DEF Subscribe, ChartSound, IsChart
  <2>3. sockets' = IF q.socket = "open" THEN sockets \union {k} ELSE sockets \ {k}
    BY <1>2, <2>1, <2>2
  <2> HIDE DEF q
  <2>4. QED
    BY <2>1, <2>2, <2>3, ChartMoves
<1>8. ASSUME NEW works \in BOOLEAN, RetryTimer(k, works) PROVE ChartsInv'
  <2> DEFINE again == Reopens(k) /\ works
             q == [r EXCEPT !.retry = FALSE, !.socket = IF again THEN "open" ELSE "none"]
  <2>1. live' = [live EXCEPT ![k] = q] /\ sockets' = IF again THEN sockets \union {k} ELSE sockets
    BY <1>2, <1>8 DEF RetryTimer
  <2>2. ChartSound(q) /\ q.socket = (IF again THEN "open" ELSE "none") /\ r.socket # "open"
    BY <1>2, <1>8 DEF RetryTimer, ChartSound, IsChart, Reopens
  <2> HIDE DEF again
  <2>3. sockets' = IF q.socket = "open" THEN sockets \union {k} ELSE sockets \ {k}
    BY <1>2, <2>1, <2>2
  <2> HIDE DEF q
  <2>4. QED
    BY <2>1, <2>2, <2>3, ChartMoves
<1>9. QED
  BY <1>1, <1>3, <1>4, <1>5, <1>6, <1>7, <1>8

------------------------------------------------------------------------------
(* Live streams                                                              *)

IsRoom(r) == DOMAIN r = {"open", "broadcaster", "peers", "producing"}

\* Who is in a room is connected, and only a peer produces; a room that is gone is empty.
RoomSound(r) ==
  /\ IsRoom(r)
  /\ r.peers # {} => r.open
  /\ r.producing \subseteq r.peers

StreamInv ==
  /\ DOMAIN room = Sessions
  /\ \A s \in Sessions : RoomSound(room[s]) /\ room[s].peers \subseteq connected
  /\ DOMAIN relay = {"active", "viewers"}
  /\ relay.viewers \subseteq UsersConnected
  /\ relay.active => "host" \in UsersConnected
  /\ DOMAIN online \subseteq UsersConnected

LEMMA RoomMoves ==
  ASSUME StreamInv, NEW s \in Sessions, NEW r, RoomSound(r), r.peers \subseteq connected,
         room' = [room EXCEPT ![s] = r], UNCHANGED <<connected, online, relay>>
  PROVE  StreamInv'
<1>1. DOMAIN room' = Sessions /\ room'[s] = r /\ \A x \in Sessions : x # s => room'[x] = room[x]
  BY DEF StreamInv
<1>2. \A x \in Sessions : RoomSound(room'[x]) /\ room'[x].peers \subseteq connected'
  BY <1>1 DEF StreamInv
<1>3. UsersConnected' = UsersConnected
  BY DEF UsersConnected
<1>4. QED
  BY <1>1, <1>2, <1>3 DEF StreamInv

LEMMA RelayMoves ==
  ASSUME StreamInv, UNCHANGED <<connected, online, room>>,
         DOMAIN relay' = {"active", "viewers"},
         relay'.viewers \subseteq UsersConnected,
         relay'.active => "host" \in UsersConnected
  PROVE  StreamInv'
<1>1. UsersConnected' = UsersConnected
  BY DEF UsersConnected
<1>2. QED
  BY <1>1 DEF StreamInv

LEMMA RoomOrNot ==
  ASSUME NEW r, RoomSound(r), NEW k
  PROVE  /\ RoomSound(ClosePeer(r, k)) /\ ClosePeer(r, k).peers = r.peers \ {k}
         /\ RoomSound(NoRoom) /\ NoRoom.peers = {}
         /\ RoomSound(NewRoom) /\ NewRoom.peers = {}
<1>1. RoomSound(ClosePeer(r, k)) /\ ClosePeer(r, k).peers = r.peers \ {k}
  BY DEF RoomSound, IsRoom, ClosePeer
<1>2. RoomSound(NoRoom) /\ NoRoom.peers = {}
  BY DEF RoomSound, IsRoom, NoRoom
<1>3. RoomSound(NewRoom) /\ NewRoom.peers = {}
  BY DEF RoomSound, IsRoom, NoRoom, NewRoom
<1>4. QED
  BY <1>1, <1>2, <1>3

LEMMA StreamsKept == ASSUME StreamInv, StreamsNext PROVE StreamInv'
<1>1. ASSUME NEW c \in Starts, EndStale(c) \/ InsertSession(c) PROVE StreamInv'
  BY <1>1 DEF EndStale, InsertSession, StreamInv, UsersConnected
<1>2. ASSUME NEW s \in Sessions, Stop(s) \/ EndRow(s) PROVE StreamInv'
  BY <1>2 DEF Stop, EndRow, StreamInv, UsersConnected
<1>3. ASSUME NEW s \in Sessions, RouterReady(s) PROVE StreamInv'
  <2>1. RoomSound(NewRoom) /\ NewRoom.peers = {}
    BY RoomOrNot DEF StreamInv
  <2>2. QED
    BY <1>3, <2>1, RoomMoves DEF RouterReady
<1>4. ASSUME NEW k \in Sockets, Connect(k) PROVE StreamInv'
  <2>1. UsersConnected' = UsersConnected \union {UserOf(k)}
    BY <1>4 DEF Connect, UsersConnected
  <2>2. DOMAIN online' = DOMAIN online \union {UserOf(k)}
    BY <1>4 DEF Connect, With
  <2>3. QED
    BY <1>4, <2>1, <2>2 DEF Connect, StreamInv
<1>5. ASSUME NEW k \in Sockets, Disconnect(k) PROVE StreamInv'
  <2> DEFINE in == {s \in Sessions : room[s].open /\ k \in room[s].peers}
             closing == {s \in in : room[s].broadcaster = k}
  <2>1. /\ connected' = connected \ {k} /\ k \in connected
        /\ online' = Without(online, {UserOf(k)})
        /\ relay' = RelayWithout(k)
        /\ room' = [s \in Sessions |-> IF s \in closing THEN NoRoom ELSE IF s \in in THEN ClosePeer(room[s], k) ELSE room[s]]
    BY <1>5 DEF Disconnect
  <2>2. DOMAIN room' = Sessions
    BY <2>1
  <2>3. ASSUME NEW s \in Sessions PROVE RoomSound(room'[s]) /\ room'[s].peers \subseteq connected'
    <3>1. RoomSound(room[s]) /\ room[s].peers \subseteq connected
      BY DEF StreamInv
    <3>2. s \notin in => k \notin room[s].peers
      BY <3>1 DEF RoomSound
    <3>3. room'[s] = IF s \in closing THEN NoRoom ELSE IF s \in in THEN ClosePeer(room[s], k) ELSE room[s]
      BY <2>1
    <3>4. QED
      BY <2>1, <3>1, <3>2, <3>3, RoomOrNot
  <2>4. UsersConnected \ {UserOf(k)} \subseteq UsersConnected'
    BY <2>1 DEF UsersConnected
  <2>5. DOMAIN online' = DOMAIN online \ {UserOf(k)}
    BY <2>1 DEF Without
  <2>6. /\ DOMAIN relay' = {"active", "viewers"}
        /\ relay'.viewers \subseteq relay.viewers \ {UserOf(k)}
        /\ relay'.active => relay.active /\ UserOf(k) # "host"
    BY <2>1 DEF StreamInv, RelayWithout, NoRelay
  <2>7. QED
    BY <2>2, <2>3, <2>4, <2>5, <2>6 DEF StreamInv
<1>6. ASSUME NEW k \in Sockets, LiveStart(k) \/ LiveStop(k) \/ LiveJoin(k) \/ LiveLeave(k) PROVE StreamInv'
  <2>1. k \in connected => UserOf(k) \in UsersConnected
    BY DEF UsersConnected
  <2>2. CASE LiveStart(k)
    <3>1. "host" \in UsersConnected
      BY <2>1, <2>2 DEF LiveStart, UserOf
    <3>2. relay' = [active |-> TRUE, viewers |-> {}]
      BY <2>2 DEF LiveStart
    <3>3. QED
      BY <2>2, <3>1, <3>2, RelayMoves DEF LiveStart
  <2>3. CASE LiveStop(k)
    <3>1. relay' = [active |-> FALSE, viewers |-> {}]
      BY <2>3 DEF LiveStop, NoRelay
    <3>2. QED
      BY <2>3, <3>1, RelayMoves DEF LiveStop
  <2>4. CASE LiveJoin(k)
    <3>1. DOMAIN relay' = {"active", "viewers"} /\ relay'.viewers = relay.viewers \union {UserOf(k)} /\ (relay'.active => relay.active)
      BY <2>4 DEF LiveJoin, StreamInv
    <3>2. QED
      BY <2>1, <2>4, <3>1, RelayMoves DEF LiveJoin, StreamInv
  <2>5. CASE LiveLeave(k)
    <3>1. DOMAIN relay' = {"active", "viewers"} /\ relay'.viewers = relay.viewers \ {UserOf(k)} /\ (relay'.active => relay.active)
      BY <2>5 DEF LiveLeave, StreamInv
    <3>2. QED
      BY <2>1, <2>5, <3>1, RelayMoves DEF LiveLeave, StreamInv
  <2>6. QED
    BY <1>6, <2>2, <2>3, <2>4, <2>5
<1>7. ASSUME NEW k \in Sockets, NEW s \in Sessions, GetCapabilities(k, s) \/ TransportReady(k, s) PROVE StreamInv'
  BY <1>7 DEF GetCapabilities, TransportReady, StreamInv, UsersConnected
<1>8. ASSUME NEW k \in Sockets, NEW s \in Sessions,
             CreateTransport(k, s) \/ Produce(k, s) \/ Consume(k, s) \/ Leave(k, s) \/ Close(k, s)
      PROVE  StreamInv'
  <2> DEFINE r == room[s]
  <2>1. RoomSound(r) /\ r.peers \subseteq connected /\ DOMAIN room = Sessions /\ IsRoom(r)
    BY DEF StreamInv, RoomSound
  <2>2. CASE CreateTransport(k, s) \/ Consume(k, s)
    <3> DEFINE q == [r EXCEPT !.peers = r.peers \union {k}]
    <3>1. room' = [room EXCEPT ![s] = q] /\ k \in connected /\ UNCHANGED <<connected, online, relay>>
      BY <2>1, <2>2 DEF CreateTransport, Consume
    <3>2. RoomSound(q) /\ q.peers = r.peers \union {k}
      BY <2>1, <2>2 DEF CreateTransport, Consume, RoomSound, IsRoom
    <3> HIDE DEF q
    <3>3. QED
      BY <2>1, <3>1, <3>2, RoomMoves
  <2>3. CASE Produce(k, s)
    <3> DEFINE q == [r EXCEPT !.producing = r.producing \union {k}, !.broadcaster = k]
    <3>1. room' = [room EXCEPT ![s] = q] /\ k \in r.peers /\ UNCHANGED <<connected, online, relay>>
      BY <2>1, <2>3 DEF Produce, HasTransport
    <3>2. RoomSound(q) /\ q.peers = r.peers
      BY <2>1, <3>1 DEF RoomSound, IsRoom
    <3> HIDE DEF q
    <3>3. QED
      BY <2>1, <3>1, <3>2, RoomMoves
  <2>4. CASE Leave(k, s)
    <3> DEFINE q == ClosePeer(r, k)
    <3>1. room' = [room EXCEPT ![s] = q] /\ UNCHANGED <<connected, online, relay>>
      BY <2>4 DEF Leave
    <3>2. RoomSound(q) /\ q.peers = r.peers \ {k}
      BY <2>1, RoomOrNot
    <3> HIDE DEF q
    <3>3. QED
      BY <2>1, <3>1, <3>2, RoomMoves
  <2>5. CASE Close(k, s)
    <3>1. RoomSound(NoRoom) /\ NoRoom.peers = {}
      BY <2>1, RoomOrNot
    <3>2. QED
      BY <2>5, <3>1, RoomMoves DEF Close
  <2>6. QED
    BY <1>8, <2>2, <2>3, <2>4, <2>5
<1>9. QED
  BY <1>1, <1>2, <1>3, <1>4, <1>5, <1>6, <1>7, <1>8 DEF StreamsNext
------------------------------------------------------------------------------
(* The back gesture                                                          *)

IsGame(g) == DOMAIN g = {"shown", "sheet", "sub", "depth", "pending"}

\* A game that is not shown holds no entry of the history.
GameSound(g) ==
  /\ IsGame(g)
  /\ g.depth \in Nat
  /\ ~g.shown => g.depth = 0

BackInv ==
  /\ DOMAIN history = {"at", "rewinds", "left", "first", "peeled"}
  /\ DOMAIN nav = {"armed", "gestured", "exit", "letExit", "modal"}
  /\ history.at \in Nat
  /\ GameSound(et) /\ GameSound(bp)
  /\ NeverLeftUnasked /\ OneLayerEach

LEMMA LayersAreNat == ASSUME NEW g PROVE Layers(g) \in Nat /\ (~g.shown => Layers(g) = 0)
BY DEF Layers, One

\* Syncing keeps a game sound, whatever it showed before, and pushes entries only.
LEMMA SyncedSound ==
  ASSUME NEW g, IsGame(g), g.depth \in Int
  PROVE  GameSound(Synced(g)) /\ Pushed(g) \in Nat
<1>1. Layers(g) \in Nat /\ (~g.shown => Layers(g) = 0)
  BY LayersAreNat
<1>2. DOMAIN Synced(g) = DOMAIN g /\ Synced(g).depth = Layers(g) /\ (Synced(g).shown <=> g.shown)
  BY DEF Synced, IsGame
<1>3. Pushed(g) \in Nat
  BY <1>1 DEF Pushed
<1>4. QED
  BY <1>1, <1>2, <1>3 DEF GameSound, IsGame

LEMMA PeeledIsGame ==
  ASSUME NEW g, IsGame(g)
  PROVE  IsGame(Peeled(g)) /\ Peeled(g).depth = g.depth
BY DEF Peeled, IsGame

LEMMA HeardSound ==
  ASSUME NEW g, GameSound(g), NEW answers, answers => Answers(g)
  PROVE  GameSound(Heard(g, answers)) /\ PushedBy(g, answers) \in Nat
<1> DEFINE h == [g EXCEPT !.depth = @ - 1]
<1>1. IsGame(h) /\ h.depth = g.depth - 1
  BY DEF GameSound, IsGame
<1>2. IsGame(Consumed(g)) /\ Consumed(g).depth = g.depth - 1
  <2> HIDE DEF h
  <2>1. Consumed(g) = Peeled(h)
    BY DEF Consumed, h
  <2>2. QED
    BY <1>1, <2>1, PeeledIsGame
<1>3. g.depth - 1 \in Int
  BY DEF GameSound
<1>4. GameSound(Synced(Consumed(g))) /\ Pushed(Consumed(g)) \in Nat
  BY <1>2, <1>3, SyncedSound
<1>5. PushedBy(g, answers) \in Nat
  BY <1>4 DEF PushedBy
<1>6. CASE Own(g)
  <2> DEFINE q == [g EXCEPT !.pending = @ - 1]
  <2>1. GameSound(q)
    BY DEF GameSound, IsGame
  <2>2. Heard(g, answers) = q
    BY <1>6 DEF Heard
  <2>3. QED
    BY <1>5, <2>1, <2>2
<1>7. CASE ~Own(g)
  <2>1. Heard(g, answers) = IF answers THEN Synced(Consumed(g)) ELSE g
    BY <1>7 DEF Heard
  <2>2. QED
    BY <1>4, <1>5, <2>1
<1>8. QED
  BY <1>6, <1>7

\* A game that shows something else: entries are pushed below it and nothing is peeled.
LEMMA SyncsKeep ==
  ASSUME BackInv, NEW g, IsGame(g), g.depth \in Int, NEW first, Syncs(g, first), nav' = nav, ~history.left,
         GameSound(et'), GameSound(bp')
  PROVE  BackInv'
<1>1. Pushed(g) \in Nat
  BY SyncedSound
<1>2. history' = [history EXCEPT !.at = @ + Pushed(g), !.rewinds = @ + Rewound(g), !.first = first, !.peeled = 0]
  BY DEF Syncs
<1>3. /\ DOMAIN history' = DOMAIN history /\ history'.at = history.at + Pushed(g)
      /\ history'.peeled = 0 /\ ~history'.left
  BY <1>2 DEF BackInv
<1>4. NeverLeftUnasked'
  BY <1>1, <1>3 DEF BackInv, NeverLeftUnasked
<1>5. OneLayerEach'
  BY <1>3 DEF OneLayerEach
<1>6. QED
  BY <1>1, <1>3, <1>4, <1>5 DEF BackInv

\* A popped entry: only a confirmed exit leaves fewer entries than there were.
LEMMA PoppedKeeps ==
  ASSUME BackInv, NEW rewinds, Popped(rewinds), history.at # 0, ~history.left
  PROVE  BackInv'
<1>1. GameSound(et) /\ GameSound(bp)
  BY DEF BackInv
<1>2. EtAnswers => Answers(et)
  BY DEF EtAnswers
<1>3. /\ GameSound(Heard(et, EtAnswers)) /\ PushedBy(et, EtAnswers) \in Nat
      /\ GameSound(Heard(bp, Answers(bp))) /\ PushedBy(bp, Answers(bp)) \in Nat
  BY <1>1, <1>2, HeardSound
<1> DEFINE pushes == PushedBy(et, EtAnswers) + PushedBy(bp, Answers(bp))
<1>4. /\ NavHears
      /\ et' = Heard(et, EtAnswers)
      /\ bp' = Heard(bp, Answers(bp))
      /\ history' = [history EXCEPT
           !.at = @ - 1 + (IF nav.letExit THEN 0 ELSE Rearmed) + PushedBy(et, EtAnswers) + PushedBy(bp, Answers(bp)),
           !.rewinds = rewinds + RewoundBy(et, EtAnswers) + RewoundBy(bp, Answers(bp)),
           !.peeled = One(EtAnswers) + One(Answers(bp))]
  BY DEF Popped
<1>5. /\ DOMAIN history' = DOMAIN history /\ ~history'.left /\ history'.first = history.first
      /\ history'.at = history.at - 1 + (IF nav.letExit THEN 0 ELSE Rearmed) + PushedBy(et, EtAnswers) + PushedBy(bp, Answers(bp))
      /\ history'.peeled = One(EtAnswers) + One(Answers(bp))
  BY <1>4 DEF BackInv
<1>6. history'.at \in Nat /\ (~nav.letExit => history'.at > 0)
  <2>1. history.at \in Nat /\ history.at # 0
    BY DEF BackInv
  <2>2. QED
    BY <1>3, <1>5, <2>1 DEF Rearmed
<1>7. DOMAIN nav' = DOMAIN nav /\ (nav.letExit => ~nav'.armed)
  <2>1. CASE nav.letExit
    <3>1. nav' = [nav EXCEPT !.letExit = FALSE, !.armed = FALSE]
      BY <1>4, <2>1 DEF NavHears
    <3>2. QED
      BY <3>1 DEF BackInv
  <2>2. CASE ~nav.letExit
    <3>1. \/ nav' = [nav EXCEPT !.exit = FALSE, !.armed = TRUE]
          \/ nav' = [nav EXCEPT !.modal = FALSE, !.armed = TRUE]
          \/ nav' = [nav EXCEPT !.exit = TRUE, !.armed = TRUE]
      BY <1>4, <2>2 DEF NavHears
    <3>2. QED
      BY <2>2, <3>1
  <2>3. QED
    BY <2>1, <2>2
<1>8. NeverLeftUnasked'
  BY <1>5, <1>6, <1>7 DEF NeverLeftUnasked
<1>9. OneLayerEach'
  <2> SUFFICES ASSUME history.first = "et" PROVE history'.peeled <= 1
    BY <1>5 DEF OneLayerEach
  <2>1. ~(EtAnswers /\ Answers(bp))
    BY <1>1 DEF EtAnswers, Answers, GameSound
  <2>2. QED
    BY <1>5, <2>1 DEF One
<1>10. QED
  BY <1>3, <1>4, <1>5, <1>6, <1>7, <1>8, <1>9 DEF BackInv

LEMMA BackKept == ASSUME BackInv, BackNext PROVE BackInv'
<1>1. ~history.left /\ IsGame(et) /\ IsGame(bp) /\ et.depth \in Int /\ bp.depth \in Int
      /\ GameSound(et) /\ GameSound(bp) /\ history.at \in Nat
  BY DEF BackNext, BackInv, GameSound
<1>2. ASSUME NEW rewinds, GoesBack(rewinds) PROVE BackInv'
  <2>1. CASE history.at = 0
    <3>1. history' = [history EXCEPT !.left = TRUE] /\ UNCHANGED <<nav, et, bp>>
      BY <1>2, <2>1 DEF GoesBack, LeavesPage
    <3>2. DOMAIN history' = DOMAIN history /\ history'.at = 0 /\ history'.first = history.first /\ history'.peeled = history.peeled
      BY <2>1, <3>1 DEF BackInv
    <3>3. ~(nav.gestured /\ nav.armed)
      BY <2>1 DEF BackInv, NeverLeftUnasked
    <3>4. QED
      BY <3>1, <3>2, <3>3 DEF BackInv, NeverLeftUnasked, OneLayerEach
  <2>2. CASE history.at # 0
    BY <1>1, <1>2, <2>2, PoppedKeeps DEF GoesBack
  <2>3. QED
    BY <2>1, <2>2
<1>3. CASE BackGesture \/ Rewind
  BY <1>2, <1>3 DEF BackGesture, Rewind
<1>4. CASE Gesture \/ ConfirmExit
  <2>1. DOMAIN history' = DOMAIN history /\ history'.at = history.at + 1 /\ history'.left = history.left
        /\ history'.first = history.first /\ history'.peeled = history.peeled /\ UNCHANGED <<et, bp>>
    BY <1>4 DEF Gesture, ConfirmExit, BackInv
  <2>2. DOMAIN nav' = DOMAIN nav
    BY <1>4 DEF Gesture, ConfirmExit
  <2>3. QED
    BY <1>1, <2>1, <2>2 DEF BackInv, NeverLeftUnasked, OneLayerEach
<1>5. CASE OpenModal \/ CloseModal \/ StayHere
  <2>1. UNCHANGED <<history, et, bp>>
    BY <1>5 DEF OpenModal, CloseModal, StayHere
  <2>2. DOMAIN nav' = DOMAIN nav /\ (nav'.armed <=> nav.armed) /\ (nav'.gestured <=> nav.gestured)
    BY <1>5 DEF OpenModal, CloseModal, StayHere, BackInv
  <2>3. QED
    BY <2>1, <2>2 DEF BackInv, NeverLeftUnasked, OneLayerEach
<1>6. ASSUME NEW g, IsGame(g), g.depth \in Int, NEW first, Syncs(g, first),
             \/ et' = Synced(g) /\ UNCHANGED <<nav, bp>>
             \/ bp' = Synced(g) /\ UNCHANGED <<nav, et>>
      PROVE  BackInv'
  <2>1. GameSound(et') /\ GameSound(bp') /\ nav' = nav
    BY <1>1, <1>6, SyncedSound
  <2>2. QED
    BY <1>1, <1>6, <2>1, SyncsKeep
<1>7. ASSUME NEW g, IsGame(g), g.depth \in Int, EtShows(g) \/ BpShows(g) PROVE BackInv'
  BY <1>6, <1>7 DEF EtShows, BpShows
<1> DEFINE Showing(h, b) == [h EXCEPT !.shown = b]
           Sheeted(h, b) == [h EXCEPT !.sheet = b]
           Subbed(h, b) == [h EXCEPT !.sub = b]
           Off(h) == [h EXCEPT !.shown = FALSE, !.sheet = FALSE]
<1>8. ASSUME NEW h, IsGame(h), NEW b
      PROVE  /\ IsGame(Showing(h, b)) /\ Showing(h, b).depth = h.depth
             /\ IsGame(Sheeted(h, b)) /\ Sheeted(h, b).depth = h.depth
             /\ IsGame(Subbed(h, b)) /\ Subbed(h, b).depth = h.depth
             /\ IsGame(Off(h)) /\ Off(h).depth = h.depth
             /\ Subbed(h, b).shown = h.shown
  BY <1>8 DEF IsGame
<1>9. CASE OpenEasyTrade \/ OpenBabyPick
  <2>1. \/ Syncs(Showing(et, TRUE), First("et")) /\ et' = Synced(Showing(et, TRUE)) /\ UNCHANGED <<nav, bp>>
        \/ Syncs(Showing(bp, TRUE), First("bp")) /\ bp' = Synced(Showing(bp, TRUE)) /\ UNCHANGED <<nav, et>>
    BY <1>9 DEF OpenEasyTrade, OpenBabyPick
  <2>2. /\ IsGame(Showing(et, TRUE)) /\ Showing(et, TRUE).depth = et.depth
        /\ IsGame(Showing(bp, TRUE)) /\ Showing(bp, TRUE).depth = bp.depth
    BY <1>1, <1>8
  <2> HIDE DEF Showing
  <2>3. QED
    BY <1>1, <1>6, <2>1, <2>2
<1>10. CASE OpenEtSheet \/ CloseEtSheet \/ EtHome \/ EtBack
  <2>1. EtShows(Sheeted(et, TRUE)) \/ EtShows(Sheeted(et, FALSE)) \/ EtShows(Subbed(et, FALSE)) \/ EtShows(Peeled(et))
    BY <1>10 DEF OpenEtSheet, CloseEtSheet, EtHome, EtBack
  <2>2. /\ IsGame(Sheeted(et, TRUE)) /\ Sheeted(et, TRUE).depth = et.depth
        /\ IsGame(Sheeted(et, FALSE)) /\ Sheeted(et, FALSE).depth = et.depth
        /\ IsGame(Subbed(et, FALSE)) /\ Subbed(et, FALSE).depth = et.depth
        /\ IsGame(Peeled(et)) /\ Peeled(et).depth = et.depth
    BY <1>1, <1>8, PeeledIsGame
  <2> HIDE DEF Sheeted, Subbed
  <2>3. QED
    BY <1>1, <1>7, <2>1, <2>2
<1>11. CASE QuickSetup \/ BpHub \/ OpenFairness \/ CloseFairness \/ BpBack \/ BpClose
  <2>1. \/ BpShows(Subbed(bp, TRUE)) \/ BpShows(Subbed(bp, FALSE)) \/ BpShows(Sheeted(bp, TRUE))
        \/ BpShows(Sheeted(bp, FALSE)) \/ BpShows(Peeled(bp)) \/ BpShows(Off(bp))
    BY <1>11 DEF QuickSetup, BpHub, OpenFairness, CloseFairness, BpBack, BpClose
  <2>2. /\ IsGame(Sheeted(bp, TRUE)) /\ Sheeted(bp, TRUE).depth = bp.depth
        /\ IsGame(Sheeted(bp, FALSE)) /\ Sheeted(bp, FALSE).depth = bp.depth
        /\ IsGame(Subbed(bp, TRUE)) /\ Subbed(bp, TRUE).depth = bp.depth
        /\ IsGame(Subbed(bp, FALSE)) /\ Subbed(bp, FALSE).depth = bp.depth
        /\ IsGame(Off(bp)) /\ Off(bp).depth = bp.depth
        /\ IsGame(Peeled(bp)) /\ Peeled(bp).depth = bp.depth
    BY <1>1, <1>8, PeeledIsGame
  <2> HIDE DEF Sheeted, Subbed, Off
  <2>3. QED
    BY <1>1, <1>7, <2>1, <2>2
<1>12. CASE EtSubView \/ BpResume
  <2>1. /\ et' = [et EXCEPT !.sub = TRUE] \/ et' = et
        /\ bp' = [bp EXCEPT !.sub = TRUE] \/ bp' = bp
        /\ UNCHANGED <<history, nav>>
    BY <1>12 DEF EtSubView, BpResume
  <2>2. GameSound(et') /\ GameSound(bp')
    BY <1>1, <2>1 DEF GameSound, IsGame
  <2>3. QED
    BY <2>1, <2>2 DEF BackInv, NeverLeftUnasked, OneLayerEach
<1>13. QED
  BY <1>3, <1>4, <1>5, <1>9, <1>10, <1>11, <1>12 DEF BackNext

------------------------------------------------------------------------------
(* The pages of the games                                                    *)

\* The calls of a page that end in a result: one for each timer, which has been heard and has
\* shown no result yet.
OncePerTimer(flying, seen, results) ==
  /\ DOMAIN results = Polls
  /\ \A n \in Polls : results[n] \in {0, 1}
  /\ \A n \in Polls : n \notin seen => results[n] = 0
  /\ \A c \in flying : c.kind = "settled" =>
       /\ c.poll \in seen
       /\ c.poll \in Polls => results[c.poll] = 0
       /\ \A d \in flying : d.kind = "settled" /\ d.poll = c.poll => d = c

EasyInv == OncePerTimer(easyCalls, easySeen, easyResults)
PickInv == OncePerTimer(pickCalls, pickSeen, pickResults)

\* Calls that are answered, or made for something else, leave the results alone.
NoNewResult(old, new) == \A d \in new : d.kind = "settled" => d \in old

LEMMA FewerResults ==
  ASSUME NEW flying, NEW new, NEW seen, NEW results, OncePerTimer(flying, seen, results), NoNewResult(flying, new)
  PROVE  OncePerTimer(new, seen, results)
BY DEF OncePerTimer, NoNewResult

LEMMA SentIsQuiet ==
  ASSUME NEW flying, NEW kind, kind # "settled", NEW ticket, NEW status, NEW poll
  PROVE  NoNewResult(flying, Sent(flying, {Asked(kind, ticket, status, poll)}))
<1> DEFINE c == Asked(kind, ticket, status, poll)
           d == [c EXCEPT !.again = TRUE]
<1>1. c.kind = kind /\ d.kind = kind
  BY DEF Asked
<1>2. \A x \in Sent(flying, {c}) : x \in flying \/ x = c \/ x = d
  BY DEF Sent
<1> HIDE DEF c, d
<1>3. QED
  BY <1>1, <1>2 DEF NoNewResult, c

LEMMA AnsweredIsQuiet ==
  ASSUME NEW flying, NEW x
  PROVE  /\ NoNewResult(flying, Answered(flying, x, {}))
         /\ \A kind, ticket, status, poll :
              kind # "settled" => NoNewResult(flying, Answered(flying, x, {Asked(kind, ticket, status, poll)}))
<1>1. NoNewResult(flying, Answered(flying, x, {}))
  BY DEF NoNewResult, Answered, Sent
<1>2. ASSUME NEW kind, NEW ticket, NEW status, NEW poll, kind # "settled"
      PROVE  NoNewResult(flying, Answered(flying, x, {Asked(kind, ticket, status, poll)}))
  <2>1. NoNewResult(flying \ {x}, Sent(flying \ {x}, {Asked(kind, ticket, status, poll)}))
    BY <1>2, SentIsQuiet
  <2>2. QED
    BY <2>1 DEF NoNewResult, Answered
<1>3. QED
  BY <1>1, <1>2

\* The first answer of a timer that says it is settled asks for one result.
LEMMA TimerIsHeard ==
  ASSUME NEW flying, NEW seen, NEW results, OncePerTimer(flying, seen, results), NEW x \in flying,
         NEW poll, poll \notin seen, NEW ticket, NEW status
  PROVE  OncePerTimer(Answered(flying, x, {Asked("settled", ticket, status, poll)}), seen \union {poll}, results)
<1> DEFINE a == Asked("settled", ticket, status, poll)
           b == [a EXCEPT !.again = TRUE]
           e == IF a \in flying \ {x} THEN b ELSE a
           new == Answered(flying, x, {a})
<1>1. a.kind = "settled" /\ a.poll = poll /\ b.kind = "settled" /\ b.poll = poll
  BY DEF Asked
<1> HIDE DEF a, b
<1>2. new = (flying \ {x}) \union {e}
  BY DEF Answered, Sent, b
<1>3. e.kind = "settled" /\ e.poll = poll
  BY <1>1
<1> HIDE DEF new, e
<1>4. \A d \in flying : d.kind = "settled" => d.poll # poll
  BY DEF OncePerTimer
<1>5. QED
  BY <1>2, <1>3, <1>4 DEF OncePerTimer, new, a

\* The result is rendered, or not, and the call is over.
LEMMA ResultIsOver ==
  ASSUME NEW flying, NEW seen, NEW results, OncePerTimer(flying, seen, results), NEW x \in flying, x.kind = "settled"
  PROVE  OncePerTimer(Answered(flying, x, {}), seen, [results EXCEPT ![x.poll] = @ + 1])
<1> DEFINE new == Answered(flying, x, {})
           more == [results EXCEPT ![x.poll] = @ + 1]
<1>1. new = flying \ {x}
  BY DEF Answered, Sent
<1>2. /\ DOMAIN more = Polls
      /\ \A n \in Polls : more[n] = IF n = x.poll THEN results[n] + 1 ELSE results[n]
  BY DEF OncePerTimer
<1>3. x.poll \in seen /\ (x.poll \in Polls => results[x.poll] = 0)
  BY DEF OncePerTimer
<1>4. \A d \in new : d.kind = "settled" => d.poll # x.poll
  BY <1>1 DEF OncePerTimer
<1> HIDE DEF new, more
<1>5. QED
  BY <1>1, <1>2, <1>3, <1>4 DEF OncePerTimer, new, more

LEMMA EasyKept == ASSUME EasyInv, EasyNext PROVE EasyInv'
<1>1. ASSUME NoNewResult(easyCalls, easyCalls'), UNCHANGED <<easySeen, easyResults>> PROVE EasyInv'
  BY <1>1, FewerResults DEF EasyInv
<1>2. NoNewResult(easyCalls, easyCalls)
  BY DEF NoNewResult
<1>3. CASE \/ OpenPage \/ TapResume \/ (\E kind \in {"bet", "rules"} : OpenSheet(kind)) \/ CloseSheet \/ Place
           \/ PollTick \/ Cancel \/ ShowHistory \/ BackToHouses \/ BackOnce \/ Watch
           \/ \E k \in Tickets : Serve(k)
  <2>1. UNCHANGED <<easySeen, easyResults>>
    BY <1>3 DEF OpenPage, TapResume, OpenSheet, CloseSheet, Place, PollTick, Cancel, ShowHistory, BackToHouses,
                BackOnce, Watch, Serve, Renders
  <2>2. \/ easyCalls' = easyCalls
        \/ \E kind, ticket, status, poll :
             kind # "settled" /\ easyCalls' = Sent(easyCalls, {Asked(kind, ticket, status, poll)})
    <3>1. CASE OpenPage
      BY <3>1 DEF OpenPage, Me
    <3>2. CASE TapResume
      BY <3>2 DEF TapResume, TicketCall
    <3>3. CASE Place
      <4> DEFINE k == CHOOSE k \in Tickets : served[k] = 0 /\ \A j \in 1..(k - 1) : served[j] # 0
      <4>1. \/ easyCalls' = Sent(easyCalls, {Asked("bet", k, 1, 0)})
            \/ easyCalls' = Sent(easyCalls, {Asked("bet", 0, 0, 0)})
        BY <3>3 DEF Place
      <4> HIDE DEF k
      <4>2. QED
        BY <4>1
    <3>4. CASE PollTick
      BY <3>4 DEF PollTick, TicketCall
    <3>5. CASE Cancel
      BY <3>5 DEF Cancel, TicketCall
    <3>6. CASE \/ (\E kind \in {"bet", "rules"} : OpenSheet(kind)) \/ CloseSheet \/ ShowHistory \/ BackToHouses
               \/ BackOnce \/ Watch \/ \E k \in Tickets : Serve(k)
      BY <3>6 DEF OpenSheet, CloseSheet, ShowHistory, BackToHouses, BackOnce, Watch, Serve
    <3>7. QED
      BY <1>3, <3>1, <3>2, <3>3, <3>4, <3>5, <3>6
  <2>3. NoNewResult(easyCalls, easyCalls')
    BY <1>2, <2>2, SentIsQuiet
  <2>4. QED
    BY <1>1, <2>1, <2>3
<1>4. ASSUME NEW c \in easyCalls,
             \/ Booted(c) \/ Resumed(c) \/ Refused(c) \/ Placed(c) \/ Reloaded(c)
             \/ Cancelled(c) \/ HomeAfterCancel(c) \/ Failed(c)
      PROVE  EasyInv'
  <2>1. UNCHANGED <<easySeen, easyResults>>
    BY <1>4 DEF Booted, Resumed, Refused, Placed, Reloaded, Cancelled, HomeAfterCancel, Failed, Renders
  <2>2. \/ easyCalls' = Answered(easyCalls, c, {})
        \/ \E kind, ticket, status, poll :
             kind # "settled" /\ easyCalls' = Answered(easyCalls, c, {Asked(kind, ticket, status, poll)})
    <3>1. CASE Booted(c)
      BY <3>1 DEF Booted, TicketCall
    <3>2. CASE Placed(c)
      BY <3>2 DEF Placed, Me
    <3>3. CASE Cancelled(c)
      BY <3>3 DEF Cancelled, Me
    <3>4. CASE Resumed(c) \/ Refused(c) \/ Reloaded(c) \/ HomeAfterCancel(c) \/ Failed(c)
      BY <3>4 DEF Resumed, Refused, Reloaded, HomeAfterCancel, Failed
    <3>5. QED
      BY <1>4, <3>1, <3>2, <3>3, <3>4
  <2>3. NoNewResult(easyCalls, easyCalls')
    BY <2>2, AnsweredIsQuiet
  <2>4. QED
    BY <1>1, <2>1, <2>3
<1>5. ASSUME NEW c \in easyCalls, PollAnswered(c) PROVE EasyInv'
  <2>1. CASE c.status < Settled \/ ~Hears(c)
    <3>1. easyCalls' = Answered(easyCalls, c, {}) /\ UNCHANGED <<easySeen, easyResults>>
      BY <1>5, <2>1 DEF PollAnswered, Renders
    <3>2. QED
      BY <1>1, <3>1, AnsweredIsQuiet
  <2>2. CASE ~(c.status < Settled \/ ~Hears(c))
    <3>1. /\ easySeen' = easySeen \union {c.poll} /\ easyResults' = easyResults
          /\ easyCalls' = Answered(easyCalls, c, {Asked("settled", c.ticket, OpenOf(served), c.poll)})
          /\ c.poll \notin easySeen
      BY <1>5, <2>2 DEF PollAnswered, Me, Hears
    <3>2. QED
      BY <3>1, TimerIsHeard DEF EasyInv
  <2>3. QED
    BY <2>1, <2>2
<1>6. ASSUME NEW c \in easyCalls, ResultShown(c) PROVE EasyInv'
  <2>1. CASE easy.view = "ticket"
    <3>1. /\ easyCalls' = Answered(easyCalls, c, {}) /\ easySeen' = easySeen /\ c.kind = "settled"
          /\ easyResults' = [easyResults EXCEPT ![c.poll] = @ + 1]
      BY <1>6, <2>1 DEF ResultShown
    <3>2. QED
      BY <3>1, ResultIsOver DEF EasyInv
  <2>2. CASE easy.view # "ticket"
    <3>1. easyCalls' = Answered(easyCalls, c, {}) /\ UNCHANGED <<easySeen, easyResults>>
      BY <1>6, <2>2 DEF ResultShown, Renders
    <3>2. QED
      BY <1>1, <3>1, AnsweredIsQuiet
  <2>3. QED
    BY <2>1, <2>2
<1>7. CASE EasyAnswer
  BY <1>4, <1>5, <1>6, <1>7 DEF EasyAnswer
<1>8. QED
  BY <1>3, <1>7 DEF EasyNext

LEMMA PickKept == ASSUME PickInv, PickNext PROVE PickInv'
<1>1. ASSUME NoNewResult(pickCalls, pickCalls'), UNCHANGED <<pickSeen, pickResults>> PROVE PickInv'
  BY <1>1, FewerResults DEF PickInv
<1>2. NoNewResult(pickCalls, pickCalls)
  BY DEF NoNewResult
<1>3. CASE OpenPick \/ QuickPlay \/ Play \/ PickTick \/ ToHub \/ ClosePick \/ \E k \in Tickets : SettlePlay(k)
  <2>1. UNCHANGED <<pickSeen, pickResults>>
    BY <1>3 DEF OpenPick, QuickPlay, Play, PickTick, ToHub, ClosePick, SettlePlay, Shows
  <2>2. \/ pickCalls' = pickCalls
        \/ \E kind, ticket, status, poll :
             kind # "settled" /\ pickCalls' = Sent(pickCalls, {Asked(kind, ticket, status, poll)})
    <3>1. CASE OpenPick
      BY <3>1 DEF OpenPick
    <3>2. CASE Play
      <4> DEFINE k == CHOOSE k \in Tickets : played[k] = 0 /\ \A j \in 1..(k - 1) : played[j] # 0
      <4>1. \/ pickCalls' = Sent(pickCalls, {Asked("bet", k, 1, 0)})
            \/ pickCalls' = Sent(pickCalls, {Asked("bet", 0, 0, 0)})
        BY <3>2 DEF Play
      <4> HIDE DEF k
      <4>2. QED
        BY <4>1
    <3>3. CASE PickTick
      BY <3>3 DEF PickTick, RoundCall
    <3>4. CASE QuickPlay \/ ToHub \/ ClosePick \/ \E k \in Tickets : SettlePlay(k)
      BY <3>4 DEF QuickPlay, ToHub, ClosePick, SettlePlay
    <3>5. QED
      BY <1>3, <3>1, <3>2, <3>3, <3>4
  <2>3. NoNewResult(pickCalls, pickCalls')
    BY <1>2, <2>2, SentIsQuiet
  <2>4. QED
    BY <1>1, <2>1, <2>3
<1>4. ASSUME NEW c \in pickCalls,
             PickBooted(c) \/ PickResumed(c) \/ PlayRefused(c) \/ PlayStarted(c) \/ PickReloaded(c) \/ PickFailed(c)
      PROVE  PickInv'
  <2>1. UNCHANGED <<pickSeen, pickResults>>
    BY <1>4 DEF PickBooted, PickResumed, PlayRefused, PlayStarted, PickReloaded, PickFailed, Shows
  <2>2. \/ pickCalls' = Answered(pickCalls, c, {})
        \/ \E kind, ticket, status, poll :
             kind # "settled" /\ pickCalls' = Answered(pickCalls, c, {Asked(kind, ticket, status, poll)})
    <3>1. CASE PickBooted(c)
      BY <3>1 DEF PickBooted, RoundCall
    <3>2. CASE PlayStarted(c)
      BY <3>2 DEF PlayStarted
    <3>3. CASE PickResumed(c) \/ PlayRefused(c) \/ PickReloaded(c) \/ PickFailed(c)
      BY <3>3 DEF PickResumed, PlayRefused, PickReloaded, PickFailed
    <3>4. QED
      BY <1>4, <3>1, <3>2, <3>3
  <2>3. NoNewResult(pickCalls, pickCalls')
    BY <2>2, AnsweredIsQuiet
  <2>4. QED
    BY <1>1, <2>1, <2>3
<1>5. ASSUME NEW c \in pickCalls, PickPolled(c) PROVE PickInv'
  <2>1. CASE c.status < Settled \/ ~PickHears(c)
    <3>1. pickCalls' = Answered(pickCalls, c, {}) /\ UNCHANGED <<pickSeen, pickResults>>
      BY <1>5, <2>1 DEF PickPolled, Shows
    <3>2. QED
      BY <1>1, <3>1, AnsweredIsQuiet
  <2>2. CASE ~(c.status < Settled \/ ~PickHears(c))
    <3>1. /\ pickSeen' = pickSeen \union {c.poll} /\ pickResults' = pickResults
          /\ pickCalls' = Answered(pickCalls, c, {Asked("settled", c.ticket, OpenOf(played), c.poll)})
          /\ c.poll \notin pickSeen
      BY <1>5, <2>2 DEF PickPolled, PickHears
    <3>2. QED
      BY <3>1, TimerIsHeard DEF PickInv
  <2>3. QED
    BY <2>1, <2>2
<1>6. ASSUME NEW c \in pickCalls, PickResult(c) PROVE PickInv'
  <2>1. /\ pickCalls' = Answered(pickCalls, c, {}) /\ pickSeen' = pickSeen /\ c.kind = "settled"
        /\ pickResults' = [pickResults EXCEPT ![c.poll] = @ + 1]
    BY <1>6 DEF PickResult
  <2>2. QED
    BY <2>1, ResultIsOver DEF PickInv
<1>7. CASE PickAnswer
  BY <1>4, <1>5, <1>6, <1>7 DEF PickAnswer
<1>8. QED
  BY <1>3, <1>7 DEF PickNext
------------------------------------------------------------------------------
(* The pages of trading                                                      *)

IsOrder(c) == c.kind \in {"open", "cashout"}

NoNewOrder(old, new) == \A c \in new : IsOrder(c) => c \in old
OneOrderOnly(flying) == \A c, d \in flying : IsOrder(c) /\ IsOrder(d) => c = d

IsPage(p) ==
  DOMAIN p = {"shown", "real", "list", "focus", "pos", "posOpen", "card", "busy", "poll", "posPoll"}

\* An order in flight keeps the page busy, and is the only one.
PageInv ==
  /\ IsPage(trade)
  /\ \A c \in tradeCalls : IsOrder(c) => trade.busy
  /\ OneOrderOnly(tradeCalls)

\* What was celebrated is noted.
CheersInv ==
  /\ DOMAIN cheers = Positions
  /\ \A k \in Positions : cheers[k] \in {0, 1} /\ (k \notin cheered => cheers[k] = 0)

\* A page on which something else is shown, and which is as busy as before.
Redone(p, q) == IsPage(q) /\ q.busy = p.busy

LEMMA RedoneTwice == ASSUME NEW p, NEW q, NEW r, Redone(p, q), Redone(q, r) PROVE Redone(p, r)
BY DEF Redone

LEMMA SynchronizedPage == ASSUME NEW p, IsPage(p) PROVE Redone(p, Synchronized(p))
<1> DEFINE focus == IF p.focus \in p.list THEN p.focus ELSE Newest1(p.list)
<1>1. Synchronized(p) = [p EXCEPT !.focus = focus, !.pos = focus, !.posOpen = focus # 0]
  BY DEF Synchronized
<1> HIDE DEF focus
<1>2. QED
  BY <1>1 DEF Redone, IsPage

LEMMA LoadedPage == ASSUME NEW p, IsPage(p), NEW list PROVE Redone(p, Loaded(p, list))
<1> DEFINE q == [p EXCEPT !.list = list]
           newest == Newest1(list)
<1>1. Redone(p, q) /\ IsPage(q)
  BY DEF Redone, IsPage
<1>2. Redone(p, [p EXCEPT !.pos = newest, !.posOpen = TRUE])
  <2> HIDE DEF newest
  <2>1. QED
    BY DEF Redone, IsPage
<1>3. Redone(p, p)
  BY DEF Redone
<1>4. Redone(p, Synchronized(q))
  <2> HIDE DEF q
  <2>1. QED
    BY <1>1, SynchronizedPage, RedoneTwice
<1>5. QED
  BY <1>2, <1>3, <1>4 DEF Loaded

LEMMA SamePage ==
  ASSUME NEW p, IsPage(p)
  PROVE  Redone(p, p) /\ Redone(p, Rerendered(p)) /\ Redone(p, Engine(p)) /\ Redone(p, Polling(p))
BY DEF Redone, IsPage, Rerendered, Engine, Polling

\* Nothing is ordered.
LEMMA NoOrder ==
  ASSUME PageInv, Redone(trade, trade'), NoNewOrder(tradeCalls, tradeCalls')
  PROVE  PageInv'
BY DEF PageInv, Redone, NoNewOrder, OneOrderOnly

\* An order is sent by a page that waits for none.
LEMMA OrderSent ==
  ASSUME PageInv, ~trade.busy, trade' = [trade EXCEPT !.busy = TRUE], NEW c,
         tradeCalls' = tradeCalls \union {c}
  PROVE  PageInv'
<1>1. \A d \in tradeCalls : ~IsOrder(d)
  BY DEF PageInv
<1>2. IsPage(trade') /\ trade'.busy
  BY DEF PageInv, IsPage
<1>3. QED
  BY <1>1, <1>2 DEF PageInv, OneOrderOnly

\* The order is answered: there is no other.
LEMMA OrderDone ==
  ASSUME PageInv, NEW c \in tradeCalls, IsOrder(c), IsPage(trade'),
         \A d \in tradeCalls' : (d \in tradeCalls /\ d # c) \/ ~IsOrder(d)
  PROVE  PageInv'
<1>1. \A d \in tradeCalls' : ~IsOrder(d)
  BY DEF PageInv, OneOrderOnly
<1>2. QED
  BY <1>1 DEF PageInv, OneOrderOnly

LEMMA CallingIsFor ==
  ASSUME NEW kind, NEW id, NEW prev, NEW over
  PROVE  /\ Calling(kind, id, prev).kind = kind
         /\ CallingWith(kind, id, prev, over).kind = kind
BY DEF Calling, CallingWith

LEMMA PageKept == ASSUME PageInv, TradeNext PROVE PageInv'
<1>1. IsPage(trade) /\ Redone(trade, trade)
  BY DEF PageInv, Redone
<1>2. ASSUME Redone(trade, trade'), \A d \in tradeCalls' : d \in tradeCalls \/ ~IsOrder(d) PROVE PageInv'
  BY <1>2, NoOrder DEF NoNewOrder
<1>3. \A kind, id, prev, over : kind \notin {"open", "cashout"} =>
        ~IsOrder(Calling(kind, id, prev)) /\ ~IsOrder(CallingWith(kind, id, prev, over))
  BY CallingIsFor DEF IsOrder
<1>4. CASE OpenQO
  <2>1. trade' = [trade EXCEPT !.shown = TRUE] /\ tradeCalls' = tradeCalls \union {Calling("boot", 0, {})}
    BY <1>4 DEF OpenQO, Page, Sends
  <2>2. Redone(trade, trade')
    BY <1>1, <2>1 DEF Redone, IsPage
  <2>3. QED
    BY <1>2, <1>3, <2>1, <2>2
<1>5. CASE CloseQO
  <2>1. /\ trade' = [trade EXCEPT !.shown = FALSE, !.card = 0, !.poll = 0, !.posPoll = FALSE]
        /\ tradeCalls' = tradeCalls \union {}
    BY <1>5 DEF CloseQO, Page
  <2>2. Redone(trade, trade')
    BY <1>1, <2>1 DEF Redone, IsPage
  <2>3. QED
    BY <1>2, <2>1, <2>2
<1>6. CASE SelectOpenChip
  <2>1. PICK k \in trade.list \ {trade.focus} : trade' = Rerendered(Synchronized([trade EXCEPT !.focus = k]))
    BY <1>6 DEF SelectOpenChip, Page
  <2>2. PICK q : q = [trade EXCEPT !.focus = k]
    OBVIOUS
  <2>3. Redone(trade, q) /\ IsPage(q)
    BY <1>1, <2>2 DEF Redone, IsPage
  <2>4. Redone(trade, Synchronized(q)) /\ IsPage(Synchronized(q))
    BY <2>3, SynchronizedPage, RedoneTwice DEF Redone
  <2>5. Redone(trade, trade')
    BY <2>1, <2>2, <2>4, SamePage, RedoneTwice
  <2>6. tradeCalls' = tradeCalls \union {}
    BY <1>6 DEF SelectOpenChip
  <2>7. QED
    BY <1>2, <2>5, <2>6
<1>7. CASE OpenPosition1
  <2>1. ~trade.busy /\ trade' = [trade EXCEPT !.busy = TRUE]
    BY <1>7 DEF OpenPosition1, MayOrder
  <2>2. \E c : tradeCalls' = tradeCalls \union {c}
    <3> DEFINE k == CHOOSE k \in Positions : positions[k] = 0 /\ \A j \in 1..(k - 1) : positions[j] # 0
    <3>1. Sends({Calling("open", k, {})}) \/ Sends({Calling("open", 0, {})})
      BY <1>7 DEF OpenPosition1
    <3> HIDE DEF k
    <3>2. QED
      BY <3>1 DEF Sends
  <2>3. QED
    BY <2>1, <2>2, OrderSent
<1>8. CASE CashOutPosition
  BY <1>8, OrderSent DEF CashOutPosition, MayOrder, Sends
<1>9. CASE TradeTick
  <2>1. trade' = trade /\ tradeCalls' = tradeCalls \union {Calling("position", trade.poll, {})}
    BY <1>9 DEF TradeTick, Page, Sends
  <2>2. QED
    BY <1>1, <1>2, <1>3, <2>1
<1>10. CASE PositionsTick
  <2>1. CASE trade.list = {}
    <3>1. trade' = [trade EXCEPT !.posPoll = FALSE] /\ tradeCalls' = tradeCalls \union {}
      BY <1>10, <2>1 DEF PositionsTick, Page
    <3>2. Redone(trade, trade')
      BY <1>1, <3>1 DEF Redone, IsPage
    <3>3. QED
      BY <1>2, <3>1, <3>2
  <2>2. CASE trade.list # {}
    <3>1. /\ trade' = trade
          /\ \E over \in SUBSET OpenPositions : tradeCalls' = tradeCalls \union {CallingWith("positions", 0, trade.list, over)}
      BY <1>10, <2>2 DEF PositionsTick, Page, Sends
    <3>2. QED
      BY <1>1, <1>2, <1>3, <3>1
  <2>3. QED
    BY <2>1, <2>2
<1>11. ASSUME NEW c \in tradeCalls, Opened(c) PROVE PageInv'
  <2>1. PICK q : q = [trade EXCEPT !.busy = FALSE]
    OBVIOUS
  <2>2. IsPage(q)
    BY <1>1, <2>1 DEF IsPage
  <2>3. IsPage(Rerendered(q)) /\ IsPage([q EXCEPT !.focus = c.id]) /\ IsPage([q EXCEPT !.pos = c.id, !.posOpen = TRUE])
    BY <2>2 DEF IsPage, Rerendered
  <2>4. IsOrder(c)
    BY <1>11 DEF Opened, IsOrder
  <2>5. \/ trade' = Rerendered(q) /\ tradeCalls' = (tradeCalls \ {c}) \union {}
        \/ /\ trade' = [q EXCEPT !.focus = c.id] \/ trade' = [q EXCEPT !.pos = c.id, !.posOpen = TRUE]
           /\ tradeCalls' = (tradeCalls \ {c}) \union {Calling("opened", c.id, {})}
    BY <1>11, <2>1 DEF Opened, Page, Back
  <2>6. IsPage(trade')
    BY <2>3, <2>5
  <2>7. ~IsOrder(Calling("opened", c.id, {}))
    BY <1>3
  <2>8. \A d \in tradeCalls' : (d \in tradeCalls /\ d # c) \/ ~IsOrder(d)
    BY <2>5, <2>7
  <2>9. QED
    BY <2>4, <2>6, <2>8, OrderDone
<1>12. ASSUME NEW c \in tradeCalls, CashOutAnswered(c) PROVE PageInv'
  <2>1. PICK q : q = [trade EXCEPT !.busy = FALSE]
    OBVIOUS
  <2>2. IsPage(q)
    BY <1>1, <2>1 DEF IsPage
  <2>3. IsPage(Rerendered(q))
    BY <2>2 DEF IsPage, Rerendered
  <2>4. IsOrder(c)
    BY <1>12 DEF CashOutAnswered, IsOrder
  <2>5. \/ trade' = Rerendered(q) /\ tradeCalls' = (tradeCalls \ {c}) \union {}
        \/ trade' = q /\ tradeCalls' = (tradeCalls \ {c}) \union {Calling("cashed", c.id, {})}
    BY <1>12, <2>1 DEF CashOutAnswered, Page, Back
  <2>6. IsPage(trade')
    BY <2>2, <2>3, <2>5
  <2>7. ~IsOrder(Calling("cashed", c.id, {}))
    BY <1>3
  <2>8. \A d \in tradeCalls' : (d \in tradeCalls /\ d # c) \/ ~IsOrder(d)
    BY <2>5, <2>7
  <2>9. QED
    BY <2>4, <2>6, <2>8, OrderDone
<1>13. ASSUME NEW c \in tradeCalls, TradeBooted(c) \/ ChartArrived(c) \/ TradeReloaded(c) \/ Resolved(c) PROVE PageInv'
  <2>1. PICK q : q = Loaded(trade, c.list)
    OBVIOUS
  <2>2. Redone(trade, q) /\ IsPage(q)
    BY <1>1, <2>1, LoadedPage DEF Redone
  <2>3. Redone(trade, Rerendered(q)) /\ IsPage(Rerendered(q)) /\ Redone(trade, Rerendered(trade)) /\ IsPage(Rerendered(trade))
    BY <1>1, <2>2, SamePage, RedoneTwice DEF Redone
  <2>4. Redone(trade, Polling(Rerendered(q))) /\ Redone(trade, Engine(Rerendered(trade)))
    BY <2>3, SamePage, RedoneTwice
  <2>5. PICK s : s = [q EXCEPT !.pos = 0, !.posOpen = FALSE]
    OBVIOUS
  <2>6. Redone(trade, s) /\ IsPage(s)
    BY <2>2, <2>5 DEF Redone, IsPage
  <2>7. Redone(trade, Rerendered(s))
    BY <2>6, SamePage, RedoneTwice
  <2>8. /\ trade' \in {Rerendered(q), Polling(Rerendered(q)), Engine(Rerendered(trade)), Rerendered(s)}
        /\ \/ tradeCalls' = (tradeCalls \ {c}) \union {}
           \/ tradeCalls' = (tradeCalls \ {c}) \union {Calling("chart", 0, {})}
    BY <1>13, <2>1, <2>5 DEF TradeBooted, ChartArrived, TradeReloaded, Resolved, Page, Back
  <2>9. Redone(trade, trade')
    BY <2>3, <2>4, <2>7, <2>8
  <2>10. QED
    BY <1>2, <1>3, <2>8, <2>9
<1>14. ASSUME NEW c \in tradeCalls, ShownOpen(c) \/ ShownCashed(c) PROVE PageInv'
  <2>1. PICK q : q = Loaded(trade, c.list)
    OBVIOUS
  <2>2. Redone(trade, q) /\ IsPage(q)
    BY <1>1, <2>1, LoadedPage DEF Redone
  <2>3. PICK f \in {c.id, 0} : \E s :
          /\ s = [q EXCEPT !.focus = f] \/ s = [q EXCEPT !.pos = c.id, !.posOpen = TRUE]
             \/ s = [q EXCEPT !.pos = 0, !.posOpen = FALSE, !.poll = 0]
          /\ trade' \in {Engine(Rerendered(Synchronized(s))), Polling(Rerendered(s)), Rerendered(s)}
    <3>1. CASE ShownOpen(c)
      BY <2>1, <3>1 DEF ShownOpen, Page
    <3>2. CASE ShownCashed(c)
      BY <2>1, <3>2 DEF ShownCashed, Shown
    <3>3. QED
      BY <1>14, <3>1, <3>2
  <2>4. PICK s :
          /\ s = [q EXCEPT !.focus = f] \/ s = [q EXCEPT !.pos = c.id, !.posOpen = TRUE]
             \/ s = [q EXCEPT !.pos = 0, !.posOpen = FALSE, !.poll = 0]
          /\ trade' \in {Engine(Rerendered(Synchronized(s))), Polling(Rerendered(s)), Rerendered(s)}
    BY <2>3
  <2>5. Redone(trade, s) /\ IsPage(s)
    BY <2>2, <2>4 DEF Redone, IsPage
  <2>6. Redone(trade, Synchronized(s)) /\ IsPage(Synchronized(s))
    BY <2>5, SynchronizedPage, RedoneTwice DEF Redone
  <2>7. /\ Redone(trade, Rerendered(s)) /\ IsPage(Rerendered(s))
        /\ Redone(trade, Rerendered(Synchronized(s))) /\ IsPage(Rerendered(Synchronized(s)))
    BY <2>5, <2>6, SamePage, RedoneTwice DEF Redone
  <2>8. Redone(trade, Polling(Rerendered(s))) /\ Redone(trade, Engine(Rerendered(Synchronized(s))))
    BY <2>7, SamePage, RedoneTwice
  <2>9. Redone(trade, trade')
    BY <2>4, <2>7, <2>8
  <2>10. tradeCalls' = (tradeCalls \ {c}) \union {}
    BY <1>14 DEF ShownOpen, ShownCashed, Back
  <2>11. QED
    BY <1>2, <2>9, <2>10
<1>15. ASSUME NEW c \in tradeCalls, TradePolled(c) PROVE PageInv'
  <2>1. PICK q : q = [trade EXCEPT !.pos = c.id, !.posOpen = c.id \in c.list]
    OBVIOUS
  <2>2. Redone(trade, q) /\ IsPage(q)
    BY <1>1, <2>1 DEF Redone, IsPage
  <2>3. Redone(trade, [q EXCEPT !.poll = 0])
    BY <2>2 DEF Redone, IsPage
  <2>4. \/ trade' = q /\ tradeCalls' = (tradeCalls \ {c}) \union {}
        \/ trade' = [q EXCEPT !.poll = 0] /\ tradeCalls' = (tradeCalls \ {c}) \union {Calling("resolved", c.id, {})}
    BY <1>15, <2>1 DEF TradePolled, Page, Shown, Back
  <2>5. ~IsOrder(Calling("resolved", c.id, {}))
    BY <1>3
  <2>6. Redone(trade, trade') /\ \A d \in tradeCalls' : d \in tradeCalls \/ ~IsOrder(d)
    BY <2>2, <2>3, <2>4, <2>5
  <2>7. QED
    BY <1>2, <2>6
<1>16. ASSUME NEW c \in tradeCalls, PositionsAnswered(c) PROVE PageInv'
  <2>1. PICK q : q = [trade EXCEPT !.list = c.list, !.posPoll = trade.posPoll /\ c.list # {}]
    OBVIOUS
  <2>2. Redone(trade, q) /\ IsPage(q)
    BY <1>1, <2>1 DEF Redone, IsPage
  <2>3. trade' = Synchronized(q) /\ tradeCalls' = (tradeCalls \ {c}) \union {Calling("settled", k, {}) : k \in c.prev \ c.list}
    BY <1>1, <1>16, <2>1 DEF PositionsAnswered, Back
  <2>4. Redone(trade, trade')
    BY <2>2, <2>3, SynchronizedPage, RedoneTwice
  <2>5. \A d \in {Calling("settled", k, {}) : k \in c.prev \ c.list} : ~IsOrder(d)
    BY <1>3
  <2>6. QED
    BY <1>2, <2>3, <2>4, <2>5
<1>17. ASSUME NEW c \in tradeCalls, SettledAnswered(c) \/ TradeFailed(c) PROVE PageInv'
  <2>1. /\ trade' = trade
        /\ \/ tradeCalls' = (tradeCalls \ {c}) \union {}
           \/ tradeCalls' = (tradeCalls \ {c}) \union {Calling("reload", 0, {})}
    BY <1>17 DEF SettledAnswered, TradeFailed, Page, Shown, Back
  <2>2. ~IsOrder(Calling("reload", 0, {}))
    BY <1>3
  <2>3. \A d \in tradeCalls' : d \in tradeCalls \/ ~IsOrder(d)
    BY <2>1, <2>2
  <2>4. QED
    BY <1>1, <1>2, <2>1, <2>3
<1>18. ASSUME NEW k \in Positions, SettlePosition(k) PROVE PageInv'
  BY <1>18 DEF SettlePosition, PageInv
<1>19. CASE TradeAnswer
  BY <1>19, <1>11, <1>12, <1>13, <1>14, <1>15, <1>16, <1>17 DEF TradeAnswer
<1>20. QED
  BY <1>4, <1>5, <1>6, <1>7, <1>8, <1>9, <1>10, <1>18, <1>19 DEF TradeNext

LEMMA CheersKept == ASSUME CheersInv, TradeNext PROVE CheersInv'
<1>1. ASSUME UNCHANGED <<cheered, cheers>> PROVE CheersInv'
  BY <1>1 DEF CheersInv
<1>2. CASE \/ OpenQO \/ CloseQO \/ SelectOpenChip \/ OpenPosition1 \/ CashOutPosition \/ TradeTick \/ PositionsTick
           \/ \E k \in Positions : SettlePosition(k)
  BY <1>1, <1>2 DEF OpenQO, CloseQO, SelectOpenChip, OpenPosition1, CashOutPosition, TradeTick, PositionsTick,
                    SettlePosition, Page
<1>3. ASSUME NEW c \in tradeCalls, PositionsAnswered(c) PROVE CheersInv'
  <2>1. /\ cheered' = cheered \union Cheers(c)
        /\ cheers' = [k \in Positions |-> IF k \in Cheers(c) THEN cheers[k] + 1 ELSE cheers[k]]
    BY <1>3 DEF PositionsAnswered
  <2>2. \A k \in Cheers(c) : k \notin cheered
    BY DEF Cheers
  <2>3. QED
    BY <2>1, <2>2 DEF CheersInv
<1>4. ASSUME NEW c \in tradeCalls,
             \/ TradeBooted(c) \/ ChartArrived(c) \/ Opened(c) \/ ShownOpen(c) \/ CashOutAnswered(c) \/ ShownCashed(c)
             \/ TradePolled(c) \/ Resolved(c) \/ SettledAnswered(c) \/ TradeReloaded(c) \/ TradeFailed(c)
      PROVE  CheersInv'
  <2>1. UNCHANGED <<cheered, cheers>>
    BY <1>4 DEF TradeBooted, ChartArrived, Opened, ShownOpen, CashOutAnswered, ShownCashed, TradePolled, Resolved,
                SettledAnswered, TradeReloaded, TradeFailed, Page, Shown
  <2>2. QED
    BY <1>1, <2>1
<1>5. QED
  BY <1>2, <1>3, <1>4 DEF TradeNext, TradeAnswer
------------------------------------------------------------------------------
(* The page of signal trading                                                *)

IsScreen(p) ==
  DOMAIN p = {"shown", "on", "sel", "pos", "posOpen", "list", "drawn", "busy", "poll", "listPoll"}

\* The sheet has a signal, and a position that is shown has been drawn.
Wired(p) ==
  /\ IsScreen(p)
  /\ p.on = "confirm" => p.sel # 0
  /\ p.shown /\ p.on = "position" => p.drawn # 0

Posed(p) == p.on = "position" => p.pos # 0

\* A call whose answer brings a position, or a signal, to the page names it.
Named(c) == c.kind \in {"match", "open", "position"} => c.id # 0

\* While an order to open waits, the page has its position: a refusal draws it again.
ScreenInv ==
  /\ Wired(screen)
  /\ \A c \in signalCalls : Named(c) /\ (IsOrder(c) => screen.busy) /\ (c.kind = "open" => Posed(screen))
  /\ OneOrderOnly(signalCalls)

\* What may be drawn.
Drawable(p) ==
  /\ IsScreen(p)
  /\ p.on = "confirm" => p.sel # 0
  /\ Posed(p)

LEMMA DrawnIsWired ==
  ASSUME NEW p, Drawable(p), Drawn(p)
  PROVE  Wired(screen') /\ Posed(screen') /\ screen'.busy = p.busy
<1>1. CASE p.shown
  <2>1. screen' = [p EXCEPT !.drawn = DrawnPosition(p)]
    BY <1>1 DEF Drawn
  <2>2. p.on = "position" => DrawnPosition(p) # 0
    BY DEF DrawnPosition, Drawable, Posed
  <2>3. IsScreen(screen') /\ screen'.on = p.on /\ screen'.sel = p.sel /\ screen'.pos = p.pos /\ screen'.busy = p.busy
        /\ screen'.drawn = DrawnPosition(p)
    BY <2>1 DEF Drawable, IsScreen
  <2>4. QED
    BY <2>2, <2>3 DEF Wired, Posed, Drawable
<1>2. CASE ~p.shown
  <2>1. screen' = p
    BY <1>2 DEF Drawn
  <2>2. QED
    BY <1>2, <2>1 DEF Wired, Posed, Drawable
<1>3. QED
  BY <1>1, <1>2

\* Nothing is ordered.
LEMMA ScreenMoves ==
  ASSUME ScreenInv, Wired(screen'), Posed(screen) => Posed(screen'), screen'.busy = screen.busy,
         \A c \in signalCalls' : c \in signalCalls \/ (Named(c) /\ ~IsOrder(c))
  PROVE  ScreenInv'
<1>1. \A c \in signalCalls' : Named(c) /\ (IsOrder(c) => screen'.busy)
  BY DEF ScreenInv
<1>2. \A c \in signalCalls' : c.kind = "open" => Posed(screen')
  BY DEF ScreenInv, IsOrder
<1>3. OneOrderOnly(signalCalls')
  BY DEF ScreenInv, OneOrderOnly
<1>4. QED
  BY <1>1, <1>2, <1>3 DEF ScreenInv

\* An order is sent.
LEMMA ScreenOrders ==
  ASSUME ScreenInv, ~screen.busy, screen' = [screen EXCEPT !.busy = TRUE],
         NEW c, Named(c), c.kind = "open" => Posed(screen), signalCalls' = signalCalls \union {c}
  PROVE  ScreenInv'
<1>1. \A d \in signalCalls : ~IsOrder(d)
  BY DEF ScreenInv
<1>2. Wired(screen') /\ screen'.busy /\ (Posed(screen) => Posed(screen'))
  BY DEF ScreenInv, Wired, IsScreen, Posed
<1>3. \A d \in signalCalls' : d \in signalCalls \/ d = c
  OBVIOUS
<1>4. \A d \in signalCalls : d.kind # "open"
  BY <1>1 DEF IsOrder
<1>5. \A d \in signalCalls' : Named(d) /\ (d.kind = "open" => Posed(screen'))
  BY <1>2, <1>3, <1>4 DEF ScreenInv
<1>6. OneOrderOnly(signalCalls')
  BY <1>1, <1>3 DEF OneOrderOnly
<1>7. QED
  BY <1>2, <1>5, <1>6 DEF ScreenInv

\* The order is answered: there is no other.
LEMMA ScreenOrdered ==
  ASSUME ScreenInv, NEW c \in signalCalls, IsOrder(c), Wired(screen'),
         \A d \in signalCalls' : (d \in signalCalls /\ d # c) \/ (Named(d) /\ ~IsOrder(d))
  PROVE  ScreenInv'
<1>1. \A d \in signalCalls' : ~IsOrder(d) /\ Named(d)
  BY DEF ScreenInv, OneOrderOnly
<1>2. \A d \in signalCalls' : d.kind # "open"
  BY <1>1 DEF IsOrder
<1>3. QED
  BY <1>1, <1>2 DEF ScreenInv, OneOrderOnly

LEMMA RequestIsFor ==
  ASSUME NEW kind, NEW id, NEW prev
  PROVE  Request(kind, id, prev).kind = kind /\ Request(kind, id, prev).id = id /\ Request(kind, id, prev).prev = prev
BY DEF Request

LEMMA SlotsNotZero == \A k \in Slots : k # 0
BY DEF Slots

LEMMA ScreenKept == ASSUME ScreenInv, SignalsNext PROVE ScreenInv'
<1>1. IsScreen(screen) /\ Wired(screen) /\ (screen.on = "confirm" => screen.sel # 0)
  BY DEF ScreenInv, Wired
<1>2. \A kind, id, prev :
        /\ (kind \notin {"match", "open", "position", "cashout"} \/ (kind \in {"match", "position"} /\ id # 0)) =>
             Named(Request(kind, id, prev)) /\ ~IsOrder(Request(kind, id, prev))
        /\ (kind = "open" /\ id # 0) \/ kind = "cashout" => Named(Request(kind, id, prev))
  BY RequestIsFor DEF Named, IsOrder
<1>3. \A p : \A d \in ChartOf(p) : Named(d) /\ ~IsOrder(d)
  <2> TAKE p
  <2>1. \A d \in ChartOf(p) : d = Request("candles", p.pos, {})
    BY DEF ChartOf
  <2>2. QED
    BY <1>2, <2>1
<1>4. ASSUME screen' = screen, \A c \in signalCalls' : c \in signalCalls \/ (Named(c) /\ ~IsOrder(c)) PROVE ScreenInv'
  BY <1>1, <1>4, ScreenMoves
\* Another screen than a position.
<1>5. ASSUME NEW p, Drawn(p), IsScreen(p), p.on # "position", p.on = "confirm" => p.sel # 0, p.busy = screen.busy,
             \A c \in signalCalls' : c \in signalCalls \/ (Named(c) /\ ~IsOrder(c))
      PROVE  ScreenInv'
  <2>1. Drawable(p)
    BY <1>5 DEF Drawable, Posed
  <2>2. Wired(screen') /\ Posed(screen') /\ screen'.busy = p.busy
    BY <1>5, <2>1, DrawnIsWired
  <2>3. QED
    BY <1>5, <2>2, ScreenMoves
\* The same screen of the same position.
<1>6. ASSUME IsScreen(screen'), screen'.on = screen.on, screen'.sel = screen.sel, screen'.pos = screen.pos,
             screen'.drawn = screen.drawn \/ ~screen'.shown, screen'.shown => screen.shown, screen'.busy = screen.busy,
             \A c \in signalCalls' : c \in signalCalls \/ (Named(c) /\ ~IsOrder(c))
      PROVE  ScreenInv'
  <2>1. Wired(screen') /\ (Posed(screen) => Posed(screen'))
    BY <1>1, <1>6 DEF Wired, Posed
  <2>2. QED
    BY <1>6, <2>1, ScreenMoves
<1>7. CASE OpenSignals \/ OpenForSignal
  <2>1. screen' = [screen EXCEPT !.shown = TRUE, !.on = "list", !.sel = 0, !.pos = 0, !.posOpen = FALSE, !.drawn = 0]
    BY <1>7 DEF OpenSignals, OpenForSignal, Quietly
  <2>2. Wired(screen') /\ Posed(screen') /\ screen'.busy = screen.busy
    BY <1>1, <2>1 DEF Wired, Posed, IsScreen
  <2>3. \/ signalCalls' = signalCalls \union {Request("boot", 0, {})}
        \/ \E k \in Slots : signalCalls' = signalCalls \union {Request("match", k, {})}
    BY <1>7 DEF OpenSignals, OpenForSignal, Sending
  <2>4. \A c \in signalCalls' : c \in signalCalls \/ (Named(c) /\ ~IsOrder(c))
    <3>1. Named(Request("boot", 0, {})) /\ ~IsOrder(Request("boot", 0, {}))
      BY <1>2
    <3>2. \A k \in Slots : Named(Request("match", k, {})) /\ ~IsOrder(Request("match", k, {}))
      BY <1>2, SlotsNotZero
    <3>3. QED
      BY <2>3, <3>1, <3>2
  <2>5. QED
    BY <2>2, <2>4, ScreenMoves
<1>8. CASE CloseSignals
  <2>1. screen' = [screen EXCEPT !.shown = FALSE, !.drawn = 0, !.poll = 0, !.listPoll = FALSE] /\ signalCalls' = signalCalls
    BY <1>8 DEF CloseSignals
  <2>2. /\ IsScreen(screen') /\ screen'.on = screen.on /\ screen'.sel = screen.sel /\ screen'.pos = screen.pos
        /\ ~screen'.shown /\ screen'.busy = screen.busy
    BY <1>1, <2>1 DEF IsScreen
  <2>3. QED
    BY <1>6, <2>1, <2>2
<1>9. CASE TapCard
  <2>1. PICK k \in Slots :
          IF k \in screen.list
          THEN LET page == [OnPosition(screen, k) EXCEPT !.listPoll = FALSE] IN Drawn(Polls1(page)) /\ Sending(ChartOf(page))
          ELSE Drawn([screen EXCEPT !.sel = k, !.on = "confirm"]) /\ UNCHANGED signalCalls
    BY <1>9 DEF TapCard
  <2>2. k # 0
    BY SlotsNotZero
  <2>3. CASE k \in screen.list
    <3>1. PICK page : page = [OnPosition(screen, k) EXCEPT !.listPoll = FALSE]
      OBVIOUS
    <3>2. Drawn(Polls1(page)) /\ signalCalls' = signalCalls \union ChartOf(page)
      BY <2>1, <2>3, <3>1 DEF Sending
    <3>3. IsScreen(page) /\ page.on = "position" /\ page.pos = k /\ page.busy = screen.busy
      BY <1>1, <3>1 DEF OnPosition, IsScreen
    <3>4. Drawable(Polls1(page)) /\ Polls1(page).busy = screen.busy
      BY <2>2, <3>3 DEF Drawable, Posed, Polls1, IsScreen
    <3>5. Wired(screen') /\ Posed(screen') /\ screen'.busy = screen.busy
      BY <3>2, <3>4, DrawnIsWired
    <3>6. \A c \in signalCalls' : c \in signalCalls \/ (Named(c) /\ ~IsOrder(c))
      BY <1>3, <3>2
    <3>7. QED
      BY <3>5, <3>6, ScreenMoves
  <2>4. CASE k \notin screen.list
    <3>1. PICK page : page = [screen EXCEPT !.sel = k, !.on = "confirm"]
      OBVIOUS
    <3>2. Drawn(page) /\ signalCalls' = signalCalls
      BY <2>1, <2>4, <3>1
    <3>3. IsScreen(page) /\ page.on = "confirm" /\ page.sel = k /\ page.busy = screen.busy
      BY <1>1, <3>1 DEF IsScreen
    <3>4. QED
      BY <1>5, <2>2, <3>2, <3>3
  <2>5. QED
    BY <2>3, <2>4
<1>10. CASE BackFromConfirm \/ GoHistory
  <2>1. PICK page : Drawn(page)
          /\ (page = [screen EXCEPT !.sel = 0, !.on = "list"]
              \/ page = [OnList(screen) EXCEPT !.on = "history", !.listPoll = FALSE])
    BY <1>10 DEF BackFromConfirm, GoHistory
  <2>2. IsScreen(page) /\ page.on \in {"list", "history"} /\ page.busy = screen.busy
    BY <1>1, <2>1 DEF IsScreen, OnList
  <2>3. signalCalls' = signalCalls
    BY <1>10 DEF BackFromConfirm, GoHistory
  <2>4. QED
    BY <1>5, <2>1, <2>2, <2>3
<1>11. CASE GoList
  <2>1. screen' = OnList(screen) /\ signalCalls' = signalCalls \union {Request("list", 0, {})}
    BY <1>11 DEF GoList, Sending
  <2>2. Wired(screen') /\ Posed(screen') /\ screen'.busy = screen.busy
    BY <1>1, <2>1 DEF Wired, Posed, IsScreen, OnList
  <2>3. Named(Request("list", 0, {})) /\ ~IsOrder(Request("list", 0, {}))
    BY <1>2
  <2>4. \A c \in signalCalls' : c \in signalCalls \/ (Named(c) /\ ~IsOrder(c))
    BY <2>1, <2>3
  <2>5. QED
    BY <2>2, <2>4, ScreenMoves
<1>12. CASE EscapeResult
  BY <1>4, <1>12 DEF EscapeResult
<1>13. CASE DoOpen
  <2>1. ~screen.busy /\ screen.on = "confirm" /\ screen' = [screen EXCEPT !.busy = TRUE]
    BY <1>13 DEF DoOpen, Quietly, FreeToOrder
  <2>2. PICK c \in {Request("open", screen.sel, {screen.sel}), Request("open", screen.sel, {})} :
          signalCalls' = signalCalls \union {c}
    BY <1>13 DEF DoOpen, Sending
  <2>3. Named(c)
    BY <1>1, <1>2, <2>1, <2>2
  <2>4. Posed(screen)
    BY <2>1 DEF Posed
  <2>5. QED
    BY <2>1, <2>2, <2>3, <2>4, ScreenOrders
<1>14. CASE DoCashout
  <2>1. ~screen.busy /\ screen' = [screen EXCEPT !.busy = TRUE]
    BY <1>14 DEF DoCashout, Quietly, FreeToOrder
  <2>2. \E k : \E c \in {Request("cashout", k, {k}), Request("cashout", k, {})} : signalCalls' = signalCalls \union {c}
    BY <1>14 DEF DoCashout, Sending
  <2>3. PICK k, c : c \in {Request("cashout", k, {k}), Request("cashout", k, {})} /\ signalCalls' = signalCalls \union {c}
    BY <2>2
  <2>4. Named(c) /\ c.kind # "open"
    BY <1>2, <2>3, RequestIsFor
  <2>5. QED
    BY <2>1, <2>3, <2>4, ScreenOrders
<1>15. CASE PositionTick
  <2>1. screen.poll # 0 /\ screen' = screen /\ signalCalls' = signalCalls \union {Request("position", screen.poll, {})}
    BY <1>15 DEF PositionTick, Sending
  <2>2. Named(Request("position", screen.poll, {})) /\ ~IsOrder(Request("position", screen.poll, {}))
    BY <1>2, <2>1
  <2>3. \A c \in signalCalls' : c \in signalCalls \/ (Named(c) /\ ~IsOrder(c))
    BY <2>1, <2>2
  <2>4. QED
    BY <1>4, <2>1, <2>3
<1>16. CASE ListTick
  <2>1. CASE screen.on # "list"
    <3>1. screen' = [screen EXCEPT !.listPoll = FALSE] /\ signalCalls' = signalCalls
      BY <1>16, <2>1 DEF ListTick, Quietly
    <3>2. /\ IsScreen(screen') /\ screen'.on = screen.on /\ screen'.sel = screen.sel /\ screen'.pos = screen.pos
          /\ screen'.drawn = screen.drawn /\ (screen'.shown => screen.shown) /\ screen'.busy = screen.busy
      BY <1>1, <3>1 DEF IsScreen
    <3>3. QED
      BY <1>6, <3>1, <3>2
  <2>2. CASE screen.on = "list"
    <3>1. screen' = screen /\ signalCalls' = signalCalls \union {Request("poll", 0, screen.list)}
      BY <1>16, <2>2 DEF ListTick, Quietly, Sending
    <3>2. Named(Request("poll", 0, screen.list)) /\ ~IsOrder(Request("poll", 0, screen.list))
      BY <1>2
    <3>3. \A c \in signalCalls' : c \in signalCalls \/ (Named(c) /\ ~IsOrder(c))
      BY <3>1, <3>2
    <3>4. QED
      BY <1>4, <3>1, <3>3
  <2>3. QED
    BY <2>1, <2>2
<1>17. ASSUME NEW c \in signalCalls, SignalsBooted(c) \/ ListArrived(c) \/ ListPolled(c) \/ OpenListArrived(c) PROVE ScreenInv'
  <2>1. signalCalls' = (signalCalls \ {c}) \union {}
    BY <1>17 DEF SignalsBooted, ListArrived, ListPolled, OpenListArrived, Answering
  <2>2. \A d \in signalCalls' : d \in signalCalls \/ (Named(d) /\ ~IsOrder(d))
    BY <2>1
  <2>3. \E page :
          /\ \/ page = [screen EXCEPT !.list = c.list, !.listPoll = TRUE]
             \/ page = [[screen EXCEPT !.list = c.list] EXCEPT !.listPoll = TRUE]
             \/ page = [screen EXCEPT !.list = c.list]
             \/ page = screen
          /\ (Drawn(page) /\ screen.on = "list") \/ screen' = page
    BY <1>17 DEF SignalsBooted, ListArrived, ListPolled, OpenListArrived, Quietly
  <2>4. PICK page :
          /\ \/ page = [screen EXCEPT !.list = c.list, !.listPoll = TRUE]
             \/ page = [[screen EXCEPT !.list = c.list] EXCEPT !.listPoll = TRUE]
             \/ page = [screen EXCEPT !.list = c.list]
             \/ page = screen
          /\ (Drawn(page) /\ screen.on = "list") \/ screen' = page
    BY <2>3
  <2>5. /\ IsScreen(page) /\ page.on = screen.on /\ page.sel = screen.sel /\ page.pos = screen.pos
        /\ page.drawn = screen.drawn /\ (page.shown => screen.shown) /\ page.busy = screen.busy
    BY <1>1, <2>4 DEF IsScreen
  <2>6. QED
    BY <1>5, <1>6, <2>2, <2>4, <2>5
<1>18. ASSUME NEW c \in signalCalls, Matched(c) \/ CashedList(c) PROVE ScreenInv'
  <2>1. signalCalls' = (signalCalls \ {c}) \union {}
    BY <1>18 DEF Matched, CashedList, Answering
  <2>2. \A d \in signalCalls' : d \in signalCalls \/ (Named(d) /\ ~IsOrder(d))
    BY <2>1
  <2>3. c.kind = "match" => c.id # 0
    BY DEF ScreenInv, Named
  <2>4. \E page :
          /\ \/ page = [screen EXCEPT !.sel = c.id, !.on = "confirm"] /\ c.kind = "match"
             \/ page = [screen EXCEPT !.on = "list"]
             \/ page = [screen EXCEPT !.list = c.list, !.on = "list", !.listPoll = TRUE]
          /\ Drawn(page)
    BY <1>18 DEF Matched, CashedList
  <2>5. PICK page :
          /\ \/ page = [screen EXCEPT !.sel = c.id, !.on = "confirm"] /\ c.kind = "match"
             \/ page = [screen EXCEPT !.on = "list"]
             \/ page = [screen EXCEPT !.list = c.list, !.on = "list", !.listPoll = TRUE]
          /\ Drawn(page)
    BY <2>4
  <2>6. IsScreen(page) /\ page.on # "position" /\ (page.on = "confirm" => page.sel # 0) /\ page.busy = screen.busy
    BY <1>1, <2>3, <2>5 DEF IsScreen
  <2>7. QED
    BY <1>5, <2>2, <2>5, <2>6
<1>19. ASSUME NEW c \in signalCalls, OpenAnswered(c) PROVE ScreenInv'
  <2>1. PICK page : page = [screen EXCEPT !.busy = FALSE]
    OBVIOUS
  <2>2. c.kind = "open" /\ c.id # 0 /\ Posed(screen)
    BY <1>19 DEF OpenAnswered, ScreenInv, Named
  <2>3. IsScreen(page) /\ page.on = screen.on /\ page.pos = screen.pos /\ page.sel = screen.sel
    BY <1>1, <2>1 DEF IsScreen
  <2>4. IsOrder(c)
    BY <2>2 DEF IsOrder
  <2>5. CASE c.prev = {}
    <3>1. Drawn(page) /\ signalCalls' = (signalCalls \ {c}) \union ChartOf(page)
      BY <1>19, <2>1, <2>5 DEF OpenAnswered, Answering
    <3>2. Drawable(page)
      BY <1>1, <2>2, <2>3 DEF Drawable, Posed
    <3>3. Wired(screen')
      BY <3>1, <3>2, DrawnIsWired
    <3>4. \A d \in signalCalls' : (d \in signalCalls /\ d # c) \/ (Named(d) /\ ~IsOrder(d))
      BY <1>3, <3>1
    <3>5. QED
      BY <2>4, <3>3, <3>4, ScreenOrdered
  <2>6. CASE c.prev # {}
    <3>1. PICK q : q = OnPosition(page, c.id)
      OBVIOUS
    <3>2. Drawn(Polls1(q)) /\ signalCalls' = (signalCalls \ {c}) \union (ChartOf(q) \union {Request("openlist", 0, {})})
      BY <1>19, <2>1, <2>6, <3>1 DEF OpenAnswered, Answering
    <3>3. IsScreen(q) /\ q.on = "position" /\ q.pos = c.id
      BY <2>3, <3>1 DEF IsScreen, OnPosition
    <3>4. Drawable(Polls1(q))
      BY <2>2, <3>3 DEF Drawable, Posed, Polls1, IsScreen
    <3>5. Wired(screen')
      BY <3>2, <3>4, DrawnIsWired
    <3>6. Named(Request("openlist", 0, {})) /\ ~IsOrder(Request("openlist", 0, {}))
      BY <1>2
    <3>7. \A d \in signalCalls' : (d \in signalCalls /\ d # c) \/ (Named(d) /\ ~IsOrder(d))
      BY <1>3, <3>2, <3>6
    <3>8. QED
      BY <2>4, <3>5, <3>7, ScreenOrdered
  <2>7. QED
    BY <2>5, <2>6
<1>20. ASSUME NEW c \in signalCalls, SignalCashed(c) PROVE ScreenInv'
  <2>1. IsOrder(c)
    BY <1>20 DEF SignalCashed, IsOrder
  <2>2. \/ screen' = [screen EXCEPT !.busy = FALSE] /\ signalCalls' = (signalCalls \ {c}) \union {}
        \/ screen' = Unposed(screen) /\ signalCalls' = (signalCalls \ {c}) \union {Request("cashed", c.id, {})}
    BY <1>20 DEF SignalCashed, Quietly, Answering
  <2>3. Wired(screen')
    BY <1>1, <2>2 DEF Wired, IsScreen, Unposed
  <2>4. Named(Request("cashed", c.id, {})) /\ ~IsOrder(Request("cashed", c.id, {}))
    BY <1>2
  <2>5. \A d \in signalCalls' : (d \in signalCalls /\ d # c) \/ (Named(d) /\ ~IsOrder(d))
    BY <2>2, <2>4
  <2>6. QED
    BY <2>1, <2>3, <2>5, ScreenOrdered
<1>21. ASSUME NEW c \in signalCalls, PositionPolled(c) PROVE ScreenInv'
  <2>1. c.id # 0
    BY <1>21 DEF PositionPolled, ScreenInv, Named
  <2>2. PICK page : page = [screen EXCEPT !.pos = c.id, !.posOpen = c.id \in c.list]
    OBVIOUS
  <2>3. screen' = page \/ screen' = [page EXCEPT !.poll = 0]
    BY <1>21, <2>2 DEF PositionPolled, Quietly
  <2>4. /\ IsScreen(page) /\ page.on = screen.on /\ page.sel = screen.sel /\ page.pos = c.id
        /\ page.drawn = screen.drawn /\ (page.shown => screen.shown) /\ page.busy = screen.busy
    BY <1>1, <2>2 DEF IsScreen
  <2>5. /\ IsScreen(screen') /\ screen'.on = screen.on /\ screen'.sel = screen.sel /\ screen'.pos = c.id
        /\ screen'.drawn = screen.drawn /\ (screen'.shown => screen.shown) /\ screen'.busy = screen.busy
    BY <2>3, <2>4 DEF IsScreen
  <2>6. Wired(screen') /\ Posed(screen')
    BY <1>1, <2>1, <2>5 DEF Wired, Posed
  <2>7. signalCalls' = (signalCalls \ {c}) \union {}
    BY <1>21 DEF PositionPolled, Answering
  <2>8. \A d \in signalCalls' : d \in signalCalls \/ (Named(d) /\ ~IsOrder(d))
    BY <2>7
  <2>9. QED
    BY <2>5, <2>6, <2>8, ScreenMoves
<1>22. ASSUME NEW c \in signalCalls, CandlesArrived(c) \/ SignalReadFailed(c) PROVE ScreenInv'
  <2>1. screen' = screen /\ signalCalls' = (signalCalls \ {c}) \union {}
    BY <1>22 DEF CandlesArrived, SignalReadFailed, Answering
  <2>2. QED
    BY <1>4, <2>1
<1>23. CASE \E k \in Slots : SettleOpened(k)
  BY <1>4, <1>23 DEF SettleOpened
<1>24. CASE SignalAnswer
  BY <1>24, <1>17, <1>18, <1>19, <1>20, <1>21, <1>22 DEF SignalAnswer
<1>25. QED
  BY <1>7, <1>8, <1>9, <1>10, <1>11, <1>12, <1>13, <1>14, <1>15, <1>16, <1>23, <1>24 DEF SignalsNext

------------------------------------------------------------------------------
\* ScreensTrue, as an invariant of the whole: what the pages show is what was streamed, asked
\* or ordered, one layer, one result and one order at a time (src/realtime/sfu.js,
\* src/public/backnav.js, easytrade.js, babypick.js, quant-option.js and qo-signals.js).
PagesInv ==
  /\ StreamInv /\ ChartsInv /\ BackInv
  /\ EasyInv /\ PickInv
  /\ PageInv /\ CheersInv /\ ScreenInv

LEMMA PagesStart == Init => PagesInv
<1> SUFFICES ASSUME Init PROVE PagesInv
  OBVIOUS
<1>1. StreamInv
  <2>1. connected = {} /\ online = <<>> /\ relay = NoRelay /\ room = [s \in Sessions |-> NoRoom]
    BY DEF Init, StreamsInit
  <2>2. RoomSound(NoRoom) /\ NoRoom.peers = {}
    BY DEF RoomSound, IsRoom, NoRoom
  <2>3. DOMAIN online = {} /\ UsersConnected = {}
    BY <2>1 DEF UsersConnected
  <2>4. DOMAIN room = Sessions /\ \A s \in Sessions : RoomSound(room[s]) /\ room[s].peers \subseteq connected
    BY <2>1, <2>2
  <2>5. DOMAIN relay = {"active", "viewers"} /\ relay.viewers = {} /\ ~relay.active
    BY <2>1 DEF NoRelay
  <2>6. QED
    BY <2>3, <2>4, <2>5 DEF StreamInv
<1>2. ChartsInv
  <2> DEFINE r == [candles |-> "none", socket |-> "none", retry |-> FALSE, retried |-> FALSE, stopped |-> FALSE]
  <2>1. live = [k \in Charts |-> r] /\ sockets = {}
    BY DEF Init, LiveInit
  <2>2. ChartSound(r) /\ r.socket = "none"
    BY DEF ChartSound, IsChart
  <2> HIDE DEF r
  <2>3. QED
    BY <2>1, <2>2 DEF ChartsInv
<1>3. BackInv
  <2>1. /\ history \in [at : {0, 1}, rewinds : {0}, left : {FALSE}, first : {"none"}, peeled : {0}]
        /\ nav = [armed |-> TRUE, gestured |-> FALSE, exit |-> FALSE, letExit |-> FALSE, modal |-> FALSE]
        /\ et = Closed /\ bp = Closed
    BY DEF Init, BackInit
  <2>2. /\ DOMAIN history = {"at", "rewinds", "left", "first", "peeled"} /\ history.at \in Nat
        /\ history.first = "none"
    BY <2>1
  <2>3. DOMAIN nav = {"armed", "gestured", "exit", "letExit", "modal"} /\ ~nav.gestured
    BY <2>1
  <2>4. GameSound(et) /\ GameSound(bp)
    BY <2>1 DEF GameSound, IsGame, Closed
  <2>5. QED
    BY <2>2, <2>3, <2>4 DEF BackInv, NeverLeftUnasked, OneLayerEach
<1>4. EasyInv /\ PickInv
  BY DEF Init, ScreensInit, EasyInit, PickInit, EasyInv, PickInv, OncePerTimer
<1>5. PageInv /\ CheersInv
  <2>1. /\ trade \in [shown : {FALSE}, real : BOOLEAN, list : {{}}, focus : {0}, pos : {0}, posOpen : {FALSE},
                      card : {0}, busy : {FALSE}, poll : {0}, posPoll : {FALSE}]
        /\ tradeCalls = {} /\ cheers = [k \in Positions |-> 0]
    BY DEF Init, TradeInit
  <2>2. IsPage(trade)
    BY <2>1 DEF IsPage
  <2>3. QED
    BY <2>1, <2>2 DEF PageInv, CheersInv, OneOrderOnly
<1>6. ScreenInv
  <2>1. /\ screen = [shown |-> FALSE, on |-> "list", sel |-> 0, pos |-> 0, posOpen |-> FALSE, list |-> {},
                     drawn |-> 0, busy |-> FALSE, poll |-> 0, listPoll |-> FALSE]
        /\ signalCalls = {}
    BY DEF Init, SignalsInit
  <2>2. IsScreen(screen) /\ screen.on = "list"
    BY <2>1 DEF IsScreen
  <2>3. QED
    BY <2>1, <2>2 DEF ScreenInv, Wired, OneOrderOnly
<1>7. QED
  BY <1>1, <1>2, <1>3, <1>4, <1>5, <1>6 DEF PagesInv

LEMMA PagesGoOn == ASSUME PagesInv, [Next]_vars PROVE PagesInv'
<1>1. StreamInv'
  <2>1. StreamsNext \/ UNCHANGED streamsVars
    BY DEF Next, Only, vars
  <2>2. CASE UNCHANGED streamsVars
    BY <2>2 DEF PagesInv, StreamInv, UsersConnected, streamsVars
  <2>3. QED
    BY <2>1, <2>2, StreamsKept DEF PagesInv
<1>2. ChartsInv'
  <2>1. LiveNext \/ UNCHANGED liveVars
    BY DEF Next, Only, vars
  <2>2. CASE UNCHANGED liveVars
    BY <2>2 DEF PagesInv, ChartsInv, liveVars
  <2>3. QED
    BY <2>1, <2>2, ChartsKept DEF PagesInv
<1>3. BackInv'
  <2>1. BackNext \/ UNCHANGED backVars
    BY DEF Next, Only, vars
  <2>2. CASE UNCHANGED backVars
    BY <2>2 DEF PagesInv, BackInv, NeverLeftUnasked, OneLayerEach, backVars
  <2>3. QED
    BY <2>1, <2>2, BackKept DEF PagesInv
<1>4. EasyInv'
  <2>1. EasyNext \/ UNCHANGED easyVars
    BY DEF Next, Only, vars, screenVars
  <2>2. CASE UNCHANGED easyVars
    BY <2>2 DEF PagesInv, EasyInv, easyVars
  <2>3. QED
    BY <2>1, <2>2, EasyKept DEF PagesInv
<1>5. PickInv'
  <2>1. PickNext \/ UNCHANGED pickVars
    BY DEF Next, Only, vars, screenVars
  <2>2. CASE UNCHANGED pickVars
    BY <2>2 DEF PagesInv, PickInv, pickVars
  <2>3. QED
    BY <2>1, <2>2, PickKept DEF PagesInv
<1>6. PageInv' /\ CheersInv'
  <2>1. TradeNext \/ UNCHANGED tradeVars
    BY DEF Next, Only, vars
  <2>2. CASE UNCHANGED tradeVars
    BY <2>2 DEF PagesInv, PageInv, CheersInv, tradeVars
  <2>3. QED
    BY <2>1, <2>2, PageKept, CheersKept DEF PagesInv
<1>7. ScreenInv'
  <2>1. SignalsNext \/ UNCHANGED signalsVars
    BY DEF Next, Only, vars
  <2>2. CASE UNCHANGED signalsVars
    BY <2>2 DEF PagesInv, ScreenInv, signalsVars
  <2>3. QED
    BY <2>1, <2>2, ScreenKept DEF PagesInv
<1>8. QED
  BY <1>1, <1>2, <1>3, <1>4, <1>5, <1>6, <1>7 DEF PagesInv

LEMMA PagesAreTrue == PagesInv => ScreensTrue
<1> SUFFICES ASSUME PagesInv PROVE ScreensTrue
  OBVIOUS
<1>1. NobodyGhosts
  BY DEF PagesInv, StreamInv, RoomSound, NobodyGhosts
<1>2. NeverLeftUnasked /\ OneLayerEach
  BY DEF PagesInv, BackInv
<1>3. ResultOnce
  BY DEF PagesInv, EasyInv, PickInv, OncePerTimer, ResultOnce
<1>4. OneOrder
  <2>1. \A c, d \in Orders : c = d
    BY DEF PagesInv, PageInv, OneOrderOnly, IsOrder, Orders
  <2>2. QED
    BY <2>1, AtMostOne DEF OneOrder
<1>5. CheeredOnce
  BY DEF PagesInv, CheersInv, CheeredOnce
<1>6. OneSignalOrder
  <2>1. \A c, d \in SignalOrders : c = d
    BY DEF PagesInv, ScreenInv, OneOrderOnly, IsOrder, SignalOrders
  <2>2. QED
    BY <2>1, AtMostOne DEF OneSignalOrder
<1>7. StageWired
  BY DEF PagesInv, ScreenInv, Wired, StageWired
<1>8. StoppedIsQuiet
  BY DEF PagesInv, ChartsInv, ChartSound, StoppedIsQuiet
<1>9. QED
  BY <1>1, <1>2, <1>3, <1>4, <1>5, <1>6, <1>7, <1>8 DEF ScreensTrue

\* Nobody who is gone is counted in a stream, no number of gestures leaves the page without
\* the exit card, a timer renders one result and a page sends one order at a time, for any
\* number of sockets, tickets, positions, charts and calls in flight.
THEOREM ScreensAreTrue == Spec => []ScreensTrue
<1>1. Init => PagesInv
  BY PagesStart
<1>2. PagesInv /\ [Next]_vars => PagesInv'
  BY PagesGoOn
<1>3. PagesInv => ScreensTrue
  BY PagesAreTrue
<1>4. QED
  BY <1>1, <1>2, <1>3, PTL DEF Spec
=============================================================================
