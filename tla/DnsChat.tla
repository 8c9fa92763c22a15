------------------------------- MODULE DnsChat -------------------------------
(***************************************************************************)
(* The messenger over DNS (src/quantum-chat): a client cuts a sealed       *)
(* message into queries and repeats them until the node has put it         *)
(* together (web/quantum-chat.js, internal/transport); the node queues it  *)
(* for its recipient (internal/server, internal/storage), who polls it     *)
(* frame by frame and acknowledges it.  Resolvers lose, repeat and delay   *)
(* queries and answers; the node may restart.  It stores in memory or in   *)
(* Postgres.                                                               *)
(***************************************************************************)
EXTENDS Integers, Sequences, SequencesExt, FiniteSets

CONSTANTS
  Mails,         \* sealed messages to the one recipient, their ids
  Waiting,       \* those that are queued at the start
  LastChunk,     \* queries that carry one message up
  LastFrame,     \* frames that carry one message down
  MaxAttempts,   \* attempts of sendChunks: each resolver twice
  Pollers,       \* calls of poll that may be under way
  MaxRestarts    \* bound on the restarts of the node

Chunks == 1..LastChunk
Frames == 1..LastFrame

ASSUME WaitingAssumption ==
  /\ Waiting \subseteq Mails /\ IsFiniteSet(Waiting)
  /\ {LastChunk, LastFrame, MaxAttempts, MaxRestarts} \subseteq Nat

VARIABLES
  store,      \* "ram" or "postgres"
  uploads,    \* by txid: the chunks of a message that the node holds
  assembled,  \* queries that completed a message which is not queued yet
  inbox,      \* the recipient's queue
  seen,       \* the memory store's replay set
  keysHeld,   \* whether the node holds the sender's public keys
  wire,       \* by message: the chunk queries that resolvers may (still) deliver
  senders,    \* what each message's sendChunks is doing
  pollers,    \* what each poll is doing
  lost,       \* history: messages opened and acknowledged by a poll that did not return them
  accepted,   \* history: how often each message was queued, up to 2
  restarts    \* history: how often the node restarted

senderVars == <<wire, senders>>
pollerVars == <<pollers, lost>>
dnsChatVars ==
  <<store, uploads, assembled, inbox, seen, keysHeld, senderVars, pollerVars, accepted, restarts>>

NoPoll == [stage |-> "idle", frames |-> <<>>, mail |-> "none", out |-> {}]

DnsChatInit ==
  /\ store \in {"ram", "postgres"}
  /\ uploads = [m \in Mails |-> {}]
  /\ assembled = {}
  /\ inbox = SetToSeq(Waiting)
  /\ seen = IF store = "ram" THEN Waiting ELSE {}
  /\ keysHeld = FALSE
  /\ wire = [m \in Mails |-> {}]
  /\ senders = [m \in Mails |->
       [stage |-> IF m \in Waiting THEN "sent" ELSE "idle", attempt |-> 1, next |-> 1]]
  /\ pollers = [p \in Pollers |-> NoPoll]
  /\ lost = {}
  /\ accepted = [m \in Mails |-> IF m \in Waiting THEN 1 ELSE 0]
  /\ restarts = 0

------------------------------------------------------------------------------
(* The sender. *)

\* sendChunks puts the next chunk query on the wire.
SendChunk(m) ==
  LET s == senders[m] IN
  /\ s.stage \in {"idle", "send"}
  /\ senders' = [senders EXCEPT ![m].stage = "wait"]
  /\ wire' = [wire EXCEPT ![m] = @ \union {s.next}]
  /\ UNCHANGED <<store, uploads, assembled, inbox, seen, keysHeld, pollerVars, accepted, restarts>>

Attempt(s) ==
  IF s.attempt < MaxAttempts THEN [stage |-> "send", attempt |-> s.attempt + 1, next |-> 1]
  ELSE [s EXCEPT !.stage = "failed"]

\* Faulty: takes the answer to the last chunk for success, whatever it says.
HeardAnyAnswer(m, c, answer) ==
  LET s == senders[m] IN
  IF s.stage # "wait" \/ s.next # c THEN s
  ELSE IF answer # "err" /\ c < LastChunk THEN [s EXCEPT !.stage = "send", !.next = c + 1]
  ELSE [s EXCEPT !.stage = IF answer \in {"err", "none"} THEN "failed" ELSE "sent"]

\* What the sender makes of the answer to chunk c: only the answer to the last one
\* says whether the message is at the node.
Heard(m, c, answer) ==
  LET s == senders[m] IN
  IF s.stage # "wait" \/ s.next # c THEN s
  ELSE IF answer # "err" /\ c < LastChunk THEN [s EXCEPT !.stage = "send", !.next = c + 1]
  ELSE CASE answer \in {"done", "dup"} -> [s EXCEPT !.stage = "sent"]
         [] answer = "ok" -> Attempt(s)
         [] answer \in {"err", "none"} -> [s EXCEPT !.stage = "failed"]

\* The answer reaches the sender, or is lost.
Answer(m, c, answer) ==
  \/ senders' = [senders EXCEPT ![m] = Heard(m, c, answer)]
  \/ UNCHANGED senders

\* No answer: the next attempt starts over.
GiveUpAttempt(m) ==
  /\ senders[m].stage = "wait"
  /\ senders' = [senders EXCEPT ![m] = Attempt(@)]
  /\ UNCHANGED <<store, uploads, assembled, inbox, seen, keysHeld, wire, pollerVars, accepted, restarts>>

\* The limiter refuses the query: the resolver has no answer to pass on.
Refuse(m) ==
  /\ senders[m].stage = "wait"
  /\ senders' = [senders EXCEPT ![m] = Heard(m, @.next, "none")]
  /\ UNCHANGED <<store, uploads, assembled, inbox, seen, keysHeld, wire, pollerVars, accepted, restarts>>

------------------------------------------------------------------------------
(* The node: handleUpstream, one goroutine per query. *)

\* Add of the reassembler, under the store's lock; a completed upload is forgotten.
RamPutChunk(m, c) ==
  LET parts == uploads[m] \union {c} IN
  /\ store = "ram"
  /\ IF parts = Chunks
     THEN /\ uploads' = [uploads EXCEPT ![m] = {}]
          /\ assembled' = assembled \union {<<m, c>>}
          /\ UNCHANGED senders
     ELSE /\ uploads' = [uploads EXCEPT ![m] = parts]
          /\ Answer(m, c, "ok")
          /\ UNCHANGED assembled

\* A transaction: of two that add a chunk each at the same time neither sees the
\* other's chunk.  It may fail.
PgPutChunk(m, c) ==
  LET parts == uploads[m] \union {c} IN
  /\ store = "postgres"
  /\ \/ /\ parts = Chunks
        /\ uploads' = [uploads EXCEPT ![m] = {}]
        /\ assembled' = assembled \union {<<m, c>>}
        /\ UNCHANGED senders
     \/ /\ parts # Chunks \/ Cardinality(wire[m]) > 1
        /\ uploads' = [uploads EXCEPT ![m] = parts]
        /\ Answer(m, c, "ok")
        /\ UNCHANGED assembled
     \/ /\ Answer(m, c, "err")
        /\ UNCHANGED <<uploads, assembled>>

\* A query on the wire reaches the node, for the first time or again.
Deliver(m, c) ==
  /\ c \in wire[m]
  /\ RamPutChunk(m, c) \/ PgPutChunk(m, c)
  /\ UNCHANGED <<store, inbox, seen, keysHeld, wire, pollerVars, accepted, restarts>>

\* Faulty: the replay set is not looked at.
RamEnqueueAgain(m) ==
  /\ inbox' = Append(inbox, m)
  /\ seen' = seen \union {m}

\* Enqueue in memory, and its verdict: a message seen before is dropped.
RamEnqueue(m) ==
  IF m \in seen THEN UNCHANGED <<inbox, seen>>
  ELSE /\ inbox' = Append(inbox, m)
       /\ seen' = seen \union {m}

Queued(m) == \E i \in DOMAIN inbox : inbox[i] = m

\* Enqueue in Postgres: the row of a message is its own replay marker.  A failed
\* statement has the same verdict as a replay.
PgEnqueue(m) ==
  /\ \/ ~Queued(m) /\ inbox' = Append(inbox, m)
     \/ UNCHANGED inbox
  /\ UNCHANGED seen

Enqueue(m, c) ==
  /\ <<m, c>> \in assembled
  /\ assembled' = assembled \ {<<m, c>>}
  /\ IF store = "ram" THEN RamEnqueue(m) ELSE PgEnqueue(m)
  /\ LET new == inbox' # inbox IN
     /\ accepted' = [accepted EXCEPT ![m] = IF new /\ @ < 2 THEN @ + 1 ELSE @]
     /\ Answer(m, c, IF new THEN "done" ELSE "dup")
  /\ UNCHANGED <<store, uploads, keysHeld, wire, pollerVars, restarts>>

------------------------------------------------------------------------------
(* The recipient: poll of the client. *)

StartPoll(p) ==
  /\ pollers[p].stage = "idle"
  /\ pollers' = [pollers EXCEPT ![p].stage = "poll"]
  /\ UNCHANGED <<store, uploads, assembled, inbox, seen, keysHeld, senderVars, lost, accepted, restarts>>

Whole(frames, m) == frames = [i \in Frames |-> <<m, i>>]

\* handlePoll answers with a frame of the oldest message, or with its total alone
\* when the offset is past its end; the client adds what it gets to what it has.
\* With the last one it opens the frames, if they are those of one message and the
\* node answers with the sender's keys: its own cache is empty.
PollFrame(p) ==
  LET m == Head(inbox)
      frames == Append(pollers[p].frames, <<m, Len(pollers[p].frames) + 1>>)
  IN
  /\ pollers[p].stage = "poll" /\ inbox # <<>>
  /\ pollers' \in
       IF Len(frames) < LastFrame THEN {[pollers EXCEPT ![p].frames = frames]}
       ELSE {[pollers EXCEPT ![p].stage = "ack", ![p].frames = <<>>, ![p].mail = m,
                ![p].out = IF found /\ Whole(frames, m) THEN @ \union {m} ELSE @] : found \in {FALSE, keysHeld}}
  /\ UNCHANGED <<store, uploads, assembled, inbox, seen, keysHeld, senderVars, lost, accepted, restarts>>

\* Nothing is queued, or the limiter refuses: poll returns what it has opened.
PollReturns(p) ==
  /\ pollers[p].stage = "poll"
  /\ pollers' = [pollers EXCEPT ![p] = NoPoll]
  /\ UNCHANGED <<store, uploads, assembled, inbox, seen, keysHeld, senderVars, lost, accepted, restarts>>

\* The node deletes the message, or refuses; the client does not look which.
Ack(p) ==
  /\ pollers[p].stage = "ack"
  /\ inbox' \in {inbox, RemoveFirst(inbox, pollers[p].mail)}
  /\ pollers' = [pollers EXCEPT ![p].stage = "poll", ![p].mail = "none"]
  /\ UNCHANGED <<store, uploads, assembled, seen, keysHeld, senderVars, lost, accepted, restarts>>

\* No resolver answers: poll throws, and what it has opened is not returned.
PollThrows(p) ==
  /\ pollers[p].stage \in {"poll", "ack"}
  /\ lost' = lost \union {m \in pollers[p].out : pollers[p].stage = "poll" \/ m # pollers[p].mail}
  /\ pollers' = [pollers EXCEPT ![p] = NoPoll]
  /\ UNCHANGED <<store, uploads, assembled, inbox, seen, keysHeld, senderVars, accepted, restarts>>

------------------------------------------------------------------------------
(* The sender's public keys.  Their upload is cut and put together as that of a *)
(* message is, and may be repeated freely: it is one step here.                 *)

\* completeRegister: the error of the store is not looked at; the sender is told
\* that it is registered.
Register ==
  /\ \/ keysHeld' = TRUE
     \/ store = "postgres" /\ UNCHANGED keysHeld
  /\ UNCHANGED <<store, uploads, assembled, inbox, seen, senderVars, pollerVars, accepted, restarts>>

------------------------------------------------------------------------------
(* The sweeper, and restarts. *)

\* Faulty: a chunk whose query may be repeated does not grow old.
SweepUnrepeated(m, S) ==
  /\ S # {} /\ S \subseteq uploads[m] \ wire[m]
  /\ uploads' = [uploads EXCEPT ![m] = @ \ S]
  /\ UNCHANGED <<store, assembled, inbox, seen, keysHeld, senderVars, pollerVars, accepted, restarts>>

\* Five minutes pass for an upload in memory, whose age is that of its first chunk, or
\* for some of its rows in Postgres, each of which has an age of its own.
SweepUpload(m, S) ==
  /\ S # {} /\ S \subseteq uploads[m]
  /\ store = "ram" => S = uploads[m]
  /\ uploads' = [uploads EXCEPT ![m] = @ \ S]
  /\ UNCHANGED <<store, assembled, inbox, seen, keysHeld, senderVars, pollerVars, accepted, restarts>>

\* Faulty: only the replay marker goes.
SweepMarker(m) ==
  /\ m \in seen
  /\ senders[m].stage \in {"sent", "failed"}
  /\ seen' = seen \ {m}
  /\ wire' = [wire EXCEPT ![m] = {}]
  /\ assembled' = {q \in assembled : q[1] # m}
  /\ UNCHANGED <<store, uploads, inbox, keysHeld, senders, pollerVars, accepted, restarts>>

\* A day passes for a message: the row or the queued copy and its replay marker go
\* together; by then its sender has ended, and no query for it is under way.
SweepMail(m) ==
  /\ Queued(m) \/ m \in seen
  /\ senders[m].stage \in {"sent", "failed"}
  /\ inbox' = RemoveFirst(inbox, m)
  /\ seen' = seen \ {m}
  /\ wire' = [wire EXCEPT ![m] = {}]
  /\ assembled' = {q \in assembled : q[1] # m}
  /\ UNCHANGED <<store, uploads, keysHeld, senders, pollerVars, accepted, restarts>>

\* Queries under way end without an answer; the memory store starts empty.
RestartNode ==
  /\ restarts < MaxRestarts
  /\ restarts' = restarts + 1
  /\ assembled' = {}
  /\ IF store = "ram"
     THEN inbox' = <<>> /\ seen' = {} /\ uploads' = [m \in Mails |-> {}] /\ keysHeld' = FALSE
     ELSE UNCHANGED <<inbox, seen, uploads, keysHeld>>
  /\ UNCHANGED <<store, senderVars, pollerVars, accepted>>

DnsChatNext ==
  \/ \E m \in Mails :
       \/ SendChunk(m)
       \/ GiveUpAttempt(m)
       \/ Refuse(m)
       \/ \E c \in Chunks : Deliver(m, c) \/ Enqueue(m, c)
       \/ \E S \in SUBSET Chunks : SweepUpload(m, S)
       \/ SweepMail(m)
  \/ \E p \in Pollers :
       StartPoll(p) \/ PollFrame(p) \/ PollReturns(p) \/ Ack(p) \/ PollThrows(p)
  \/ Register
  \/ RestartNode

------------------------------------------------------------------------------
\* Retries, repeated queries and concurrent completions queue a message once, as
\* long as the memory store lives; and in either store it is queued once at a time.
QueuedOnce ==
  /\ \A m \in Mails : store = "ram" /\ restarts = 0 => accepted[m] <= 1
  /\ \A i, j \in DOMAIN inbox : inbox[i] = inbox[j] => i = j

\* A send that reports success has its message queued, by the memory store.
SentWasQueued == \A m \in Mails : store = "ram" /\ senders[m].stage = "sent" => accepted[m] > 0

\* Violated by the code: "DUP = node already had it" (web/quantum-chat.js).
DupWasQueued == \A m \in Mails : senders[m].stage = "sent" => accepted[m] > 0

\* Violated by the code: poll will "return any received messages, then ack them"
\* (web/quantum-chat.js).
AckedIsReturned == lost = {}
==============================================================================
