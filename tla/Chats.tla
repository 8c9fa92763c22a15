-------------------------------- MODULE Chats --------------------------------
(***************************************************************************)
(* A group or channel of the messenger (src/routes/chats.js) with the      *)
(* socket handlers of src/realtime/messaging.js: membership, messages,     *)
(* reactions, pins, receipts and read marks; what a message says, and so   *)
(* its editing, is left out.  Nothing runs in a transaction: a call checks *)
(* its rights, then sends one statement after the other, and the calls of  *)
(* several users interleave between them.  The foreign keys of the schema  *)
(* cascade.                                                                *)
(***************************************************************************)
EXTENDS Integers, FiniteSets, Sequences, Functions

LOCAL INSTANCE FiniteSetsExt

CONSTANTS
  Users,      \* who call; each has one call open at a time
  Creator,    \* who creates the chat
  Elevated,   \* those with a global role that moderates
  ChatKind,   \* "group" or "channel"
  Visibility, \* "public" or "private"
  LastMsg     \* bound: ids that the sequence of messages gives out

VARIABLES
  chat,       \* "none", then "open", then "gone"
  role,       \* in the chat: "none" is no row in chat_members
  lastRead,   \* chat_members.last_read_id
  author,     \* of each row of messages, by id
  pinned,     \* messages with pinned_at set
  reactions,  \* rows of message_reactions: message and user, for one emoji
  receipts,   \* message_reads.status by message and user
  nextId,     \* the sequence of message ids
  rooms,      \* users whose socket is in the room of the chat
  calls       \* the open call of each user

chatState == <<chat, role, lastRead, author, pinned, reactions, receipts, nextId, rooms>>
chatsVars == <<chatState, calls>>

Idle == [op |-> "none", msg |-> 0, at |-> 0]
Members == {u \in Users : role[u] # "none"}
Messages == DOMAIN author
Runs(ids, f) == [i \in ids |-> f[i]]

ChatsInit ==
  /\ chat = "none"
  /\ role = [u \in Users |-> "none"]
  /\ lastRead = [u \in Users |-> 0]
  /\ author = <<>>
  /\ pinned = {}
  /\ reactions = {}
  /\ receipts = <<>>
  /\ nextId = 1
  /\ rooms = {}
  /\ calls = [u \in Users |-> Idle]

\* The creator becomes the administrator and brings the others or not.
CreateChat(others) ==
  /\ chat = "none"
  /\ chat' = "open"
  /\ role' = [u \in Users |-> IF u = Creator THEN "admin" ELSE IF u \in others THEN "member" ELSE "none"]
  /\ UNCHANGED <<lastRead, author, pinned, reactions, receipts, nextId, rooms, calls>>

Moderates(u) == u \in Members /\ (role[u] = "admin" \/ u \in Elevated)

\* What each call checks before its first change.
MayPost(u) == u \in Members /\ (ChatKind = "channel" => Moderates(u))
MayJoin(u) == chat = "open" /\ Visibility = "public" /\ u \notin Members
MayPin(u, m) == Moderates(u) /\ m \in Messages
MayRemove(u, m) == u \in Members /\ m \in Messages /\ (author[m] = u \/ u \in Elevated)
MayReact(u, m) == u \in Members /\ m \in Messages
Allowed(u, op, m) ==
  CASE op = "send" -> MayPost(u) /\ m = 0
    [] op = "join" -> MayJoin(u) /\ m = 0
    [] op \in {"open", "markRead"} -> u \in Members /\ m = 0
    [] op \in {"clear", "deleteChat"} -> Moderates(u) /\ m = 0
    [] op = "pin" -> MayPin(u, m)
    [] op = "remove" -> MayRemove(u, m)
    [] op = "react" -> MayReact(u, m)
    [] op \in {"delivered", "read"} -> u \in Members /\ m \in Messages

Ops == {"send", "join", "open", "markRead", "clear", "deleteChat", "pin", "remove", "react",
        "delivered", "read"}

Call(u, op, m) ==
  /\ calls[u] = Idle
  /\ Allowed(u, op, m)
  /\ calls' = [calls EXCEPT ![u] = [op |-> op, msg |-> m, at |-> 1]]
  /\ UNCHANGED chatState

At(u, op, at) == calls[u].op = op /\ calls[u].at = at
Goes(u) == calls' = [calls EXCEPT ![u].at = @ + 1]
Ends(u) == calls' = [calls EXCEPT ![u] = Idle]

\* Faulty: the reactions and receipts of a deleted message stay.
DropMessagesOnly(ids) ==
  /\ author' = Runs(Messages \ ids, author)
  /\ pinned' = pinned \ ids
  /\ UNCHANGED <<reactions, receipts>>

\* DELETE of messages takes their reactions and receipts along.
DropMessages(ids) ==
  /\ author' = Runs(Messages \ ids, author)
  /\ pinned' = pinned \ ids
  /\ reactions' = {r \in reactions : r[1] \notin ids}
  /\ receipts' = [r \in {q \in DOMAIN receipts : q[1] \notin ids} |-> receipts[r]]

------------------------------------------------------------------------------
(* Sending *)

\* The INSERT takes its id; other inserts may commit before it does.
TakeId(u) ==
  /\ At(u, "send", 1)
  /\ nextId <= LastMsg
  /\ calls' = [calls EXCEPT ![u].msg = nextId, ![u].at = 2]
  /\ nextId' = nextId + 1
  /\ UNCHANGED <<chat, role, lastRead, author, pinned, reactions, receipts, rooms>>

\* It fails when the chat is gone.
Insert(u) ==
  /\ At(u, "send", 2)
  /\ IF chat = "open"
     THEN author' = [m \in Messages \union {calls[u].msg} |-> IF m = calls[u].msg THEN u ELSE author[m]] /\ Goes(u)
     ELSE UNCHANGED author /\ Ends(u)
  /\ UNCHANGED <<chat, role, lastRead, pinned, reactions, receipts, nextId, rooms>>

\* The read mark of the sender is set, not raised; a sender who was removed has no row.
OwnRead(u) ==
  /\ At(u, "send", 3)
  /\ lastRead' = IF u \in Members THEN [lastRead EXCEPT ![u] = calls[u].msg] ELSE lastRead
  /\ Ends(u)
  /\ UNCHANGED <<chat, role, author, pinned, reactions, receipts, nextId, rooms>>

------------------------------------------------------------------------------
(* Messages: pin, remove, clear, retention *)

Pin(u) ==
  /\ calls[u].op = "pin"
  /\ pinned' = pinned \union ({calls[u].msg} \intersect Messages)
  /\ Ends(u)
  /\ UNCHANGED <<chat, role, lastRead, author, reactions, receipts, nextId, rooms>>

Unpin(u, m) ==
  /\ calls[u] = Idle
  /\ MayPin(u, m)
  /\ pinned' = pinned \ {m}
  /\ UNCHANGED <<chat, role, lastRead, author, reactions, receipts, nextId, rooms, calls>>

RemoveMessage(u) ==
  /\ calls[u].op = "remove"
  /\ DropMessages({calls[u].msg})
  /\ Ends(u)
  /\ UNCHANGED <<chat, role, lastRead, nextId, rooms>>

ClearMessages(u) ==
  /\ At(u, "clear", 1)
  /\ DropMessages(Messages)
  /\ Goes(u)
  /\ UNCHANGED <<chat, role, lastRead, nextId, rooms>>

ClearMarks(u) ==
  /\ At(u, "clear", 2)
  /\ lastRead' = [v \in Users |-> 0]
  /\ Ends(u)
  /\ UNCHANGED <<chat, role, author, pinned, reactions, receipts, nextId, rooms>>

\* The cleaner of server.js: what is older than the retention of the chat goes.
Expire(upTo) ==
  /\ upTo \in Messages
  /\ DropMessages({m \in Messages : m <= upTo})
  /\ UNCHANGED <<chat, role, lastRead, nextId, rooms, calls>>

------------------------------------------------------------------------------
(* Reactions *)

\* The toggle: a DELETE, and an INSERT when it found no row.  The counts that are then
\* read and broadcast are left out.
Unreact(u) ==
  /\ At(u, "react", 1)
  /\ reactions' = reactions \ {<<calls[u].msg, u>>}
  /\ IF <<calls[u].msg, u>> \in reactions THEN Ends(u) ELSE Goes(u)
  /\ UNCHANGED <<chat, role, lastRead, author, pinned, receipts, nextId, rooms>>

\* Faulty: reacts to a message that is no longer there.
ReactBlindly(u) ==
  /\ At(u, "react", 2)
  /\ reactions' = reactions \union {<<calls[u].msg, u>>}
  /\ Ends(u)
  /\ UNCHANGED <<chat, role, lastRead, author, pinned, receipts, nextId, rooms>>

\* The INSERT fails when the message is gone.
React(u) ==
  /\ At(u, "react", 2)
  /\ reactions' = reactions \union {r \in {<<calls[u].msg, u>>} : r[1] \in Messages}
  /\ Ends(u)
  /\ UNCHANGED <<chat, role, lastRead, author, pinned, receipts, nextId, rooms>>

------------------------------------------------------------------------------
(* Receipts and read marks *)

\* The receipts of u for messages of others, overwritten or added.
Upsert(u, ids, status(_)) ==
  LET hit == {<<m, u>> : m \in {k \in ids : k \in Messages /\ author[k] # u}}
  IN receipts' = [r \in DOMAIN receipts \union hit |-> IF r \in hit THEN status(r) ELSE receipts[r]]

\* Faulty: takes a read receipt back.
DeliveredStatusDowngrading(r) == "delivered"

\* A receipt that is "read" already stays so.
DeliveredStatus(r) == IF r \in DOMAIN receipts THEN receipts[r] ELSE "delivered"

ReceiptDelivered(u) ==
  /\ calls[u].op = "delivered"
  /\ Upsert(u, {calls[u].msg}, DeliveredStatus)
  /\ Ends(u)
  /\ UNCHANGED <<chat, role, lastRead, author, pinned, reactions, nextId, rooms>>

ReceiptRead(u) ==
  /\ At(u, "read", 1)
  /\ Upsert(u, 1..calls[u].msg, LAMBDA r : "read")
  /\ Goes(u)
  /\ UNCHANGED <<chat, role, lastRead, author, pinned, reactions, nextId, rooms>>

ReceiptMark(u) ==
  /\ At(u, "read", 2)
  /\ lastRead' = IF u \in Members /\ calls[u].msg > lastRead[u] THEN [lastRead EXCEPT ![u] = calls[u].msg] ELSE lastRead
  /\ Ends(u)
  /\ UNCHANGED <<chat, role, author, pinned, reactions, receipts, nextId, rooms>>

\* POST /:id/read: the newest id, then the mark, without looking at the old mark.
Newest(u) ==
  /\ At(u, "markRead", 1)
  /\ calls' = [calls EXCEPT ![u] = IF Messages = {} THEN Idle ELSE [@ EXCEPT !.msg = Max(Messages), !.at = 2]]
  /\ UNCHANGED chatState

MarkRead(u) ==
  /\ At(u, "markRead", 2)
  /\ lastRead' = IF u \in Members THEN [lastRead EXCEPT ![u] = calls[u].msg] ELSE lastRead
  /\ Ends(u)
  /\ UNCHANGED <<chat, role, author, pinned, reactions, receipts, nextId, rooms>>

------------------------------------------------------------------------------
(* Members and rooms *)

Enters(u) ==
  IF chat = "open" /\ u \notin Members
  THEN role' = [role EXCEPT ![u] = "member"] /\ lastRead' = [lastRead EXCEPT ![u] = 0]
  ELSE UNCHANGED <<role, lastRead>>

Join(u) ==
  /\ calls[u].op = "join"
  /\ Enters(u)
  /\ Ends(u)
  /\ UNCHANGED <<chat, author, pinned, reactions, receipts, nextId, rooms>>

AddMember(u, v) ==
  /\ calls[u] = Idle /\ Moderates(u) /\ v # u
  /\ Enters(v)
  /\ UNCHANGED <<chat, author, pinned, reactions, receipts, nextId, rooms, calls>>

\* One leaves, or is removed by an administrator; the socket stays in the room.
RemoveMember(u, v) ==
  /\ calls[u] = Idle
  /\ v \in Members
  /\ v = u \/ Moderates(u)
  /\ role' = [role EXCEPT ![v] = "none"]
  /\ lastRead' = [lastRead EXCEPT ![v] = 0]
  /\ UNCHANGED <<chat, author, pinned, reactions, receipts, nextId, rooms, calls>>

OpenRoom(u) ==
  /\ calls[u].op = "open"
  /\ rooms' = rooms \union {u}
  /\ Ends(u)
  /\ UNCHANGED <<chat, role, lastRead, author, pinned, reactions, receipts, nextId>>

CloseRoom(u) ==
  /\ u \in rooms
  /\ rooms' = rooms \ {u}
  /\ UNCHANGED <<chat, role, lastRead, author, pinned, reactions, receipts, nextId, calls>>

------------------------------------------------------------------------------
(* The chat is deleted in three statements *)

DeleteMessages(u) ==
  /\ At(u, "deleteChat", 1)
  /\ DropMessages(Messages)
  /\ Goes(u)
  /\ UNCHANGED <<chat, role, lastRead, nextId, rooms>>

DeleteMembers(u) ==
  /\ At(u, "deleteChat", 2)
  /\ role' = [v \in Users |-> "none"]
  /\ lastRead' = [v \in Users |-> 0]
  /\ Goes(u)
  /\ UNCHANGED <<chat, author, pinned, reactions, receipts, nextId, rooms>>

DeleteChat(u) ==
  /\ At(u, "deleteChat", 3)
  /\ chat' = "gone"
  /\ DropMessages(Messages)
  /\ role' = [v \in Users |-> "none"]
  /\ lastRead' = [v \in Users |-> 0]
  /\ Ends(u)
  /\ UNCHANGED <<nextId, rooms>>

ChatsNext ==
  \/ \E others \in SUBSET (Users \ {Creator}) : CreateChat(others)
  \/ \E m \in 1..LastMsg : Expire(m)
  \/ \E u \in Users :
       \/ \E op \in Ops, m \in 0..LastMsg : Call(u, op, m)
       \/ TakeId(u) \/ Insert(u) \/ OwnRead(u)
       \/ Pin(u) \/ RemoveMessage(u) \/ ClearMessages(u) \/ ClearMarks(u)
       \/ Unreact(u) \/ React(u)
       \/ ReceiptDelivered(u) \/ ReceiptRead(u) \/ ReceiptMark(u) \/ Newest(u) \/ MarkRead(u)
       \/ Join(u) \/ OpenRoom(u) \/ CloseRoom(u)
       \/ DeleteMessages(u) \/ DeleteMembers(u) \/ DeleteChat(u)
       \/ \E m \in 1..LastMsg : Unpin(u, m)
       \/ \E v \in Users : AddMember(u, v) \/ RemoveMember(u, v)

------------------------------------------------------------------------------
\* A recipient's "read" is never taken back to "delivered" while the message exists,
\* whatever order the receipts of two devices arrive in.
ReadStays ==
  \A r \in DOMAIN receipts \intersect DOMAIN receipts' : receipts[r] = "read" => receipts'[r] = "read"

\* Reactions, receipts and pins belong to messages that exist, and nothing is left of
\* a deleted chat, although senders, readers and joiners race with its deletion.
NothingOrphaned ==
  /\ \A r \in reactions \union DOMAIN receipts : r[1] \in Messages
  /\ pinned \subseteq Messages
  /\ chat # "open" => Messages = {} /\ Members = {}

\* Does not hold: only members hear what is sent to the room of the chat.
RoomOfMembers == rooms \subseteq Members

\* Does not hold: a read mark only rises, except when the history is cleared or the
\* member has left.
MarksRise == \A u \in Users : lastRead'[u] >= lastRead[u] \/ lastRead'[u] = 0

------------------------------------------------------------------------------
(***************************************************************************)
(* The chat of a user with the AI assistant (src/routes/chats.js): it is   *)
(* made when the user lists the chats or opens a conversation, and the     *)
(* questions of a user without a subscription are rationed per day.  The   *)
(* user's devices call at the same time.  What the assistant writes is     *)
(* left out.                                                               *)
(***************************************************************************)
CONSTANTS
  Devices,          \* of the user; each has one call open at a time
  Assistants,       \* chats with the assistant that may come to be, as numbers
  FREE_DAILY_LIMIT,
  Day,              \* units of time in 24 hours
  MaxOwn            \* bound: messages of the user in one chat and unit of time

ASSUME AssistantAssumption == FREE_DAILY_LIMIT \in Nat /\ Day \in Nat \ {0}

VARIABLES
  dm,       \* of each chat: "none", "empty" (a row without members) or "open"
  own,      \* the user's messages in each chat, by age
  asked,    \* history, for chats from which nothing was erased: questions answered
            \* without a subscription, by age
  paying,   \* users.subscription_status is active
  erased,   \* history: chats in which messages of the user were deleted
  device    \* the open call of each device

assistantVars == <<dm, own, asked, paying, erased, device>>

Ages == 0..(Day - 1)
NoCall == [at |-> "idle", dm |-> 0]
None == [k \in Assistants |-> [age \in Ages |-> 0]]
Total(byAge) == SumFunctionOnSet(byAge, Ages)

AssistantInit ==
  /\ dm = [k \in Assistants |-> "none"]
  /\ own = None
  /\ asked = None
  /\ paying = FALSE
  /\ erased = {}
  /\ device = [d \in Devices |-> NoCall]

\* A day is a window that moves: what is older is not counted.
Older(byAge) == [k \in Assistants |-> [age \in Ages |-> IF age = 0 THEN 0 ELSE byAge[k][age - 1]]]
DayPasses ==
  /\ \A d \in Devices : device[d].at # "asking"
  /\ own' = Older(own)
  /\ asked' = Older(asked)
  /\ UNCHANGED <<dm, paying, erased, device>>

Subscription ==
  /\ paying' = ~paying
  /\ UNCHANGED <<dm, own, asked, erased, device>>

\* The list of chats, and the request for a conversation, look for a chat of the two.
LookForDm(d) ==
  /\ device[d] = NoCall
  /\ \A k \in Assistants : dm[k] # "open"
  /\ device' = [device EXCEPT ![d].at = "creating"]
  /\ UNCHANGED <<dm, own, asked, paying, erased>>

CreateDm(d) ==
  LET free == {k \in Assistants : dm[k] = "none"}
  IN /\ device[d].at = "creating"
     /\ free # {}
     /\ dm' = [dm EXCEPT ![Min(free)] = "empty"]
     /\ device' = [device EXCEPT ![d] = [at |-> "joining", dm |-> Min(free)]]
     /\ UNCHANGED <<own, asked, paying, erased>>

JoinDm(d) ==
  /\ device[d].at = "joining"
  /\ dm' = [dm EXCEPT ![device[d].dm] = "open"]
  /\ device' = [device EXCEPT ![d] = NoCall]
  /\ UNCHANGED <<own, asked, paying, erased>>

\* The message is stored first,
Ask(d, k) ==
  /\ device[d] = NoCall
  /\ dm[k] = "open"
  /\ own[k][0] < MaxOwn
  /\ own' = [own EXCEPT ![k][0] = @ + 1]
  /\ device' = [device EXCEPT ![d] = [at |-> "asking", dm |-> k]]
  /\ UNCHANGED <<dm, asked, paying, erased>>

\* Faulty: counts what was asked since midnight, say, and not for 24 hours.
CountedToday(k) == own[k][0]

\* and counted with the others of the last 24 hours in this chat,
Counted(k) == Total(own[k])

\* so that of several at once at least the last sees all of them.
AskAssistant(d) ==
  LET k == device[d].dm
      answers == paying \/ ~(Counted(k) > FREE_DAILY_LIMIT)
  IN /\ device[d].at = "asking"
     /\ asked' = IF answers /\ ~paying /\ k \notin erased THEN [asked EXCEPT ![k][0] = @ + 1] ELSE asked
     /\ device' = [device EXCEPT ![d] = NoCall]
     /\ UNCHANGED <<dm, own, paying, erased>>

Erased(k) ==
  /\ erased' = erased \union {k}
  /\ asked' = [asked EXCEPT ![k] = [age \in Ages |-> 0]]
  /\ UNCHANGED <<dm, paying, device>>

\* The user deletes a message, or all of them.
Erase(k, age) ==
  /\ own[k][age] > 0
  /\ own' = [own EXCEPT ![k][age] = @ - 1]
  /\ Erased(k)

EraseAll(k) ==
  /\ Total(own[k]) > 0
  /\ own' = [own EXCEPT ![k] = [age \in Ages |-> 0]]
  /\ Erased(k)

AssistantNext ==
  \/ DayPasses \/ Subscription
  \/ \E d \in Devices : LookForDm(d) \/ CreateDm(d) \/ JoinDm(d) \/ AskAssistant(d)
  \/ \E d \in Devices, k \in Assistants : Ask(d, k)
  \/ \E k \in Assistants : EraseAll(k) \/ \E age \in Ages : Erase(k, age)

------------------------------------------------------------------------------
\* In 24 hours a chat answers a user without a subscription no more often than the
\* limit says, however many devices ask at once, while nothing is deleted from it.
AnswersRationed ==
  \A k \in Assistants : Total(asked[k]) <= FREE_DAILY_LIMIT

\* Does not hold: a user has one chat with the assistant.
OneAssistant == Cardinality({k \in Assistants : dm[k] = "open"}) <= 1

\* Does not hold: the limit is per user.
UserRationed == MapThenSumSet(LAMBDA k : Total(asked[k]), Assistants) <= FREE_DAILY_LIMIT

------------------------------------------------------------------------------
(***************************************************************************)
(* Reports of one message (src/routes/manage.js): its readers flag it, and *)
(* moderators work through the lists of flags that their consoles have     *)
(* loaded (src/public/console.js).                                         *)
(***************************************************************************)
CONSTANTS
  Readers,    \* members who may flag the message
  Moderators,
  MaxFlags    \* bound: rows of message_flags

VARIABLES
  reported,  \* the message: "shown", "hidden" (deleted_at is set) or "gone"
  flags,     \* message_flags: by whom and with which status, a sequence
  queue,     \* of each moderator: the open flags its console shows, and whether the message was hidden then
  moderation \* the open call of each reader and moderator

reportsVars == <<reported, flags, queue, moderation>>

NoReport == [at |-> "idle", flag |-> 0, how |-> "none"]
Verdicts == {"delete", "resolve", "dismiss"}
OpenFlags == {i \in DOMAIN flags : flags[i].status = "open"}
Finishes(p) == moderation' = [moderation EXCEPT ![p] = NoReport]

ReportsInit ==
  /\ reported = "shown"
  /\ flags = <<>>
  /\ queue = [v \in Moderators |-> [open |-> {}, hidden |-> FALSE]]
  /\ moderation = [p \in Readers \union Moderators |-> NoReport]

\* The message is looked up, whether it is hidden or not.
AskFlag(u) ==
  /\ moderation[u] = NoReport
  /\ reported # "gone"
  /\ moderation' = [moderation EXCEPT ![u].at = "flagging"]
  /\ UNCHANGED <<reported, flags, queue>>

\* Faulty: there is no unique index.
RefusesFlagNever(u) == reported = "gone"

\* The row is refused when the message is gone, or the reader has an open flag.
RefusesFlag(u) == reported = "gone" \/ \E i \in OpenFlags : flags[i].by = u

InsertFlag(u) ==
  /\ moderation[u].at = "flagging"
  /\ \/ RefusesFlag(u) /\ UNCHANGED flags
     \/ ~RefusesFlag(u) /\ Len(flags) < MaxFlags /\ flags' = Append(flags, [by |-> u, status |-> "open"])
  /\ Finishes(u)
  /\ UNCHANGED <<reported, queue>>

\* GET /flags.  The console offers verdicts for the open ones.
LoadQueue(v) ==
  /\ queue' = [queue EXCEPT ![v] = [open |-> OpenFlags, hidden |-> reported = "hidden"]]
  /\ UNCHANGED <<reported, flags, moderation>>

\* The flag is looked up, whatever its status is by now.
BeginVerdict(v, i, how) ==
  /\ moderation[v] = NoReport
  /\ i \in queue[v].open /\ i \in DOMAIN flags
  /\ how = "delete" => ~queue[v].hidden
  /\ moderation' = [moderation EXCEPT ![v] = [at |-> IF how = "delete" THEN "hiding" ELSE "closing", flag |-> i, how |-> how]]
  /\ UNCHANGED <<reported, flags, queue>>

HideMessage(v) ==
  /\ moderation[v].at = "hiding"
  /\ reported' = IF reported = "gone" THEN reported ELSE "hidden"
  /\ moderation' = [moderation EXCEPT ![v].at = "closing"]
  /\ UNCHANGED <<flags, queue>>

CloseFlag(v) ==
  LET i == moderation[v].flag  status == IF moderation[v].how = "dismiss" THEN "dismissed" ELSE "resolved" IN
  /\ moderation[v].at = "closing"
  /\ flags' = IF i \in DOMAIN flags THEN [flags EXCEPT ![i].status = status] ELSE flags
  /\ Finishes(v)
  /\ UNCHANGED <<reported, queue>>

\* A statement fails, and what was done before it stays.
FailReport(p) ==
  /\ moderation[p] # NoReport
  /\ Finishes(p)
  /\ UNCHANGED <<reported, flags, queue>>

\* Its author deletes the message, and the flags with it.
AuthorDeletes ==
  /\ reported' = "gone"
  /\ flags' = <<>>
  /\ UNCHANGED <<queue, moderation>>

\* GET /:id/messages leaves nothing out.
Listed == reported # "gone"

ReportsNext ==
  \/ AuthorDeletes
  \/ \E u \in Readers : AskFlag(u) \/ InsertFlag(u)
  \/ \E p \in Readers \union Moderators : FailReport(p)
  \/ \E v \in Moderators :
       \/ LoadQueue(v) \/ HideMessage(v) \/ CloseFlag(v)
       \/ \E i \in DOMAIN flags, how \in Verdicts : BeginVerdict(v, i, how)

------------------------------------------------------------------------------
\* A reader has one open flag, however often and from wherever it asks, a message is
\* hidden only after it was flagged, and the list of a moderator shows what was flagged.
ReportsKept ==
  /\ \A i, j \in OpenFlags : flags[i].by = flags[j].by => i = j
  /\ reported = "hidden" => flags # <<>>
  /\ reported = "gone" => flags = <<>>

\* Does not hold: the message is deleted for everyone.
HiddenIsUnlisted == reported = "hidden" => ~Listed

\* Does not hold: a verdict on a flag is the last.
VerdictStands ==
  \A i \in DOMAIN flags \intersect DOMAIN flags' : flags[i].status # "open" => flags'[i] = flags[i]
==============================================================================
