------------------------------- MODULE Streams -------------------------------
(***************************************************************************)
(* Who is connected, and live streaming: the presence list and the frame   *)
(* relay of src/server.js, the sessions of src/routes/live.js and the      *)
(* bookkeeping of src/realtime/sfu.js around the media server, which       *)
(* answers later.  The process runs one handler at a time, up to its next  *)
(* await.  Sessions are numbered; the sockets belong to the host, who is   *)
(* an administrator, or to one other user.                                 *)
(***************************************************************************)
EXTENDS Integers, FiniteSets

LOCAL INSTANCE FiniteSetsExt

CONSTANTS
  HostSockets, ViewerSockets, \* connections that each of the two users may have
  Starts,                     \* calls of POST /api/live/start
  LastSession,                \* bound: ids of live_sessions
  MaxCreating                 \* bound: calls that wait for a router of one room

VARIABLES
  connected, \* sockets
  online,    \* onlineUsers: the socket last noted for a user
  relay,     \* liveStream: active (of the host), and its viewers
  row,       \* status of each row of live_sessions
  start,     \* how far each call of start is
  room,      \* of each session, as sfu.js keeps it
  creating,  \* calls that wait for a router, by session
  transport, \* of a socket in a room: "pending", "open", or "stray": nothing will close it
  ending     \* sessions whose row is about to be ended

streamsVars == <<connected, online, relay, row, start, room, creating, transport, ending>>

Sockets == HostSockets \union ViewerSockets
Sessions == 1..LastSession
UserOf(k) == IF k \in HostSockets THEN "host" ELSE "viewer"
NoRoom == [open |-> FALSE, broadcaster |-> "nobody", peers |-> {}, producing |-> {}]
NewRoom == [NoRoom EXCEPT !.open = TRUE]
NoRelay == [active |-> FALSE, viewers |-> {}]

StreamsInit ==
  /\ connected = {}
  /\ online = <<>>
  /\ relay = NoRelay
  /\ row = [s \in Sessions |-> "none"]
  /\ start = [c \in Starts |-> "idle"]
  /\ room = [s \in Sessions |-> NoRoom]
  /\ creating = [s \in Sessions |-> 0]
  /\ transport = <<>>
  /\ ending = {}

Without(f, keys) == [x \in DOMAIN f \ keys |-> f[x]]
With(f, key, value) == [x \in DOMAIN f \union {key} |-> IF x = key THEN value ELSE f[x]]

Connect(k) ==
  /\ k \notin connected
  /\ connected' = connected \union {k}
  /\ online' = With(online, UserOf(k), k)
  /\ UNCHANGED <<relay, row, start, room, creating, transport, ending>>

------------------------------------------------------------------------------
(* The relay *)

LiveStart(k) ==
  /\ k \in connected \intersect HostSockets
  /\ relay' = [active |-> TRUE, viewers |-> {}]
  /\ UNCHANGED <<connected, online, row, start, room, creating, transport, ending>>

LiveStop(k) ==
  /\ k \in connected \intersect HostSockets
  /\ relay.active
  /\ relay' = NoRelay
  /\ UNCHANGED <<connected, online, row, start, room, creating, transport, ending>>

LiveJoin(k) ==
  /\ k \in connected /\ relay.active
  /\ relay' = [relay EXCEPT !.viewers = @ \union {UserOf(k)}]
  /\ UNCHANGED <<connected, online, row, start, room, creating, transport, ending>>

LiveLeave(k) ==
  /\ k \in connected
  /\ relay' = [relay EXCEPT !.viewers = @ \ {UserOf(k)}]
  /\ UNCHANGED <<connected, online, row, start, room, creating, transport, ending>>

\* Faulty: the user who disconnects stays among the viewers.
RelayWithoutHost(k) == IF UserOf(k) = "host" THEN NoRelay ELSE relay

\* What a disconnecting socket leaves of the relay: nothing when it is the host's.
RelayWithout(k) ==
  IF relay.active /\ UserOf(k) = "host" THEN NoRelay
  ELSE [relay EXCEPT !.viewers = @ \ {UserOf(k)}]

------------------------------------------------------------------------------
(* Sessions: two statements, and no transaction *)

EndStale(c) ==
  /\ start[c] = "idle"
  /\ row' = [s \in Sessions |-> IF row[s] = "live" THEN "ended" ELSE row[s]]
  /\ start' = [start EXCEPT ![c] = "inserting"]
  /\ UNCHANGED <<connected, online, relay, room, creating, transport, ending>>

InsertSession(c) ==
  LET new == {s \in Sessions : row[s] = "none"}
  IN /\ start[c] = "inserting"
     /\ new # {}
     /\ row' = [row EXCEPT ![Min(new)] = "live"]
     /\ start' = [start EXCEPT ![c] = "idle"]
     /\ UNCHANGED <<connected, online, relay, room, creating, transport, ending>>

\* POST /stop ends the row and tells the clients; the room stays.
Stop(s) ==
  /\ row[s] = "live"
  /\ row' = [row EXCEPT ![s] = "ended"]
  /\ UNCHANGED <<connected, online, relay, start, room, creating, transport, ending>>

------------------------------------------------------------------------------
(* The media server *)

\* getOrCreateRoom: no room yet, so the caller waits for a router,
GetCapabilities(k, s) ==
  /\ k \in connected
  /\ ~room[s].open /\ creating[s] < MaxCreating
  /\ creating' = [creating EXCEPT ![s] = @ + 1]
  /\ UNCHANGED <<connected, online, relay, row, start, room, transport, ending>>

Of(s) == {t \in DOMAIN transport : t[2] = s}

\* and then stores the room, also over one that another caller stored meanwhile; the
\* transports of that one are never closed.
RouterReady(s) ==
  /\ creating[s] > 0
  /\ creating' = [creating EXCEPT ![s] = @ - 1]
  /\ room' = [room EXCEPT ![s] = NewRoom]
  /\ transport' = [t \in DOMAIN transport |-> IF t \in Of(s) THEN "stray" ELSE transport[t]]
  /\ UNCHANGED <<connected, online, relay, row, start, ending>>

\* getPeer, before anything is awaited,
CreateTransport(k, s) ==
  /\ k \in connected /\ room[s].open
  /\ <<k, s>> \notin DOMAIN transport
  /\ room' = [room EXCEPT ![s].peers = @ \union {k}]
  /\ transport' = With(transport, <<k, s>>, "pending")
  /\ UNCHANGED <<connected, online, relay, row, start, creating, ending>>

\* Faulty: the peer is looked up, or made, when the transport is there.
TransportReadyLate(k, s) ==
  /\ <<k, s>> \in DOMAIN transport /\ transport[<<k, s>>] \in {"pending", "stray"}
  /\ room[s].open
  /\ room' = [room EXCEPT ![s].peers = @ \union {k}]
  /\ transport' = With(transport, <<k, s>>, "open")
  /\ UNCHANGED <<connected, online, relay, row, start, creating, ending>>

\* so that a transport that comes after its peer has left belongs to nobody.
TransportReady(k, s) ==
  /\ <<k, s>> \in DOMAIN transport /\ transport[<<k, s>>] = "pending"
  /\ transport' = With(transport, <<k, s>>, IF k \in room[s].peers THEN "open" ELSE "stray")
  /\ UNCHANGED <<connected, online, relay, row, start, room, creating, ending>>

HasTransport(k, s) == k \in room[s].peers /\ <<k, s>> \in DOMAIN transport /\ transport[<<k, s>>] = "open"

\* The host of the row, which may have ended, is the broadcaster from now on.
Produce(k, s) ==
  /\ k \in connected \intersect HostSockets
  /\ row[s] # "none"
  /\ HasTransport(k, s)
  /\ room' = [room EXCEPT ![s].producing = @ \union {k}, ![s].broadcaster = k]
  /\ UNCHANGED <<connected, online, relay, row, start, creating, transport, ending>>

\* What get-producers lists: the tracks of the broadcaster only.
Producers(s) == room[s].producing \intersect {room[s].broadcaster}

\* A consumer becomes a peer also when it has no transport yet and is refused.
Consume(k, s) ==
  /\ k \in connected /\ room[s].open /\ room[s].producing # {}
  /\ room' = [room EXCEPT ![s].peers = @ \union {k}]
  /\ UNCHANGED <<connected, online, relay, row, start, creating, transport, ending>>

\* closePeer: the transports it knows are closed; one that is pending will be nobody's.
ClosePeer(r, k) == [r EXCEPT !.peers = @ \ {k}, !.producing = @ \ {k}]

Known(k, s) == IF k \in room[s].peers /\ <<k, s>> \in DOMAIN transport /\ transport[<<k, s>>] = "open" THEN {<<k, s>>} ELSE {}

Leave(k, s) ==
  /\ k \in connected /\ room[s].open
  /\ room' = [room EXCEPT ![s] = ClosePeer(@, k)]
  /\ transport' = Without(transport, Known(k, s))
  /\ UNCHANGED <<connected, online, relay, row, start, creating, ending>>

\* live:close: closeRoom closes the router and all that belongs to it; the row follows.
Close(k, s) ==
  /\ k \in connected /\ room[s].open /\ room[s].broadcaster = k
  /\ room' = [room EXCEPT ![s] = NoRoom]
  /\ transport' = Without(transport, Of(s))
  /\ ending' = ending \union {s}
  /\ UNCHANGED <<connected, online, relay, row, start, creating>>

EndRow(s) ==
  /\ s \in ending
  /\ ending' = ending \ {s}
  /\ row' = [row EXCEPT ![s] = IF @ = "live" THEN "ended" ELSE @]
  /\ UNCHANGED <<connected, online, relay, start, room, creating, transport>>

\* The handlers of server.js and of sfu.js: the rooms in which the socket is a peer are
\* closed when it broadcasts, and left otherwise.
Disconnect(k) ==
  LET in == {s \in Sessions : room[s].open /\ k \in room[s].peers}
      closing == {s \in in : room[s].broadcaster = k}
  IN /\ k \in connected
     /\ connected' = connected \ {k}
     /\ online' = Without(online, {UserOf(k)})
     /\ relay' = RelayWithout(k)
     /\ room' = [s \in Sessions |-> IF s \in closing THEN NoRoom ELSE IF s \in in THEN ClosePeer(room[s], k) ELSE room[s]]
     /\ transport' = Without(transport, UNION {Of(s) : s \in closing} \union UNION {Known(k, s) : s \in in})
     /\ ending' = ending \union closing
     /\ UNCHANGED <<row, start, creating>>

StreamsNext ==
  \/ \E c \in Starts : EndStale(c) \/ InsertSession(c)
  \/ \E s \in Sessions : Stop(s) \/ EndRow(s) \/ RouterReady(s)
  \/ \E k \in Sockets :
       \/ Connect(k) \/ Disconnect(k)
       \/ LiveStart(k) \/ LiveStop(k) \/ LiveJoin(k) \/ LiveLeave(k)
       \/ \E s \in Sessions :
            \/ GetCapabilities(k, s) \/ CreateTransport(k, s) \/ TransportReady(k, s)
            \/ Produce(k, s) \/ Consume(k, s) \/ Leave(k, s) \/ Close(k, s)

------------------------------------------------------------------------------
UsersConnected == {UserOf(k) : k \in connected}

\* Nobody who is gone is counted: peers of a room, viewers of the relay and its host, and
\* users shown as online have a connection, although the media server answers after
\* sockets have closed.
NobodyGhosts ==
  /\ \A s \in Sessions : room[s].peers \subseteq connected /\ room[s].producing \subseteq room[s].peers
  /\ relay.viewers \subseteq UsersConnected
  /\ relay.active => "host" \in UsersConnected
  /\ DOMAIN online \subseteq UsersConnected

\* Does not hold: who has a connection is shown as online.
OnlineShown == UsersConnected \subseteq DOMAIN online

\* Does not hold: one session is live.
OneLive == Cardinality({s \in Sessions : row[s] = "live"}) <= 1

\* Does not hold: the broadcaster of a room is a peer of it, so its going closes the room.
BroadcasterPresent ==
  \A s \in Sessions : room[s].broadcaster # "nobody" => room[s].broadcaster \in room[s].peers

\* Does not hold: what is streamed belongs to a session that is live.
StreamsAreLive == \A s \in Sessions : Producers(s) # {} /\ s \notin ending => row[s] = "live"

\* Does not hold: every transport is closed with its peer.
NoStrays == \A t \in DOMAIN transport : transport[t] # "stray"
==============================================================================
