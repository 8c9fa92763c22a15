----------------------------- MODULE QuantumChat -----------------------------
(***************************************************************************)
(* The messenger of src/quantum-chat: the way of a message through DNS and *)
(* the node, the ratcheted sessions that seal its contents, and the node's *)
(* limiter.  They are explored side by side: a behaviour chooses its part  *)
(* at the start and stays with it.                                         *)
(***************************************************************************)
EXTENDS DnsChat, Ratchet, TokenBucket

VARIABLE part

chatVars == <<dnsChatVars, ratchetVars, bucketVars, part>>

ChatInit ==
  /\ part \in {"node", "ratchet", "limiter"}
  /\ DnsChatInit
  /\ RatchetInit
  /\ BucketInit

Carrying == part = "node" /\ UNCHANGED <<ratchetVars, bucketVars, part>>
Sealing == part = "ratchet" /\ UNCHANGED <<dnsChatVars, bucketVars, part>>
Limiting == part = "limiter" /\ UNCHANGED <<dnsChatVars, ratchetVars, part>>

ChatNext ==
  \/ DnsChatNext /\ Carrying
  \/ RatchetNext /\ Sealing
  \/ BucketNext /\ Limiting

\* The sweeper of the node runs every minute (cmd/quantum-chat/main.go); a call of the
\* client ends: its queries are answered or time out, and a handler returns.
ChatFairness ==
  \A m \in Mails :
    /\ WF_chatVars(SendChunk(m) /\ Carrying)
    /\ WF_chatVars(GiveUpAttempt(m) /\ Carrying)
    /\ \A c \in Chunks : WF_chatVars(Enqueue(m, c) /\ Carrying)
    /\ \A c \in Chunks :
         WF_chatVars((\E S \in SUBSET Chunks : c \in S /\ SweepUpload(m, S)) /\ Carrying)
    /\ WF_chatVars(SweepMail(m) /\ Carrying)

ChatSpec == ChatInit /\ [][ChatNext]_chatVars /\ ChatFairness

------------------------------------------------------------------------------
\* No chunk and no message stays at the node for good: each chunk of an upload and
\* each queued message is swept, if nobody takes it.  A repeated query may bring
\* a chunk back after it was swept, and never makes it younger.
NothingStays ==
  \A m \in Mails :
    /\ \A c \in Chunks : (part = "node" /\ c \in uploads[m]) ~> (c \notin uploads[m])
    /\ (part = "node" /\ Queued(m)) ~> ~Queued(m)

\* Does not hold in Postgres: that an upload ends.  Of three chunks or more (LastChunk)
\* two that are repeated in turn keep it there, each new row as old as its own query.
UploadsEnd == \A m \in Mails : (part = "node" /\ uploads[m] # {}) ~> (uploads[m] = {})

\* A message is queued once, and a send that succeeds was queued (see DnsChat).
SentOnce == QueuedOnce /\ SentWasQueued
==============================================================================
