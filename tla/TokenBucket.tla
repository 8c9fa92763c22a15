----------------------------- MODULE TokenBucket -----------------------------
(***************************************************************************)
(* The limiter of the messenger's node                                     *)
(* (src/quantum-chat/internal/ratelimit): a bucket of tokens per client,   *)
(* refilled as time passes, and dropped when the client has been idle.  A  *)
(* unit of time is what one token takes to come back.                      *)
(***************************************************************************)
EXTENDS Integers, FiniteSets, Functions

CONSTANTS
  Clients,  \* keys of the limiter
  Burst,    \* tokens of a full bucket; it takes a minute to fill
  IdleFor,  \* idle time after which a bucket may be dropped: ten minutes
  Window    \* history: how long allowed queries are remembered

ASSUME BucketAssumption ==
  /\ Burst \in Nat \ {0} /\ IdleFor \in Nat /\ Burst <= IdleFor
  /\ Window \in Nat

VARIABLES
  tokens,   \* of the bucket of each client, as of its last query
  idle,     \* time since the last query of a client that has a bucket
  sinceGC,  \* time since the last gc, up to a minute
  allowed   \* history: by age, the allowed queries of each client

bucketVars == <<tokens, idle, sinceGC, allowed>>

BucketInit ==
  /\ tokens = <<>>
  /\ idle = <<>>
  /\ sinceGC = 0
  /\ allowed = [c \in Clients |-> [age \in 0..Window |-> 0]]

Cap(n, limit) == IF n > limit THEN limit ELSE n

Pass ==
  /\ idle' = [c \in DOMAIN idle |-> Cap(idle[c] + 1, IdleFor + 1)]
  /\ sinceGC' = Cap(sinceGC + 1, Burst)
  /\ allowed' = [c \in Clients |-> [age \in 0..Window |-> IF age = 0 THEN 0 ELSE allowed[c][age - 1]]]
  /\ UNCHANGED tokens

Known == DOMAIN tokens

\* Faulty: refills without a limit.
RefilledFreely(c) == IF c \in Known THEN tokens[c] + idle[c] ELSE Burst

\* What a client has now: a new bucket is full.
Refilled(c) == IF c \in Known THEN Cap(tokens[c] + idle[c], Burst) ELSE Burst

\* gc, once a minute, within a query of any client: drops the idle buckets.
Kept(ages) == IF sinceGC < Burst THEN DOMAIN ages ELSE {c \in DOMAIN ages : ages[c] <= IdleFor}

Allow(c) ==
  LET now == Refilled(c)
      left == [d \in Known \union {c} |-> IF d # c THEN tokens[d] ELSE IF now < 1 THEN now ELSE now - 1]
      ages == [d \in Known \union {c} |-> IF d = c THEN 0 ELSE idle[d]]
      kept == Kept(ages)
  IN /\ tokens' = [d \in kept |-> left[d]]
     /\ idle' = [d \in kept |-> ages[d]]
     /\ sinceGC' = IF sinceGC < Burst THEN sinceGC ELSE 0
     /\ allowed' = IF now < 1 THEN allowed ELSE [allowed EXCEPT ![c][0] = @ + 1]

BucketNext == Pass \/ \E c \in Clients : Allow(c)

------------------------------------------------------------------------------
\* In every stretch of time a client gets a burst and what has come back since, and
\* no more for having been forgotten in between.
RateBounded ==
  \A c \in Clients, stretch \in 0..Window :
    SumFunctionOnSet(allowed[c], 0..stretch) <= Burst + stretch
==============================================================================
