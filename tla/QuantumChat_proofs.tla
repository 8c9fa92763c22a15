------------------------- MODULE QuantumChat_proofs -------------------------
(***************************************************************************)
(* Proofs about the messenger: its node's limiter, the way of a message to *)
(* the recipient's queue, and the sessions that seal it.                   *)
(***************************************************************************)
EXTENDS QuantumChat, CommonTheorems

------------------------------------------------------------------------------
(* The limiter.                                                              *)

BucketsTyped ==
  /\ tokens \in [DOMAIN tokens -> 0 .. Burst]
  /\ idle \in [DOMAIN tokens -> Nat]
  /\ DOMAIN tokens \subseteq Clients
  /\ sinceGC \in Nat
  /\ allowed \in [Clients -> [0 .. Window -> Nat]]

Allowed(c, stretch) == SumFunctionOnSet(allowed[c], 0 .. stretch)

\* What a client had in a stretch of time, and what it could take now, is no more
\* than a burst and what has come back.
BucketsBounded ==
  \A c \in Clients, stretch \in 0 .. Window : Allowed(c, stretch) + Refilled(c) <= Burst + stretch

BucketInv == BucketsTyped /\ BucketsBounded

LEMMA BucketsStart == BucketInit => BucketInv
<1> SUFFICES ASSUME BucketInit PROVE BucketInv
  OBVIOUS
<1>1. BucketsTyped
  BY BucketAssumption DEF BucketInit, BucketsTyped
<1>2. ASSUME NEW c \in Clients, NEW stretch \in 0 .. Window
      PROVE  Allowed(c, stretch) + Refilled(c) <= Burst + stretch
  <2>1. IsFiniteSet(0 .. stretch) /\ \A age \in 0 .. stretch : allowed[c][age] = 0
    BY FS_Interval, BucketAssumption DEF BucketInit
  <2>2. Allowed(c, stretch) = 0
    BY <2>1, SumOfZeros DEF Allowed
  <2>3. Refilled(c) = Burst
    BY DEF BucketInit, Refilled, Known
  <2>4. QED
    BY <2>2, <2>3, BucketAssumption
<1>3. QED
  BY <1>1, <1>2 DEF BucketInv, BucketsBounded

\* What a client can take is between nothing and a burst.
LEMMA RefillBounded ==
  ASSUME BucketsTyped, NEW c
  PROVE  Refilled(c) \in 0 .. Burst
<1>1. CASE c \in Known
  <2>1. tokens[c] \in 0 .. Burst /\ idle[c] \in Nat
    BY <1>1 DEF BucketsTyped, Known
  <2>2. QED
    BY <1>1, <2>1, BucketAssumption DEF Refilled, Cap
<1>2. CASE c \notin Known
  BY <1>2, BucketAssumption DEF Refilled
<1>3. QED
  BY <1>1, <1>2

\* The first of a stretch apart from the others.
LEMMA StretchSplits ==
  ASSUME NEW f, NEW n \in Nat, \A age \in 0 .. n : f[age] \in Int
  PROVE  /\ SumFunctionOnSet(f, 0 .. n) = f[0] + SumFunctionOnSet(f, 1 .. n)
         /\ SumFunctionOnSet(f, 0 .. n) \in Int
         /\ SumFunctionOnSet(f, 1 .. n) \in Int
<1>1. PICK S : S = 0 .. n
  OBVIOUS
<1>2. PICK R : R = 1 .. n
  OBVIOUS
<1>3. IsFiniteSet(S) /\ IsFiniteSet(R) /\ 0 \in S /\ S \ {0} = R
  <2>1. IsFiniteSet(0 .. n) /\ IsFiniteSet(1 .. n)
    BY ONLY n \in Nat, 0 \in Int, 1 \in Int, n \in Int, FS_Interval
  <2>2. 0 \in 0 .. n /\ (0 .. n) \ {0} = 1 .. n
    OBVIOUS
  <2>3. QED
    BY <1>1, <1>2, <2>1, <2>2
<1>4. (\A age \in S : f[age] \in Int) /\ (\A age \in R : f[age] \in Int)
  BY <1>1, <1>2
<1>5. SumFunctionOnSet(f, S) \in Int /\ SumFunctionOnSet(f, S) = f[0] + SumFunctionOnSet(f, S \ {0})
  BY ONLY <1>3, <1>4, SumTakesOut
<1>6. SumFunctionOnSet(f, R) \in Int
  BY ONLY <1>3, <1>4, SumTakesOut
<1>7. QED
  BY ONLY <1>1, <1>2, <1>3, <1>5, <1>6, Zenon

\* When time passes, what was allowed is a unit older.
LEMMA StretchShifts ==
  ASSUME NEW f, NEW g, NEW n \in Nat,
         \A age \in 0 .. n : f[age] \in Int,
         g[0] = 0, \A age \in 1 .. n : g[age] = f[age - 1]
  PROVE  /\ n = 0 => SumFunctionOnSet(g, 0 .. n) = 0
         /\ n > 0 => SumFunctionOnSet(g, 0 .. n) = SumFunctionOnSet(f, 0 .. n - 1)
<1>1. \A age \in 0 .. n : g[age] \in Int
  <2>1. \A age \in 0 .. n : age = 0 \/ (age \in 1 .. n /\ age - 1 \in 0 .. n)
    OBVIOUS
  <2>2. QED
    BY <2>1
<1>2. /\ SumFunctionOnSet(g, 0 .. n) = SumFunctionOnSet(g, 1 .. n)
      /\ SumFunctionOnSet(g, 1 .. n) \in Int
  BY <1>1, StretchSplits
<1>3. CASE n = 0
  <2>1. 1 .. n = {}
    BY <1>3
  <2>2. QED
    BY <1>2, <1>3, <2>1, SumEmpty
<1>4. CASE n > 0
  <2> DEFINE older == [age \in 0 .. n - 1 |-> age + 1]
             S == 0 .. n - 1
  <2>1. IsFiniteSet(S)
    BY <1>4, FS_Interval
  <2>2. {older[age] : age \in S} = 1 .. n
    <3>1. \A age \in 1 .. n : age - 1 \in S /\ older[age - 1] = age
      OBVIOUS
    <3>2. \A age \in S : older[age] \in 1 .. n
      OBVIOUS
    <3> HIDE DEF older, S
    <3>3. QED
      BY <3>1, <3>2
  <2>3. \A x, y \in S : older[x] = older[y] => x = y
    OBVIOUS
  <2>4. \A x \in S : f[x] \in Int /\ g[older[x]] = f[x]
    <3>1. \A x \in S : x \in 0 .. n /\ older[x] = x + 1 /\ x + 1 \in 1 .. n /\ (x + 1) - 1 = x
      OBVIOUS
    <3>2. \A x \in S : g[x + 1] = f[(x + 1) - 1]
      BY <3>1
    <3>3. \A x \in S : g[older[x]] = f[x]
      BY <3>1, <3>2, Zenon
    <3>4. QED
      BY <3>1, <3>3
  <2> HIDE DEF older, S
  <2>5. SumFunctionOnSet(g, {older[x] : x \in S}) = SumFunctionOnSet(f, S)
    BY <2>1, <2>3, <2>4, SumRenamed
  <2>6. SumFunctionOnSet(g, 1 .. n) = SumFunctionOnSet(f, S)
    BY <2>2, <2>5, Zenon
  <2>7. QED
    BY <1>2, <1>4, <2>6 DEF S
<1>5. QED
  BY <1>3, <1>4

\* Time passes: everyone's stretch gets longer, and at most one token comes back.
LEMMA PassKeeps == BucketInv /\ Pass => BucketInv'
<1> SUFFICES ASSUME BucketInv, Pass PROVE BucketInv'
  OBVIOUS
<1>1. BucketsTyped
  BY DEF BucketInv
<1>2. BucketsTyped'
  <2>1. /\ tokens' = tokens
        /\ idle' = [c \in DOMAIN idle |-> Cap(idle[c] + 1, IdleFor + 1)]
        /\ sinceGC' = Cap(sinceGC + 1, Burst)
        /\ allowed' = [c \in Clients |->
              [age \in 0 .. Window |-> IF age = 0 THEN 0 ELSE allowed[c][age - 1]]]
    BY DEF Pass
  <2>2. \A c \in DOMAIN tokens : Cap(idle[c] + 1, IdleFor + 1) \in Nat
    BY <1>1, BucketAssumption DEF BucketsTyped, Cap
  <2>3. Cap(sinceGC + 1, Burst) \in Nat
    BY <1>1, BucketAssumption DEF BucketsTyped, Cap
  <2>4. \A c \in Clients, age \in 0 .. Window : age # 0 => allowed[c][age - 1] \in Nat
    <3>1. \A age \in 0 .. Window : age # 0 => age - 1 \in 0 .. Window
      BY BucketAssumption
    <3>2. QED
      BY <1>1, <3>1 DEF BucketsTyped
  <2>5. allowed' \in [Clients -> [0 .. Window -> Nat]]
    BY <2>1, <2>4
  <2>6. DOMAIN idle = DOMAIN tokens
    BY <1>1 DEF BucketsTyped
  <2>7. QED
    BY <1>1, <2>1, <2>2, <2>3, <2>5, <2>6 DEF BucketsTyped
<1>3. ASSUME NEW c \in Clients, NEW stretch \in 0 .. Window
      PROVE  (Allowed(c, stretch) + Refilled(c))' <= Burst + stretch
  <2> DEFINE now == Refilled(c)
             new == Refilled(c)'
             f == allowed[c]
             g == allowed'[c]
  <2>1. now \in 0 .. Burst /\ new \in 0 .. Burst
    <3>1. now \in 0 .. Burst
      BY <1>1, RefillBounded
    <3>2. (Refilled(c) \in 0 .. Burst)'
      BY <1>2, RefillBounded, PTL
    <3>3. QED
      BY <3>1, <3>2
  <2>2. new <= now + 1
    <3>1. CASE c \in Known
      <4>1. tokens'[c] = tokens[c] /\ idle'[c] = Cap(idle[c] + 1, IdleFor + 1) /\ c \in Known'
        BY <1>1, <3>1 DEF Pass, BucketsTyped, Known
      <4>2. tokens[c] \in Nat /\ idle[c] \in Nat
        BY <1>1, <3>1 DEF BucketsTyped, Known
      <4>3. idle'[c] \in Nat /\ idle'[c] <= idle[c] + 1
        BY <4>1, <4>2, BucketAssumption DEF Cap
      <4>4. QED
        BY <3>1, <4>1, <4>2, <4>3, BucketAssumption DEF Refilled, Cap
    <3>2. CASE c \notin Known
      BY <2>1, <3>2 DEF Refilled, Pass, Known
    <3>3. QED
      BY <3>1, <3>2
  <2>3. /\ stretch \in Nat
        /\ \A age \in 0 .. stretch : f[age] \in Int
        /\ g[0] = 0
        /\ \A age \in 1 .. stretch : g[age] = f[age - 1]
    BY <1>1, BucketAssumption DEF BucketsTyped, Pass
  <2> HIDE DEF f, g, now, new
  <2>4. /\ stretch = 0 => SumFunctionOnSet(g, 0 .. stretch) = 0
        /\ stretch > 0 => SumFunctionOnSet(g, 0 .. stretch) = SumFunctionOnSet(f, 0 .. stretch - 1)
    BY <2>3, StretchShifts
  <2>5. CASE stretch = 0
    <3>1. SumFunctionOnSet(g, 0 .. stretch) + new <= Burst + stretch
      BY <2>1, <2>4, <2>5, BucketAssumption
    <3>2. QED
      BY <3>1 DEF Allowed, g, new
  <2>6. CASE stretch > 0
    <3>1. stretch - 1 \in 0 .. Window
      BY <2>3, <2>6, BucketAssumption
    <3>2. SumFunctionOnSet(f, 0 .. stretch - 1) + now <= Burst + (stretch - 1)
      BY <3>1 DEF BucketInv, BucketsBounded, Allowed, f, now
    <3>3. SumFunctionOnSet(f, 0 .. stretch - 1) \in Int
      <4>1. IsFiniteSet(0 .. stretch - 1) /\ \A age \in 0 .. stretch - 1 : f[age] \in Int
        BY <2>3, <3>1, FS_Interval
      <4>2. QED
        BY <4>1, SumTakesOut
    <3>4. SumFunctionOnSet(g, 0 .. stretch) + new <= Burst + stretch
      BY <2>1, <2>2, <2>3, <2>4, <2>6, <3>2, <3>3, BucketAssumption
    <3>5. QED
      BY <3>4 DEF Allowed, g, new
  <2>7. QED
    BY <2>3, <2>5, <2>6
<1>4. BucketsBounded'
  BY <1>3 DEF BucketsBounded
<1>5. QED
  BY <1>2, <1>4 DEF BucketInv

\* A query is answered: what it takes is counted, and the buckets that are dropped
\* on the way are full.
LEMMA AllowKeeps == ASSUME NEW c \in Clients, BucketInv, Allow(c) PROVE BucketInv'
<1> DEFINE now == Refilled(c)
           left == [d \in Known \union {c} |->
                      IF d # c THEN tokens[d] ELSE IF now < 1 THEN now ELSE now - 1]
           ages == [d \in Known \union {c} |-> IF d = c THEN 0 ELSE idle[d]]
           kept == Kept(ages)
<1>1. BucketsTyped
  BY DEF BucketInv
<1>2. /\ tokens' = [d \in kept |-> left[d]]
      /\ idle' = [d \in kept |-> ages[d]]
      /\ sinceGC' = IF sinceGC < Burst THEN sinceGC ELSE 0
      /\ allowed' = IF now < 1 THEN allowed ELSE [allowed EXCEPT ![c][0] = @ + 1]
  BY DEF Allow
<1>3. now \in 0 .. Burst
  BY <1>1, RefillBounded
<1>4. /\ c \in kept /\ kept \subseteq Known \union {c}
      /\ \A d \in Known \ kept : d # c => idle[d] > IdleFor
  <2>1. DOMAIN ages = Known \union {c} /\ ages[c] = 0
    OBVIOUS
  <2>2. \A d \in Known : d # c => ages[d] = idle[d] /\ idle[d] \in Nat
    BY <1>1 DEF BucketsTyped, Known
  <2>3. 0 <= IdleFor
    BY BucketAssumption
  <2> HIDE DEF ages
  <2>4. c \in kept /\ kept \subseteq Known \union {c}
    BY <2>1, <2>3 DEF Kept
  <2>5. ASSUME NEW d \in Known \ kept, d # c PROVE idle[d] > IdleFor
    <3>1. ~(ages[d] <= IdleFor)
      BY <2>1, <2>5 DEF Kept
    <3>2. QED
      BY <2>2, <2>5, <3>1, BucketAssumption
  <2>6. QED
    BY <2>4, <2>5
<1>5. \A d \in Known : tokens[d] \in 0 .. Burst /\ idle[d] \in Nat
  BY <1>1 DEF BucketsTyped, Known
<1>6. /\ \A d \in kept : left[d] \in 0 .. Burst /\ ages[d] \in Nat
      /\ left[c] = (IF now < 1 THEN now ELSE now - 1) /\ ages[c] = 0
      /\ \A d \in kept : d # c => d \in Known /\ left[d] = tokens[d] /\ ages[d] = idle[d]
  <2>1. /\ left[c] = (IF now < 1 THEN now ELSE now - 1) /\ ages[c] = 0
        /\ \A d \in kept : d # c => d \in Known /\ left[d] = tokens[d] /\ ages[d] = idle[d]
    BY <1>4
  <2>2. left[c] \in 0 .. Burst
    BY <1>3, <2>1, BucketAssumption
  <2> HIDE DEF now, left, ages, kept
  <2>3. QED
    BY <1>5, <2>1, <2>2
<1>7. Known' = kept /\ \A d \in kept : tokens'[d] = left[d] /\ idle'[d] = ages[d]
  <2> HIDE DEF now, left, ages, kept
  <2>1. QED
    BY <1>2 DEF Known
<1>8. allowed \in [Clients -> [0 .. Window -> Nat]] /\ 0 \in 0 .. Window
  BY <1>1, BucketAssumption DEF BucketsTyped
<1> HIDE DEF now, left, ages, kept
<1>9. BucketsTyped'
  <2>1. kept \subseteq Clients
    BY <1>1, <1>4 DEF BucketsTyped, Known
  <2>2. tokens' \in [kept -> 0 .. Burst] /\ idle' \in [kept -> Nat]
    BY <1>2, <1>6
  <2>3. sinceGC' \in Nat
    BY <1>1, <1>2 DEF BucketsTyped
  <2>4. allowed' \in [Clients -> [0 .. Window -> Nat]]
    <3>1. allowed[c] \in [0 .. Window -> Nat] /\ allowed[c][0] + 1 \in Nat
      <4>1. allowed[c] \in [0 .. Window -> Nat]
        BY <1>8
      <4>2. allowed[c][0] \in Nat
        BY <1>8, <4>1
      <4>3. QED
        BY <4>1, <4>2
    <3>2. [allowed[c] EXCEPT ![0] = @ + 1] \in [0 .. Window -> Nat]
      BY <3>1
    <3>3. [allowed EXCEPT ![c][0] = @ + 1] \in [Clients -> [0 .. Window -> Nat]]
      BY <1>8, <3>2
    <3>4. QED
      BY <1>2, <1>8, <3>3
  <2>5. DOMAIN tokens' = kept
    BY <1>2
  <2>6. QED
    BY <2>1, <2>2, <2>3, <2>4, <2>5 DEF BucketsTyped
<1>10. \A d \in Clients \ {c} : Refilled(d)' = Refilled(d) /\ allowed'[d] = allowed[d]
  <2>1. ASSUME NEW d \in Clients \ {c} PROVE Refilled(d)' = Refilled(d) /\ allowed'[d] = allowed[d]
    <3>1. allowed'[d] = allowed[d]
      BY <1>2, <1>8
    <3>2. CASE d \in kept
      BY <1>6, <1>7, <3>1, <3>2 DEF Refilled
    <3>3. CASE d \notin kept /\ d \in Known
      <4>1. idle[d] > IdleFor /\ idle[d] \in Nat /\ tokens[d] \in 0 .. Burst
        BY <1>4, <1>5, <3>3
      <4>2. Refilled(d) = Burst
        BY <3>3, <4>1, BucketAssumption DEF Refilled, Cap
      <4>3. Refilled(d)' = Burst
        BY <1>7, <3>3 DEF Refilled
      <4>4. QED
        BY <3>1, <4>2, <4>3
    <3>4. CASE d \notin kept /\ d \notin Known
      BY <1>7, <3>1, <3>4 DEF Refilled
    <3>5. QED
      BY <3>2, <3>3, <3>4
  <2>2. QED
    BY <2>1
<1>11. Refilled(c)' = IF now < 1 THEN now ELSE now - 1
  <2>1. c \in Known' /\ tokens'[c] = left[c] /\ idle'[c] = 0
    BY <1>4, <1>6, <1>7
  <2>2. left[c] \in 0 .. Burst
    BY <1>4, <1>6
  <2>3. Refilled(c)' = left[c]
    BY <2>1, <2>2, BucketAssumption DEF Refilled, Cap
  <2>4. QED
    BY <1>6, <2>3
<1>12. ASSUME NEW d \in Clients, NEW stretch \in 0 .. Window
       PROVE  (Allowed(d, stretch) + Refilled(d))' <= Burst + stretch
  <2>1. Allowed(d, stretch) + Refilled(d) <= Burst + stretch
    BY DEF BucketInv, BucketsBounded
  <2>2. CASE d # c
    <3>1. Refilled(d)' = Refilled(d) /\ Allowed(d, stretch)' = Allowed(d, stretch)
      BY <1>10, <2>2 DEF Allowed
    <3>2. QED
      BY <2>1, <3>1
  <2>3. CASE d = c /\ now < 1
    <3>1. Refilled(c)' = Refilled(c) /\ Allowed(c, stretch)' = Allowed(c, stretch)
      BY <1>2, <1>11, <2>3 DEF Allowed, now
    <3>2. QED
      BY <2>1, <2>3, <3>1
  <2>4. CASE d = c /\ ~(now < 1)
    <3> DEFINE f == allowed[c]
               g == allowed'[c]
    <3>1. /\ g[0] = f[0] + 1
          /\ \A age \in (0 .. stretch) \ {0} : g[age] = f[age]
          /\ \A age \in 0 .. stretch : f[age] \in Int /\ g[age] \in Int
          /\ IsFiniteSet(0 .. stretch) /\ 0 \in 0 .. stretch
      <4>1. \A age \in 0 .. stretch : age \in 0 .. Window
        BY BucketAssumption
      <4>2. allowed' = [allowed EXCEPT ![c][0] = @ + 1]
        BY <1>2, <2>4
      <4>3. g[0] = f[0] + 1 /\ \A age \in 0 .. Window : age # 0 => g[age] = f[age]
        BY <1>8, <4>2
      <4>4. \A age \in 0 .. Window : f[age] \in Nat
        BY <1>8
      <4>5. \A age \in 0 .. Window : g[age] \in Int
        BY <4>3, <4>4
      <4>6. IsFiniteSet(0 .. stretch) /\ 0 \in 0 .. stretch
        BY FS_Interval, BucketAssumption
      <4> HIDE DEF f, g
      <4>7. QED
        BY <4>1, <4>3, <4>4, <4>5, <4>6
    <3> HIDE DEF f, g
    <3>2. SumFunctionOnSet(g, 0 .. stretch) = SumFunctionOnSet(f, 0 .. stretch) + (g[0] - f[0])
      BY <3>1, SumChanges
    <3>3. SumFunctionOnSet(f, 0 .. stretch) \in Int /\ f[0] \in Int
      BY <3>1, SumTakesOut
    <3>4. SumFunctionOnSet(g, 0 .. stretch) = SumFunctionOnSet(f, 0 .. stretch) + 1
      BY <3>1, <3>2, <3>3
    <3>5. SumFunctionOnSet(f, 0 .. stretch) + now <= Burst + stretch
      BY <2>1, <2>4 DEF Allowed, f, now
    <3>6. stretch \in Nat
      BY BucketAssumption
    <3>7. SumFunctionOnSet(g, 0 .. stretch) + (now - 1) <= Burst + stretch
      BY <1>3, <3>3, <3>4, <3>5, <3>6, BucketAssumption
    <3>8. QED
      BY <1>11, <2>4, <3>7 DEF Allowed, g
  <2>5. QED
    BY <2>2, <2>3, <2>4
<1>13. QED
  BY <1>9, <1>12 DEF BucketInv, BucketsBounded

\* The limiter, whatever part of the messenger a behaviour is about.
LEMMA LimiterKeeps == BucketInv /\ [ChatNext]_chatVars => BucketInv'
<1> SUFFICES ASSUME BucketInv, [ChatNext]_chatVars PROVE BucketInv'
  OBVIOUS
<1>1. CASE BucketNext
  BY <1>1, PassKeeps, AllowKeeps DEF BucketNext
<1>2. CASE UNCHANGED bucketVars
  BY <1>2 DEF bucketVars, BucketInv, BucketsTyped, BucketsBounded, Allowed, Refilled, Known
<1>3. QED
  BY <1>1, <1>2 DEF ChatNext, Carrying, Sealing, Limiting, chatVars

\* A client of the node (RateBounded): in every stretch of time it gets a burst and
\* what has come back since, whatever buckets are dropped in between.
THEOREM RatesAreBounded == ChatSpec => []RateBounded
<1>1. ChatInit => BucketInv
  BY BucketsStart DEF ChatInit
<1>2. BucketInv => RateBounded
  <2> SUFFICES ASSUME BucketInv, NEW c \in Clients, NEW stretch \in 0 .. Window
               PROVE  Allowed(c, stretch) <= Burst + stretch
    BY DEF RateBounded, Allowed
  <2>1. Allowed(c, stretch) + Refilled(c) <= Burst + stretch /\ Refilled(c) \in 0 .. Burst
    BY RefillBounded DEF BucketInv, BucketsBounded
  <2>2. Allowed(c, stretch) \in Int
    <3>1. IsFiniteSet(0 .. stretch) /\ \A age \in 0 .. stretch : age \in 0 .. Window
      BY FS_Interval, BucketAssumption
    <3>2. \A age \in 0 .. Window : allowed[c][age] \in Int
      <4>1. allowed \in [Clients -> [0 .. Window -> Nat]]
        BY DEF BucketInv, BucketsTyped
      <4>2. allowed[c] \in [0 .. Window -> Nat]
        BY <4>1
      <4>3. \A age \in 0 .. Window : allowed[c][age] \in Nat
        BY <4>2, Zenon
      <4>4. QED
        BY <4>3
    <3>3. \A age \in 0 .. stretch : allowed[c][age] \in Int
      BY <3>1, <3>2
    <3>4. QED
      BY <3>1, <3>3, SumTakesOut DEF Allowed
  <2>3. QED
    BY <2>1, <2>2, BucketAssumption
<1>3. QED
  BY <1>1, <1>2, LimiterKeeps, PTL DEF ChatSpec

------------------------------------------------------------------------------
(* Queues.                                                                   *)

Distinct(s) == \A i, j \in DOMAIN s : s[i] = s[j] => i = j
Holds(s, x) == \E i \in DOMAIN s : s[i] = x

\* A queue with one more at its end.
LEMMA QueueGrows ==
  ASSUME NEW s, IsSeq(s), NEW x
  PROVE  /\ IsSeq(Append(s, x))
         /\ \A y : Holds(Append(s, x), y) <=> Holds(s, y) \/ y = x
         /\ Distinct(s) /\ ~Holds(s, x) => Distinct(Append(s, x))
         /\ Append(s, x) # s
<1> DEFINE t == Append(s, x)
<1>1. Grown(s, t, x)
  BY AppendGrows
<1> HIDE DEF t
<1>2. QED
  BY <1>1 DEF Grown, Holds, Distinct, t

\* A queue without what is at one place.
LEMMA PlaceRemoved ==
  ASSUME NEW s, IsSeq(s), NEW k \in DOMAIN s
  PROVE  LET r == RemoveAt(s, k)
         IN  /\ IsSeq(r) /\ DOMAIN r = 1 .. Len(s) - 1
             /\ \A i \in DOMAIN r : r[i] = IF i < k THEN s[i] ELSE s[i + 1]
<1> DEFINE n == Len(s)
           a == SubSeq(s, 1, k - 1)
           b == SubSeq(s, k + 1, n)
           T == {s[i] : i \in DOMAIN s}
<1>1. n \in Nat /\ DOMAIN s = 1 .. n /\ k \in 1 .. n
  BY DEF IsSeq
<1>2. /\ a \in Seq(T) /\ Len(a) = k - 1 /\ \A i \in 1 .. k - 1 : a[i] = s[i]
  <2>1. \A i \in 1 .. k - 1 : s[i] \in T
    BY <1>1
  <2>2. 1 \in Int /\ k - 1 \in Int
    BY <1>1
  <2> HIDE DEF T
  <2>3. /\ SubSeq(s, 1, k - 1) \in Seq(T)
        /\ Len(SubSeq(s, 1, k - 1)) = IF 1 <= k - 1 THEN (k - 1) - 1 + 1 ELSE 0
        /\ \A i \in 1 .. (k - 1) - 1 + 1 : SubSeq(s, 1, k - 1)[i] = s[1 + i - 1]
    BY <2>1, <2>2, SubSeqProperties
  <2>4. (k - 1) - 1 + 1 = k - 1 /\ \A i \in Int : 1 + i - 1 = i
    BY <1>1
  <2>5. QED
    BY <1>1, <2>3, <2>4
<1>3. /\ b \in Seq(T) /\ Len(b) = n - k /\ \A i \in 1 .. n - k : b[i] = s[k + i]
  <2>1. PICK m \in Int, l \in Nat : m = k + 1 /\ l = n - k
    BY <1>1
  <2>2. /\ \A i \in m .. n : s[i] \in T
        /\ n \in Int /\ n - m + 1 = l /\ (IF m <= n THEN l ELSE 0) = l
        /\ \A i \in 1 .. l : m + i - 1 = k + i
    BY <1>1, <2>1
  <2> HIDE DEF T, n
  <2>3. /\ SubSeq(s, m, n) \in Seq(T)
        /\ Len(SubSeq(s, m, n)) = IF m <= n THEN n - m + 1 ELSE 0
        /\ \A i \in 1 .. n - m + 1 : SubSeq(s, m, n)[i] = s[m + i - 1]
    BY <2>2, SubSeqProperties
  <2> DEFINE c == SubSeq(s, m, n)
  <2>4. c \in Seq(T) /\ Len(c) = l /\ \A i \in 1 .. l : c[i] = s[m + i - 1]
    BY <2>2, <2>3, Zenon
  <2>5. b = c
    BY <2>1
  <2> HIDE DEF c, b
  <2>6. b \in Seq(T) /\ Len(b) = n - k
    BY <2>1, <2>4, <2>5
  <2>7. \A i \in 1 .. l : b[i] = s[k + i]
    BY <2>2, <2>4, <2>5
  <2>8. QED
    BY <2>1, <2>6, <2>7
<1> HIDE DEF T, a, b, n
<1>4. Joined(a, b, a \o b)
  BY <1>2, <1>3, SeqIsSeq, ConcatJoins
<1>5. PICK r : r = RemoveAt(s, k)
  OBVIOUS
<1>6. r = a \o b
  BY <1>5 DEF RemoveAt, a, b, n
<1>7. Joined(a, b, r)
  BY <1>4, <1>6
<1>8. DOMAIN a = 1 .. k - 1 /\ DOMAIN b = 1 .. n - k
  BY <1>2, <1>3
<1>9. IsSeq(r) /\ DOMAIN r = 1 .. n - 1
  BY <1>1, <1>2, <1>3, <1>7 DEF Joined
<1>10. ASSUME NEW i \in DOMAIN r PROVE r[i] = IF i < k THEN s[i] ELSE s[i + 1]
  <2>1. CASE i < k
    BY <1>1, <1>2, <1>7, <1>8, <1>9, <2>1 DEF Joined
  <2>2. CASE ~(i < k)
    <3>1. i - (k - 1) \in 1 .. n - k /\ (k - 1) + (i - (k - 1)) = i /\ k + (i - (k - 1)) = i + 1
      BY <1>1, <1>9, <2>2
    <3>2. r[(k - 1) + (i - (k - 1))] = b[i - (k - 1)]
      BY <1>2, <1>7, <1>8, <3>1 DEF Joined
    <3>3. b[i - (k - 1)] = s[k + (i - (k - 1))]
      BY <1>3, <3>1
    <3>4. QED
      BY <2>2, <3>1, <3>2, <3>3
  <2>3. QED
    BY <2>1, <2>2
<1>11. QED
  BY <1>5, <1>9, <1>10 DEF n

\* A queue without one of its messages, which it holds once.
LEMMA QueueShrinks ==
  ASSUME NEW s, IsSeq(s), Distinct(s), NEW x
  PROVE  /\ IsSeq(RemoveFirst(s, x)) /\ Distinct(RemoveFirst(s, x))
         /\ \A y : Holds(RemoveFirst(s, x), y) <=> Holds(s, y) /\ y # x
<1>1. Len(s) \in Nat /\ DOMAIN s = 1 .. Len(s)
  BY DEF IsSeq
<1>2. CASE ~Holds(s, x)
  <2>1. RemoveFirst(s, x) = s
    BY <1>1, <1>2 DEF RemoveFirst, Holds
  <2>2. QED
    BY <1>2, <2>1 DEF Holds
<1>3. CASE Holds(s, x)
  <2>1. PICK k \in DOMAIN s : s[k] = x
    BY <1>3 DEF Holds
  <2>2. SelectInSeq(s, LAMBDA v : v = x) = k
    <3> DEFINE I == {i \in 1 .. Len(s) : s[i] = x}
    <3>1. I = {k} /\ k \in Int
      BY <1>1, <2>1 DEF Distinct
    <3> HIDE DEF I
    <3>2. Min(I) = k
      BY <3>1 DEF Min
    <3>3. SelectInSeq(s, LAMBDA v : v = x) = IF I # {} THEN Min(I) ELSE 0
      BY DEF SelectInSeq, I
    <3>4. QED
      BY <3>1, <3>2, <3>3
  <2>3. RemoveFirst(s, x) = RemoveAt(s, k)
    BY <1>1, <2>1, <2>2 DEF RemoveFirst
  <2>4. PICK r : r = RemoveFirst(s, x)
    OBVIOUS
  <2>5. /\ IsSeq(r) /\ DOMAIN r = 1 .. Len(s) - 1
        /\ \A i \in DOMAIN r : r[i] = IF i < k THEN s[i] ELSE s[i + 1]
    BY <2>3, <2>4, PlaceRemoved
  <2>6. k \in 1 .. Len(s)
    BY <1>1
  <2>7. ASSUME NEW i \in DOMAIN r
        PROVE  LET j == IF i < k THEN i ELSE i + 1 IN j \in DOMAIN s /\ j # k /\ r[i] = s[j]
    BY <1>1, <2>5, <2>6
  <2>8. Distinct(r)
    <3> SUFFICES ASSUME NEW i \in DOMAIN r, NEW j \in DOMAIN r, r[i] = r[j] PROVE i = j
      BY DEF Distinct
    <3> DEFINE i2 == IF i < k THEN i ELSE i + 1
               j2 == IF j < k THEN j ELSE j + 1
    <3>1. i2 \in DOMAIN s /\ r[i] = s[i2]
      BY <2>7, Zenon
    <3>2. j2 \in DOMAIN s /\ r[j] = s[j2]
      BY <2>7, Zenon
    <3>3. i2 = j2
      BY <3>1, <3>2 DEF Distinct
    <3>4. i \in Int /\ j \in Int /\ k \in Int
      BY <1>1, <2>5, <2>6
    <3>5. QED
      BY <3>3, <3>4
  <2>9. ASSUME NEW y, Holds(r, y) PROVE Holds(s, y) /\ y # x
    <3>1. PICK i \in DOMAIN r : r[i] = y
      BY <2>9 DEF Holds
    <3> DEFINE j == IF i < k THEN i ELSE i + 1
    <3>2. j \in DOMAIN s /\ j # k /\ r[i] = s[j]
      BY <2>7, Zenon
    <3> HIDE DEF j
    <3>3. QED
      BY <2>1, <3>1, <3>2 DEF Holds, Distinct
  <2>10. ASSUME NEW y, Holds(s, y), y # x PROVE Holds(r, y)
    <3>1. PICK j \in DOMAIN s : s[j] = y
      BY <2>10 DEF Holds
    <3>2. j # k /\ j \in 1 .. Len(s)
      BY <1>1, <2>1, <2>10, <3>1
    <3>3. CASE j < k
      BY <1>1, <2>5, <2>6, <3>1, <3>2, <3>3 DEF Holds
    <3>4. CASE j > k
      <4>1. j - 1 \in DOMAIN r /\ ~(j - 1 < k) /\ (j - 1) + 1 = j
        BY <1>1, <2>5, <2>6, <3>2, <3>4
      <4>2. r[j - 1] = s[(j - 1) + 1]
        BY <2>5, <4>1
      <4>3. QED
        BY <3>1, <4>1, <4>2 DEF Holds
    <3>5. QED
      BY <2>6, <3>2, <3>3, <3>4
  <2>11. QED
    BY <2>4, <2>5, <2>8, <2>9, <2>10
<1>4. QED
  BY <1>2, <1>3

------------------------------------------------------------------------------
(* From the sender to the queue.                                             *)

Senders ==
  [stage : {"idle", "send", "wait", "sent", "failed"}, attempt : Nat, next : Nat]

NodeTyped ==
  /\ store \in {"ram", "postgres"}
  /\ IsSeq(inbox)
  /\ wire \in [Mails -> SUBSET Nat]
  /\ senders \in [Mails -> Senders]
  /\ accepted \in [Mails -> Nat]
  /\ restarts \in Nat

\* A message whose sender has ended, and of which no query is under way.
Over(m) ==
  /\ senders[m].stage \in {"sent", "failed"}
  /\ wire[m] = {}
  /\ \A c \in Chunks : <<m, c>> \notin assembled

\* The memory store remembers what it queued, and forgets it when no query can
\* bring it back.
Remembered(m) ==
  /\ m \in seen => accepted[m] > 0
  /\ Holds(inbox, m) => m \in seen
  /\ senders[m].stage = "sent" => accepted[m] > 0
  /\ restarts = 0 => /\ accepted[m] <= 1
                     /\ m \notin seen /\ accepted[m] > 0 => Over(m)

NodeInv ==
  /\ NodeTyped
  /\ Distinct(inbox)
  /\ store = "ram" => \A m \in Mails : Remembered(m)

NodeVars == <<store, inbox, seen, wire, senders, accepted, restarts, assembled>>

LEMMA NodeStarts == DnsChatInit => NodeInv
<1> SUFFICES ASSUME DnsChatInit PROVE NodeInv
  OBVIOUS
<1>1. inbox \in [1 .. Cardinality(Waiting) -> Waiting] /\ IsInjective(inbox)
  <2>1. \E f \in [1 .. Cardinality(Waiting) -> Waiting] : IsInjective(f)
    BY WaitingAssumption, Enumeration
  <2>2. inbox = CHOOSE f \in [1 .. Cardinality(Waiting) -> Waiting] : IsInjective(f)
    BY DEF DnsChatInit, SetToSeq
  <2>3. QED
    BY <2>1, <2>2
<1>2. IsSeq(inbox) /\ Distinct(inbox)
  <2>1. Cardinality(Waiting) \in Nat /\ inbox = [i \in 1 .. Cardinality(Waiting) |-> inbox[i]]
    BY <1>1, WaitingAssumption, Enumeration
  <2>2. IsSeq(inbox)
    BY <2>1, IntervalIsSeq
  <2>3. Distinct(inbox)
    BY <1>1 DEF IsInjective, Distinct
  <2>4. QED
    BY <2>2, <2>3
<1>3. \A m : Holds(inbox, m) => m \in Waiting
  BY <1>1 DEF Holds
<1>4. NodeTyped
  <2>1. senders \in [Mails -> Senders]
    BY DEF DnsChatInit, Senders
  <2>2. wire \in [Mails -> SUBSET Nat] /\ accepted \in [Mails -> Nat]
    BY DEF DnsChatInit
  <2>3. QED
    BY <1>2, <2>1, <2>2 DEF NodeTyped, DnsChatInit
<1>5. \A m \in Mails : store = "ram" => Remembered(m)
  BY <1>3 DEF DnsChatInit, Remembered, Over
<1>6. QED
  BY <1>2, <1>4, <1>5 DEF NodeInv

\* What a sender makes of an answer: it takes only the last one's for success.
LEMMA HeardFacts ==
  ASSUME NodeTyped, NEW m \in Mails, NEW c \in Nat,
         NEW answer \in {"ok", "err", "none", "done", "dup"}
  PROVE  /\ Heard(m, c, answer) \in Senders
         /\ senders[m].stage # "wait" => Heard(m, c, answer) = senders[m]
         /\ Heard(m, c, answer).stage = "sent" =>
              senders[m].stage = "sent" \/ answer \in {"done", "dup"}
<1> DEFINE s == senders[m]
<1>1. s \in Senders
  BY DEF NodeTyped
<1>2. Attempt(s) \in Senders /\ Attempt(s).stage # "sent"
  BY <1>1, WaitingAssumption DEF Attempt, Senders
<1> DEFINE failing == [s EXCEPT !.stage = "failed"]
           succeeding == [s EXCEPT !.stage = "sent"]
           going == [s EXCEPT !.stage = "send", !.next = c + 1]
<1>3. failing \in Senders /\ failing.stage = "failed"
  BY <1>1 DEF Senders
<1>4. succeeding \in Senders
  BY <1>1 DEF Senders
<1>5. going \in Senders /\ going.stage = "send"
  <2>1. c + 1 \in Nat
    OBVIOUS
  <2>2. QED
    BY <1>1, <2>1 DEF Senders
<1>6. CASE s.stage # "wait" \/ s.next # c
  <2>1. Heard(m, c, answer) = s
    BY <1>6 DEF Heard
  <2>2. QED
    BY <1>1, <1>6, <2>1
<1>7. CASE s.stage = "wait" /\ s.next = c
  <2>1. CASE answer # "err" /\ c < LastChunk
    BY <1>5, <1>7, <2>1 DEF Heard
  <2>2. CASE answer \in {"done", "dup"} /\ ~(c < LastChunk)
    <3>1. Heard(m, c, answer) = succeeding
      BY <1>7, <2>2 DEF Heard
    <3>2. QED
      BY <1>4, <1>7, <2>2, <3>1
  <2>3. CASE answer = "ok" /\ ~(c < LastChunk)
    <3>1. Heard(m, c, answer) = Attempt(s)
      BY <1>7, <2>3 DEF Heard
    <3>2. QED
      BY <1>2, <1>7, <3>1
  <2>4. CASE answer = "err" \/ (answer = "none" /\ ~(c < LastChunk))
    <3>1. Heard(m, c, answer) = failing
      BY <1>7, <2>4 DEF Heard
    <3>2. QED
      BY <1>3, <1>7, <3>1
  <2>5. QED
    BY <2>1, <2>2, <2>3, <2>4
<1>8. QED
  BY <1>6, <1>7

\* A sender that goes on, and one that tries again or gives up.
LEMMA SendersKeep ==
  ASSUME NEW m \in Mails, NodeInv, SendChunk(m) \/ GiveUpAttempt(m) \/ Refuse(m)
  PROVE  NodeInv'
<1> DEFINE s == senders'[m]
<1>1. NodeTyped /\ senders[m] \in Senders /\ wire[m] \in SUBSET Nat
  BY DEF NodeInv, NodeTyped
<1>2. /\ senders[m].stage \in {"idle", "send", "wait"}
      /\ s \in Senders /\ s.stage # "sent"
      /\ senders' = [senders EXCEPT ![m] = s]
      /\ wire' \in [Mails -> SUBSET Nat]
      /\ \A n \in Mails \ {m} : wire'[n] = wire[n]
  <2>1. CASE SendChunk(m)
    <3>1. [senders[m] EXCEPT !.stage = "wait"] \in Senders /\ senders[m].next \in Nat
      BY <1>1 DEF Senders
    <3>2. senders' = [senders EXCEPT ![m] = [senders[m] EXCEPT !.stage = "wait"]]
      BY <2>1 DEF SendChunk
    <3>3. wire' = [wire EXCEPT ![m] = @ \union {senders[m].next}]
      BY <2>1 DEF SendChunk
    <3>4. s = [senders[m] EXCEPT !.stage = "wait"] /\ s.stage = "wait"
      BY <1>1, <3>2 DEF NodeTyped, Senders
    <3>5. wire' \in [Mails -> SUBSET Nat] /\ \A n \in Mails \ {m} : wire'[n] = wire[n]
      BY <1>1, <3>1, <3>3 DEF NodeTyped
    <3>6. QED
      BY <2>1, <3>1, <3>2, <3>4, <3>5 DEF SendChunk
  <2>2. CASE GiveUpAttempt(m) \/ Refuse(m)
    <3>1. wire' = wire /\ senders[m].stage = "wait"
      BY <2>2 DEF GiveUpAttempt, Refuse
    <3>2. PICK new : /\ new \in Senders /\ new.stage # "sent"
                     /\ senders' = [senders EXCEPT ![m] = new]
      <4>1. CASE GiveUpAttempt(m)
        <5>1. Attempt(senders[m]) \in Senders /\ Attempt(senders[m]).stage # "sent"
          BY <1>1, WaitingAssumption DEF Attempt, Senders
        <5>2. QED
          BY <4>1, <5>1 DEF GiveUpAttempt
      <4>2. CASE Refuse(m)
        <5>1. senders[m].next \in Nat
          BY <1>1 DEF Senders
        <5> DEFINE new == Heard(m, senders[m].next, "none")
        <5>2. new \in Senders /\ new.stage # "sent"
          BY <1>1, <3>1, <5>1, HeardFacts
        <5>3. senders' = [senders EXCEPT ![m] = new]
          BY <4>2 DEF Refuse
        <5>4. QED
          BY <5>2, <5>3
      <4>3. QED
        BY <2>2, <4>1, <4>2
    <3>3. s = new
      BY <1>1, <3>2 DEF NodeTyped
    <3>4. QED
      BY <1>1, <3>1, <3>2, <3>3 DEF NodeTyped
  <2>3. QED
    BY <2>1, <2>2
<1>3. UNCHANGED <<store, inbox, seen, accepted, restarts, assembled>>
  BY DEF SendChunk, GiveUpAttempt, Refuse
<1> HIDE DEF s
<1>4. senders' \in [Mails -> Senders] /\ senders'[m] = s /\ \A n \in Mails \ {m} : senders'[n] = senders[n]
  BY <1>1, <1>2 DEF NodeTyped
<1>5. NodeTyped'
  BY <1>1, <1>2, <1>3, <1>4 DEF NodeTyped
<1>6. ASSUME NEW n \in Mails, store = "ram" PROVE Remembered(n)'
  <2>1. Remembered(n)
    BY <1>6 DEF NodeInv
  <2>2. CASE n = m
    BY <1>2, <1>3, <1>4, <2>1, <2>2 DEF Remembered, Over
  <2>3. CASE n # m
    BY <1>2, <1>3, <1>4, <2>1, <2>3 DEF Remembered, Over
  <2>4. QED
    BY <2>2, <2>3
<1>7. QED
  BY <1>3, <1>5, <1>6 DEF NodeInv

\* What an answer leaves of the senders.
LEMMA AnswerFacts ==
  ASSUME NodeTyped, NEW m \in Mails, NEW c \in Chunks,
         NEW answer \in {"ok", "err", "none", "done", "dup"}, Answer(m, c, answer)
  PROVE  /\ senders' \in [Mails -> Senders]
         /\ \A n \in Mails : senders[n].stage # "wait" => senders'[n] = senders[n]
         /\ \A n \in Mails \ {m} : senders'[n] = senders[n]
         /\ senders'[m].stage = "sent" => senders[m].stage = "sent" \/ answer \in {"done", "dup"}
<1>1. c \in Nat
  BY WaitingAssumption DEF Chunks
<1>2. CASE UNCHANGED senders
  BY <1>2 DEF NodeTyped
<1>3. CASE senders' = [senders EXCEPT ![m] = Heard(m, c, answer)]
  <2> DEFINE new == Heard(m, c, answer)
  <2>1. /\ new \in Senders
        /\ senders[m].stage # "wait" => new = senders[m]
        /\ new.stage = "sent" => senders[m].stage = "sent" \/ answer \in {"done", "dup"}
    BY <1>1, HeardFacts
  <2> HIDE DEF new
  <2>2. senders' = [senders EXCEPT ![m] = new] /\ senders \in [Mails -> Senders]
    BY <1>3 DEF NodeTyped, new
  <2>3. QED
    BY <2>1, <2>2
<1>4. QED
  BY <1>2, <1>3 DEF Answer

\* A query arrives.
LEMMA DeliverKeeps ==
  ASSUME NEW m \in Mails, NEW c \in Chunks, NodeInv, Deliver(m, c)
  PROVE  NodeInv'
<1>1. NodeTyped /\ wire[m] # {}
  BY DEF NodeInv, Deliver
<1>2. /\ UNCHANGED <<store, inbox, seen, wire, accepted, restarts>>
      /\ assembled' = assembled \/ assembled' = assembled \union {<<m, c>>}
      /\ UNCHANGED senders \/ Answer(m, c, "ok") \/ Answer(m, c, "err")
  BY DEF Deliver, RamPutChunk, PgPutChunk
<1>3. /\ senders' \in [Mails -> Senders]
      /\ \A n \in Mails : senders[n].stage # "wait" => senders'[n] = senders[n]
      /\ \A n \in Mails \ {m} : senders'[n] = senders[n]
      /\ senders'[m].stage = "sent" => senders[m].stage = "sent"
  <2>1. CASE UNCHANGED senders
    BY <1>1, <2>1 DEF NodeTyped
  <2>2. CASE Answer(m, c, "ok")
    BY <1>1, <2>2, AnswerFacts
  <2>3. CASE Answer(m, c, "err")
    BY <1>1, <2>3, AnswerFacts
  <2>4. QED
    BY <1>2, <2>1, <2>2, <2>3
<1>4. NodeTyped'
  BY <1>1, <1>2, <1>3 DEF NodeTyped
<1>5. ASSUME NEW n \in Mails, store = "ram" PROVE Remembered(n)'
  <2>1. Remembered(n)
    BY <1>5 DEF NodeInv
  <2>2. Over(n) => Over(n)'
    BY <1>1, <1>2, <1>3 DEF Over
  <2>3. senders'[n].stage = "sent" => senders[n].stage = "sent"
    BY <1>3
  <2>4. QED
    BY <1>2, <2>1, <2>2, <2>3 DEF Remembered
<1>6. QED
  BY <1>2, <1>4, <1>5 DEF NodeInv

\* A message that is put together is queued, unless it was before.
LEMMA EnqueueKeeps ==
  ASSUME NEW m \in Mails, NEW c \in Chunks, NodeInv, Enqueue(m, c)
  PROVE  NodeInv'
<1> DEFINE new == inbox' # inbox
<1>1. NodeTyped /\ IsSeq(inbox) /\ Distinct(inbox)
  BY DEF NodeInv, NodeTyped
<1>2. /\ <<m, c>> \in assembled /\ assembled' \subseteq assembled
      /\ UNCHANGED <<store, wire, restarts>>
      /\ accepted' = [accepted EXCEPT ![m] = IF new /\ @ < 2 THEN @ + 1 ELSE @]
      /\ Answer(m, c, IF new THEN "done" ELSE "dup")
  BY DEF Enqueue
<1>3. /\ senders' \in [Mails -> Senders]
      /\ \A n \in Mails : senders[n].stage # "wait" => senders'[n] = senders[n]
      /\ \A n \in Mails \ {m} : senders'[n] = senders[n]
  BY <1>1, <1>2, AnswerFacts
<1>4. /\ accepted' \in [Mails -> Nat]
      /\ accepted'[m] = IF new /\ accepted[m] < 2 THEN accepted[m] + 1 ELSE accepted[m]
      /\ \A n \in Mails \ {m} : accepted'[n] = accepted[n]
  BY <1>1, <1>2 DEF NodeTyped
<1>5. accepted[m] \in Nat
  BY <1>1 DEF NodeTyped
<1>6. CASE store = "ram" /\ m \notin seen
  <2>1. inbox' = Append(inbox, m) /\ seen' = seen \union {m}
    BY <1>6 DEF Enqueue, RamEnqueue
  <2>2. Remembered(m)
    BY <1>6 DEF NodeInv
  <2>3. ~Holds(inbox, m) /\ (restarts = 0 => accepted[m] = 0)
    BY <1>2, <1>5, <1>6, <2>2 DEF Remembered, Over
  <2>4. /\ IsSeq(inbox') /\ Distinct(inbox') /\ new
        /\ \A n : Holds(inbox', n) <=> Holds(inbox, n) \/ n = m
    BY <1>1, <2>1, <2>3, QueueGrows
  <2>5. NodeTyped'
    BY <1>1, <1>2, <1>3, <1>4, <2>4 DEF NodeTyped
  <2>6. accepted'[m] > 0 /\ (restarts = 0 => accepted'[m] <= 1)
    BY <1>4, <1>5, <2>3, <2>4
  <2>7. ASSUME NEW n \in Mails PROVE Remembered(n)'
    <3>1. Remembered(n)
      BY <1>6 DEF NodeInv
    <3>2. Over(n) => Over(n)'
      BY <1>2, <1>3 DEF Over
    <3>3. CASE n = m
      BY <1>2, <2>1, <2>6, <3>3 DEF Remembered
    <3>4. CASE n # m
      BY <1>2, <1>3, <1>4, <2>1, <2>4, <3>1, <3>2, <3>4 DEF Remembered
    <3>5. QED
      BY <3>3, <3>4
  <2>8. QED
    BY <2>4, <2>5, <2>7 DEF NodeInv
<1>7. CASE store = "ram" /\ m \in seen
  <2>1. inbox' = inbox /\ seen' = seen
    BY <1>7 DEF Enqueue, RamEnqueue
  <2>2. accepted' = accepted
    BY <1>1, <1>2, <2>1 DEF NodeTyped
  <2>3. NodeTyped'
    BY <1>1, <1>2, <1>3, <2>1, <2>2 DEF NodeTyped
  <2>4. ASSUME NEW n \in Mails PROVE Remembered(n)'
    <3>1. Remembered(n) /\ Remembered(m)
      BY <1>7 DEF NodeInv
    <3>2. Over(n) => Over(n)'
      BY <1>2, <1>3 DEF Over
    <3>3. QED
      BY <1>2, <1>3, <1>7, <2>1, <2>2, <3>1, <3>2 DEF Remembered
  <2>5. QED
    BY <1>1, <2>1, <2>3, <2>4 DEF NodeInv
<1>8. CASE store # "ram"
  <2>1. inbox' = inbox \/ (~Holds(inbox, m) /\ inbox' = Append(inbox, m))
    BY <1>8 DEF Enqueue, PgEnqueue, Queued, Holds
  <2>2. IsSeq(inbox') /\ Distinct(inbox')
    <3>1. IsSeq(Append(inbox, m)) /\ (~Holds(inbox, m) => Distinct(Append(inbox, m)))
      BY <1>1, QueueGrows
    <3>2. CASE inbox' = inbox
      BY <1>1, <3>2
    <3>3. CASE ~Holds(inbox, m) /\ inbox' = Append(inbox, m)
      BY <3>1, <3>3
    <3>4. QED
      BY <2>1, <3>2, <3>3
  <2>3. NodeTyped'
    BY <1>1, <1>2, <1>3, <1>4, <2>2 DEF NodeTyped
  <2>4. QED
    BY <1>2, <1>8, <2>2, <2>3 DEF NodeInv
<1>9. QED
  BY <1>6, <1>7, <1>8

\* A message is acknowledged, or its day is over.
LEMMA AckKeeps ==
  ASSUME NEW p \in Pollers, NodeInv, Ack(p)
  PROVE  NodeInv'
<1> DEFINE x == pollers[p].mail
<1>1. NodeTyped /\ IsSeq(inbox) /\ Distinct(inbox)
  BY DEF NodeInv, NodeTyped
<1>2. /\ inbox' = inbox \/ inbox' = RemoveFirst(inbox, x)
      /\ UNCHANGED <<store, seen, wire, senders, accepted, restarts, assembled>>
  BY DEF Ack, senderVars
<1>3. /\ IsSeq(inbox') /\ Distinct(inbox')
      /\ \A n : Holds(inbox', n) => Holds(inbox, n)
  <2> HIDE DEF x
  <2>1. /\ IsSeq(RemoveFirst(inbox, x)) /\ Distinct(RemoveFirst(inbox, x))
        /\ \A y : Holds(RemoveFirst(inbox, x), y) <=> Holds(inbox, y) /\ y # x
    BY <1>1, QueueShrinks
  <2>2. CASE inbox' = inbox
    BY <1>1, <2>2
  <2>3. CASE inbox' = RemoveFirst(inbox, x)
    BY <2>1, <2>3
  <2>4. QED
    BY <1>2, <2>2, <2>3
<1>4. NodeTyped'
  BY <1>1, <1>2, <1>3 DEF NodeTyped
<1>5. ASSUME NEW n \in Mails, store = "ram" PROVE Remembered(n)'
  BY <1>2, <1>3, <1>5 DEF NodeInv, Remembered, Over
<1>6. QED
  BY <1>2, <1>3, <1>4, <1>5 DEF NodeInv

LEMMA SweepKeeps ==
  ASSUME NEW m \in Mails, NodeInv, SweepMail(m)
  PROVE  NodeInv'
<1>1. NodeTyped /\ IsSeq(inbox) /\ Distinct(inbox)
  BY DEF NodeInv, NodeTyped
<1>2. /\ senders[m].stage \in {"sent", "failed"}
      /\ inbox' = RemoveFirst(inbox, m) /\ seen' = seen \ {m}
      /\ wire' = [wire EXCEPT ![m] = {}]
      /\ assembled' = {q \in assembled : q[1] # m}
      /\ UNCHANGED <<store, senders, accepted, restarts>>
  BY DEF SweepMail
<1>3. /\ IsSeq(inbox') /\ Distinct(inbox')
      /\ \A n : Holds(inbox', n) <=> Holds(inbox, n) /\ n # m
  BY <1>1, <1>2, QueueShrinks
<1>4. /\ wire' \in [Mails -> SUBSET Nat] /\ wire'[m] = {}
      /\ \A n \in Mails \ {m} : wire'[n] = wire[n]
      /\ \A n, c : <<n, c>> \in assembled' <=> <<n, c>> \in assembled /\ n # m
  BY <1>1, <1>2 DEF NodeTyped
<1>5. NodeTyped'
  BY <1>1, <1>2, <1>3, <1>4 DEF NodeTyped
<1>6. ASSUME NEW n \in Mails, store = "ram" PROVE Remembered(n)'
  <2>1. Remembered(n)
    BY <1>6 DEF NodeInv
  <2>2. CASE n = m
    <3>1. Over(m)'
      BY <1>2, <1>4 DEF Over
    <3>2. QED
      BY <1>2, <1>3, <2>1, <2>2, <3>1 DEF Remembered
  <2>3. CASE n # m
    <3>1. Over(n) => Over(n)'
      BY <1>2, <1>4, <2>3 DEF Over
    <3>2. QED
      BY <1>2, <1>3, <2>1, <2>3, <3>1 DEF Remembered
  <2>4. QED
    BY <2>2, <2>3
<1>7. QED
  BY <1>2, <1>3, <1>5, <1>6 DEF NodeInv

\* The memory of a node that restarts is empty.
LEMMA RestartKeeps == NodeInv /\ RestartNode => NodeInv'
<1> SUFFICES ASSUME NodeInv, RestartNode PROVE NodeInv'
  OBVIOUS
<1>1. NodeTyped /\ restarts' = restarts + 1 /\ UNCHANGED <<store, wire, senders, accepted>>
  BY DEF NodeInv, RestartNode, senderVars
<1>2. restarts' \in Nat /\ restarts' # 0
  BY <1>1 DEF NodeTyped
<1>3. CASE store = "ram"
  <2>1. inbox' = <<>> /\ seen' = {}
    BY <1>3 DEF RestartNode
  <2>2. IsSeq(inbox') /\ Distinct(inbox') /\ \A n : ~Holds(inbox', n)
    BY <2>1 DEF IsSeq, Distinct, Holds
  <2>3. NodeTyped'
    BY <1>1, <1>2, <2>2 DEF NodeTyped
  <2>4. ASSUME NEW n \in Mails PROVE Remembered(n)'
    BY <1>1, <1>2, <1>3, <2>1, <2>2 DEF NodeInv, Remembered
  <2>5. QED
    BY <2>2, <2>3, <2>4 DEF NodeInv
<1>4. CASE store # "ram"
  <2>1. UNCHANGED <<inbox, seen>>
    BY <1>4 DEF RestartNode
  <2>2. NodeTyped'
    BY <1>1, <1>2, <2>1 DEF NodeTyped
  <2>3. QED
    BY <1>1, <1>4, <2>1, <2>2 DEF NodeInv
<1>5. QED
  BY <1>3, <1>4

\* The node, whatever part of the messenger a behaviour is about.
LEMMA NodeKeeps == NodeInv /\ [ChatNext]_chatVars => NodeInv'
<1> SUFFICES ASSUME NodeInv, [ChatNext]_chatVars PROVE NodeInv'
  OBVIOUS
<1>1. CASE UNCHANGED NodeVars
  BY <1>1 DEF NodeVars, NodeInv, NodeTyped, Distinct, Holds, Remembered, Over
<1>2. CASE DnsChatNext
  <2>1. ASSUME NEW m \in Mails, SendChunk(m) \/ GiveUpAttempt(m) \/ Refuse(m) PROVE NodeInv'
    BY <2>1, SendersKeep
  <2>2. ASSUME NEW m \in Mails, NEW c \in Chunks, Deliver(m, c) PROVE NodeInv'
    BY <2>2, DeliverKeeps
  <2>3. ASSUME NEW m \in Mails, NEW c \in Chunks, Enqueue(m, c) PROVE NodeInv'
    BY <2>3, EnqueueKeeps
  <2>4. ASSUME NEW m \in Mails, SweepMail(m) PROVE NodeInv'
    BY <2>4, SweepKeeps
  <2>5. ASSUME NEW m \in Mails, NEW S, SweepUpload(m, S) PROVE NodeInv'
    BY <1>1, <2>5 DEF SweepUpload, NodeVars, senderVars
  <2>6. ASSUME NEW p \in Pollers, Ack(p) PROVE NodeInv'
    BY <2>6, AckKeeps
  <2>7. ASSUME NEW p \in Pollers, StartPoll(p) \/ PollFrame(p) \/ PollReturns(p) \/ PollThrows(p)
        PROVE  NodeInv'
    BY <1>1, <2>7 DEF StartPoll, PollFrame, PollReturns, PollThrows, NodeVars, senderVars
  <2>8. CASE Register
    BY <1>1, <2>8 DEF Register, NodeVars, senderVars
  <2>9. CASE RestartNode
    BY <2>9, RestartKeeps
  <2>10. QED
    BY <1>2, <2>1, <2>2, <2>3, <2>4, <2>5, <2>6, <2>7, <2>8, <2>9 DEF DnsChatNext
<1>3. QED
  BY <1>1, <1>2 DEF ChatNext, Carrying, Sealing, Limiting, chatVars, dnsChatVars, senderVars, NodeVars

\* Retries, repeated queries and concurrent completions (SentOnce): a message is queued
\* once at a time, by the memory store once at all until it restarts, and a send that
\* the memory store confirms was queued.
THEOREM MessagesAreQueuedOnce == ChatSpec => []SentOnce
<1>1. ChatInit => NodeInv
  BY NodeStarts DEF ChatInit
<1>2. NodeInv => SentOnce
  BY DEF NodeInv, Distinct, Remembered, SentOnce, QueuedOnce, SentWasQueued
<1>3. QED
  BY <1>1, <1>2, NodeKeeps, PTL DEF ChatSpec

------------------------------------------------------------------------------
(* The sessions.  A root key is the sequence of what went into it, and every *)
(* turn of the ratchet makes it two longer: the roots of the chains of one   *)
(* party's messages have odd lengths, those of the other's have even ones,   *)
(* and a new chain has a root that no earlier one had.                       *)

Fields == {"on", "DHs", "DHr", "RK", "CKs", "CKr", "Nr", "PN", "Skipped"}

Parity(p) == IF p = "alice" THEN 1 ELSE 0

IsKey(x) == x = <<x[1], x[2]>> /\ IsSeq(x[1]) /\ Len(x[1]) > 0 /\ x[2] \in Nat
IsChain(c) == c = [root |-> c.root, n |-> c.n] /\ c.n \in Nat

\* x is a key of the messages that the session receives, and its chains have passed it.
Passed(s, a, x) ==
  /\ IsKey(x) /\ Len(x[1]) % 2 = 1 - a
  /\ Len(x[1]) < Len(s.RK)
  /\ x[1] = s.CKr.root => x[2] < s.CKr.n

\* The session of a party, and nothing in it yields x again.
Spent(s, a, x) == Passed(s, a, x) /\ \A k \in s.Skipped : k.mk # x

\* x is a key of a message that the session has sent.
Used(s, a, x) ==
  /\ IsKey(x) /\ Len(x[1]) % 2 = a
  /\ Len(x[1]) <= Len(s.RK)
  /\ x[1] = s.CKs.root => x[2] < s.CKs.n

SessionOk(s, a) ==
  /\ DOMAIN s = Fields
  /\ IsSeq(s.RK) /\ Len(s.RK) % 2 = a
  /\ ~s.on => Len(s.RK) = 0
  /\ s.Nr \in Nat /\ s.PN \in Nat
  /\ IsChain(s.CKs) /\ (s.CKs.root = Nothing \/ (s.CKs.root = s.RK /\ Len(s.RK) > 0))
  /\ IsChain(s.CKr)
  /\ \/ s.CKr.root = Nothing
     \/ IsSeq(s.CKr.root) /\ Len(s.CKr.root) > 0 /\ Len(s.CKr.root) + 1 = Len(s.RK)
  /\ IsFiniteSet(s.Skipped)
  /\ \A k \in s.Skipped : Passed(s, a, k.mk)
  /\ \A k, l \in s.Skipped : k.mk = l.mk => k = l

LEMMA Parities ==
  /\ \A p \in Parties : Parity(p) \in {0, 1} /\ Peer(p) \in Parties /\ Peer(Peer(p)) = p
                       /\ Parity(Peer(p)) = 1 - Parity(p)
  /\ \A n \in Nat : (n + 1) % 2 = 1 - (n % 2) /\ (n + 2) % 2 = n % 2 /\ n % 2 \in {0, 1}
<1>1. \A p \in Parties : Parity(p) \in {0, 1} /\ Peer(p) \in Parties /\ Peer(Peer(p)) = p
                       /\ Parity(Peer(p)) = 1 - Parity(p)
  BY DEF Parties, Parity, Peer
<1>2. \A n \in Nat : (n + 1) % 2 = 1 - (n % 2) /\ (n + 2) % 2 = n % 2 /\ n % 2 \in {0, 1}
  BY SMTT(30)
<1>3. QED
  BY <1>1, <1>2

LEMMA RootGrows ==
  ASSUME NEW s, IsSeq(s), NEW x
  PROVE  IsSeq(kdfRK(s, x)) /\ Len(kdfRK(s, x)) = Len(s) + 1
<1> DEFINE S == {s[i] : i \in 1 .. Len(s)} \union {x}
<1>1. s \in Seq(S) /\ x \in S
  <2>1. s \in [1 .. Len(s) -> S]
    BY DEF IsSeq
  <2>2. QED
    BY <2>1 DEF IsSeq
<1> HIDE DEF S
<1>2. Len(Append(s, x)) = Len(s) + 1
  BY <1>1, AppendProperties
<1>3. IsSeq(Append(s, x))
  BY AppendFacts
<1>4. QED
  BY <1>2, <1>3 DEF kdfRK

\* The keys that are skipped are new, and the chain has passed them.
LEMMA SkippingKeeps ==
  ASSUME NEW s, NEW a \in {0, 1}, SessionOk(s, a), NEW until \in Nat
  PROVE  LET t == SkipMessageKeys(s, until).s
         IN  /\ SessionOk(t, a)
             /\ t.RK = s.RK /\ t.CKs = s.CKs /\ t.on = s.on
             /\ \A x : Spent(s, a, x) => Spent(t, a, x)
<1> DEFINE room == MaxSkip + 1 - Cardinality(s.Skipped)
           stored == IF until - s.Nr < room THEN until - s.Nr ELSE IF room > 1 THEN room ELSE 1
           keys == {[DH |-> s.DHr, N |-> s.Nr + i, mk |-> <<s.CKr.root, s.CKr.n + i>>] : i \in 0 .. stored - 1}
           longer == [s EXCEPT !.Skipped = @ \union keys, !.Nr = @ + stored, !.CKr.n = @ + stored]
<1>1. CASE SkipMessageKeys(s, until).s = s
  BY <1>1
<1>2. CASE Established(s.CKr) /\ until > s.Nr /\ SkipMessageKeys(s, until).s = longer
  <2>1. stored \in Nat
    <3>1. room \in Int
      <4>1. Cardinality(s.Skipped) \in Nat
        BY FS_CardinalityType DEF SessionOk
      <4>2. QED
        BY <4>1, SkipAssumption
    <3>2. s.Nr \in Nat
      BY DEF SessionOk
    <3> HIDE DEF room
    <3>3. QED
      BY <1>2, <3>1, <3>2
  <2>2. IsFiniteSet(keys)
    <3> HIDE DEF stored
    <3>1. IsFiniteSet(0 .. stored - 1)
      BY <2>1, FS_Interval
    <3> DEFINE S == 0 .. stored - 1
               key(i) == [DH |-> s.DHr, N |-> s.Nr + i, mk |-> <<s.CKr.root, s.CKr.n + i>>]
               f == [i \in S |-> key(i)]
    <3>2. f \in Surjection(S, keys)
      BY DEF Surjection
    <3>3. QED
      BY <3>1, <3>2, FS_Surjection
  <2> HIDE DEF stored
  <2>3. PICK t : t = longer
    OBVIOUS
  <2>4. /\ DOMAIN s = Fields /\ s.CKr = [root |-> s.CKr.root, n |-> s.CKr.n]
        /\ s.CKr.n \in Nat /\ s.Nr \in Nat
    BY DEF SessionOk, IsChain
  <2>5. /\ DOMAIN t = Fields /\ t.RK = s.RK /\ t.CKs = s.CKs /\ t.on = s.on /\ t.PN = s.PN
        /\ t.Skipped = s.Skipped \union keys /\ t.Nr = s.Nr + stored
        /\ t.CKr = [root |-> s.CKr.root, n |-> s.CKr.n + stored]
    <3> HIDE DEF keys
    <3>1. [s.CKr EXCEPT !.n = @ + stored] = [root |-> s.CKr.root, n |-> s.CKr.n + stored]
      BY <2>4
    <3>2. QED
      BY <2>3, <2>4, <3>1 DEF Fields
  <2>6. /\ t.CKr.root = s.CKr.root /\ t.CKr.n = s.CKr.n + stored /\ IsChain(t.CKr)
        /\ t.Nr \in Nat
    BY <2>1, <2>4, <2>5 DEF IsChain
  <2>7. ASSUME NEW k \in keys
        PROVE  k.mk[1] = s.CKr.root /\ k.mk[2] >= s.CKr.n /\ Passed(t, a, k.mk)
    <3>1. PICK i \in 0 .. stored - 1 : k = [DH |-> s.DHr, N |-> s.Nr + i, mk |-> <<s.CKr.root, s.CKr.n + i>>]
      OBVIOUS
    <3>2. i \in Nat /\ i < stored
      BY <2>1
    <3>3. k.mk = <<s.CKr.root, s.CKr.n + i>>
      BY <3>1
    <3>4. /\ IsSeq(s.CKr.root) /\ Len(s.CKr.root) > 0 /\ Len(s.CKr.root) + 1 = Len(s.RK)
          /\ Len(s.RK) % 2 = a /\ Len(s.CKr.root) \in Nat
      BY <1>2 DEF SessionOk, Established, IsSeq
    <3>5. Len(s.CKr.root) % 2 = 1 - a /\ Len(s.CKr.root) < Len(s.RK)
      <4>1. PICK n \in Nat : n = Len(s.CKr.root)
        BY <3>4
      <4>2. (n + 1) % 2 = 1 - (n % 2) /\ n % 2 \in {0, 1}
        BY Parities
      <4>3. (n + 1) % 2 = a
        BY <3>4, <4>1
      <4>4. n % 2 = 1 - a
        <5>1. PICK r \in {0, 1} : r = n % 2
          BY <4>2
        <5>2. a = 1 - r
          BY <4>2, <4>3, <5>1
        <5>3. r = 1 - a
          BY <5>2
        <5>4. QED
          BY <5>1, <5>3
      <4>5. Len(s.CKr.root) % 2 = 1 - a
        BY <4>1, <4>4, Zenon
      <4>6. Len(s.CKr.root) < Len(s.RK)
        BY <3>4
      <4>7. QED
        BY <4>5, <4>6
    <3>6. s.CKr.n + i \in Nat /\ s.CKr.n + i < s.CKr.n + stored /\ s.CKr.n + i >= s.CKr.n
      BY <2>1, <2>4, <3>2
    <3> HIDE DEF keys
    <3>7. PICK x : x = k.mk
      OBVIOUS
    <3>8. x = <<s.CKr.root, s.CKr.n + i>> /\ x[1] = s.CKr.root /\ x[2] = s.CKr.n + i
      BY <3>3, <3>7
    <3>9. IsKey(x)
      BY <3>4, <3>6, <3>8 DEF IsKey
    <3>10. Passed(t, a, x)
      BY <2>5, <2>6, <3>5, <3>6, <3>8, <3>9 DEF Passed
    <3>11. QED
      BY <3>6, <3>7, <3>8, <3>10
  <2>8. \A k, l \in keys : k.mk = l.mk => k = l
    <3> SUFFICES ASSUME NEW k \in keys, NEW l \in keys, k.mk = l.mk PROVE k = l
      OBVIOUS
    <3>1. PICK i \in 0 .. stored - 1 : k = [DH |-> s.DHr, N |-> s.Nr + i, mk |-> <<s.CKr.root, s.CKr.n + i>>]
      OBVIOUS
    <3>2. PICK j \in 0 .. stored - 1 : l = [DH |-> s.DHr, N |-> s.Nr + j, mk |-> <<s.CKr.root, s.CKr.n + j>>]
      OBVIOUS
    <3>3. s.CKr.n + i = s.CKr.n + j
      BY <3>1, <3>2
    <3>4. i = j
      BY <2>1, <2>4, <3>3
    <3>5. QED
      BY <3>1, <3>2, <3>4
  <2> HIDE DEF keys, longer
  <2>9. ASSUME NEW x, Passed(s, a, x)
        PROVE  Passed(t, a, x) /\ \A k \in keys : k.mk # x
    <3>1. x[2] \in Nat /\ (x[1] = s.CKr.root => x[2] < s.CKr.n)
      BY <2>9 DEF Passed, IsKey
    <3>2. Passed(t, a, x)
      <4>1. x[1] = t.CKr.root => x[2] < t.CKr.n
        BY <2>1, <2>4, <2>6, <3>1
      <4>2. QED
        BY <2>5, <2>9, <4>1 DEF Passed
    <3>3. ASSUME NEW k \in keys PROVE k.mk # x
      <4>1. k.mk[1] = s.CKr.root /\ k.mk[2] >= s.CKr.n
        BY <2>7
      <4>2. QED
        BY <2>4, <3>1, <4>1
    <3>4. QED
      BY <3>2, <3>3
  <2>10. ASSUME NEW x, Spent(s, a, x) PROVE Spent(t, a, x)
    BY <2>5, <2>9, <2>10 DEF Spent
  <2>11. \A k \in t.Skipped : Passed(t, a, k.mk)
    BY <2>5, <2>7, <2>9 DEF SessionOk
  <2>12. \A k, l \in t.Skipped : k.mk = l.mk => k = l
    <3>1. \A k \in s.Skipped, l \in keys : k.mk # l.mk
      BY <2>9 DEF SessionOk
    <3>2. \A k, l \in s.Skipped : k.mk = l.mk => k = l
      BY DEF SessionOk
    <3>3. QED
      BY <2>5, <2>8, <3>1, <3>2
  <2>13. IsFiniteSet(t.Skipped)
    <3>1. IsFiniteSet(s.Skipped)
      BY DEF SessionOk
    <3>2. IsFiniteSet(s.Skipped \union keys)
      BY <2>2, <3>1, FS_Union
    <3>3. QED
      BY <2>5, <3>2
  <2>14. SessionOk(t, a)
    BY <2>5, <2>6, <2>11, <2>12, <2>13 DEF SessionOk
  <2>15. QED
    BY <1>2, <2>3, <2>5, <2>10, <2>14
<1>3. QED
  <2>1. s.Nr \in Nat
    BY DEF SessionOk
  <2>2. CASE ~Established(s.CKr) \/ until = s.Nr
    <3>1. SkipMessageKeys(s, until).s = s
      BY <2>2 DEF SkipMessageKeys
    <3>2. QED
      BY <1>1, <3>1
  <2>3. CASE Established(s.CKr) /\ until # s.Nr /\ (until < s.Nr \/ until - s.Nr > MaxSkip)
    <3>1. SkipMessageKeys(s, until).s = s
      BY <2>3 DEF SkipMessageKeys
    <3>2. QED
      BY <1>1, <3>1
  <2>4. CASE Established(s.CKr) /\ until # s.Nr /\ ~(until < s.Nr \/ until - s.Nr > MaxSkip)
    <3>1. SkipMessageKeys(s, until).s = longer
      BY <2>4 DEF SkipMessageKeys
    <3>2. until > s.Nr
      BY <2>1, <2>4
    <3>3. QED
      BY <1>2, <2>4, <3>1, <3>2
  <2>5. QED
    BY <2>2, <2>3, <2>4

\* The session t comes after s: what s has spent and used, t has.
Follows(s, t, a) ==
  /\ SessionOk(t, a) /\ (s.on => t.on)
  /\ \A x : (Spent(s, a, x) => Spent(t, a, x)) /\ (Used(s, a, x) => Used(t, a, x))

\* A turn of the ratchet: both chains are new, and no earlier key is one of theirs.
LEMMA TurningKeeps ==
  ASSUME NEW s, NEW a \in {0, 1}, SessionOk(s, a), s.on, NEW theirs, NEW fresh
  PROVE  Follows(s, DhRatchet(s, theirs, fresh), a)
<1> DEFINE root == kdfRK(s.RK, DH(s.DHs, theirs))
           next == kdfRK(root, DH(fresh, theirs))
<1>1. PICK t : t = DhRatchet(s, theirs, fresh)
  OBVIOUS
<1>2. /\ DOMAIN s = Fields /\ IsSeq(s.RK) /\ Len(s.RK) % 2 = a
      /\ s.CKs.n \in Nat
  BY DEF SessionOk, IsChain
<1>3. PICK n \in Nat : n = Len(s.RK)
  BY <1>2 DEF IsSeq
<1>4. /\ IsSeq(root) /\ Len(root) = n + 1
      /\ IsSeq(next) /\ Len(next) = n + 2
  <2>1. IsSeq(root) /\ Len(root) = n + 1
    BY <1>2, <1>3, RootGrows
  <2> HIDE DEF root
  <2>2. IsSeq(next) /\ Len(next) = (n + 1) + 1
    BY <2>1, RootGrows
  <2>3. QED
    BY <2>1, <2>2
<1>5. t = [s EXCEPT !.PN = s.CKs.n, !.Nr = 0, !.DHr = theirs, !.DHs = fresh, !.RK = next,
                    !.CKr = Chain(root), !.CKs = Chain(next)]
  BY <1>1 DEF DhRatchet
<1> HIDE DEF root, next
<1>6. /\ DOMAIN t = Fields /\ t.on = s.on /\ t.Skipped = s.Skipped
      /\ t.PN = s.CKs.n /\ t.Nr = 0 /\ t.RK = next /\ t.CKr = Chain(root) /\ t.CKs = Chain(next)
  BY <1>2, <1>5 DEF Fields
<1>7. /\ t.CKr.root = root /\ t.CKr.n = 0 /\ IsChain(t.CKr)
      /\ t.CKs.root = next /\ t.CKs.n = 0 /\ IsChain(t.CKs)
  BY <1>6 DEF Chain, IsChain
<1>8. Len(t.RK) % 2 = a /\ Len(t.RK) = n + 2
  <2>1. (n + 2) % 2 = n % 2
    BY Parities
  <2>2. n % 2 = a
    BY <1>2, <1>3
  <2>3. QED
    BY <1>4, <1>6, <2>1, <2>2, Zenon
<1>9. ASSUME NEW x, Passed(s, a, x) PROVE Passed(t, a, x)
  <2>1. Len(x[1]) \in Nat /\ Len(x[1]) < n
    BY <1>3, <1>9 DEF Passed, IsKey, IsSeq
  <2>2. x[1] # t.CKr.root /\ Len(x[1]) < Len(t.RK)
    BY <1>4, <1>7, <1>8, <2>1
  <2>3. QED
    BY <1>9, <2>2 DEF Passed
<1>10. ASSUME NEW x, Spent(s, a, x) PROVE Spent(t, a, x)
  BY <1>6, <1>9, <1>10 DEF Spent
<1>11. ASSUME NEW x, Used(s, a, x) PROVE Used(t, a, x)
  <2>1. Len(x[1]) \in Nat /\ Len(x[1]) <= n
    BY <1>3, <1>11 DEF Used, IsKey, IsSeq
  <2>2. x[1] # t.CKs.root /\ Len(x[1]) <= Len(t.RK)
    BY <1>4, <1>7, <1>8, <2>1
  <2>3. QED
    BY <1>11, <2>2 DEF Used
<1>12. SessionOk(t, a)
  <2>1. /\ IsFiniteSet(t.Skipped) /\ \A k \in t.Skipped : Passed(t, a, k.mk)
        /\ \A k, l \in t.Skipped : k.mk = l.mk => k = l
    BY <1>6, <1>9 DEF SessionOk
  <2>2. /\ Len(root) > 0 /\ Len(root) + 1 = Len(t.RK) /\ Len(t.RK) > 0
        /\ t.Nr \in Nat /\ t.PN \in Nat /\ t.on
    BY <1>2, <1>4, <1>6, <1>8
  <2>3. QED
    BY <1>4, <1>6, <1>7, <1>8, <2>1, <2>2 DEF SessionOk
<1>13. QED
  BY <1>1, <1>6, <1>10, <1>11, <1>12 DEF Follows

\* Skipping, in the same words.
LEMMA SkippingFollows ==
  ASSUME NEW s, NEW a \in {0, 1}, SessionOk(s, a), NEW until \in Nat
  PROVE  Follows(s, SkipMessageKeys(s, until).s, a)
<1>1. PICK t : t = SkipMessageKeys(s, until).s
  OBVIOUS
<1>2. /\ SessionOk(t, a) /\ t.RK = s.RK /\ t.CKs = s.CKs /\ t.on = s.on
      /\ \A x : Spent(s, a, x) => Spent(t, a, x)
  BY <1>1, SkippingKeeps
<1>3. \A x : Used(s, a, x) => Used(t, a, x)
  BY <1>2 DEF Used
<1>4. QED
  BY <1>1, <1>2, <1>3 DEF Follows

\* The key of a message that is opened was not spent before, and is after.
LEMMA DecryptionSpends ==
  ASSUME NEW s, NEW a \in {0, 1}, SessionOk(s, a), s.on, NEW msg, NEW fresh,
         msg.N \in Nat, msg.PN \in Nat, IsKey(msg.mk), Len(msg.mk[1]) % 2 = 1 - a
  PROVE  /\ Follows(s, Decrypt(s, msg, fresh).s, a)
         /\ Decrypt(s, msg, fresh).ok =>
              ~Spent(s, a, msg.mk) /\ Spent(Decrypt(s, msg, fresh).s, a, msg.mk)
<1> DEFINE mk == msg.mk
           stored == {k \in s.Skipped : k.DH = msg.DH /\ k.N = msg.N}
           old == SkipMessageKeys(s, msg.PN)
           turned == IF msg.DH = s.DHr THEN [ok |-> TRUE, s |-> s]
                     ELSE IF old.ok THEN [ok |-> TRUE, s |-> DhRatchet(old.s, msg.DH, fresh)] ELSE old
           skipped == IF turned.ok THEN SkipMessageKeys(turned.s, msg.N) ELSE turned
<1>1. CASE stored # {}
  <2> DEFINE rest == {k \in s.Skipped : k \notin stored \/ k.mk # mk}
  <2>1. /\ Decrypt(s, msg, fresh).s = [s EXCEPT !.Skipped = rest]
        /\ Decrypt(s, msg, fresh).ok => \E k \in stored : k.mk = mk
    BY <1>1 DEF Decrypt
  <2>2. PICK t : t = [s EXCEPT !.Skipped = rest]
    OBVIOUS
  <2>3. DOMAIN s = Fields
    BY DEF SessionOk
  <2>4. rest \subseteq s.Skipped
    OBVIOUS
  <2> HIDE DEF rest
  <2>5. /\ DOMAIN t = Fields /\ t.Skipped = rest /\ t.on = s.on /\ t.RK = s.RK /\ t.CKs = s.CKs
        /\ t.CKr = s.CKr /\ t.Nr = s.Nr /\ t.PN = s.PN
    BY <2>2, <2>3 DEF Fields
  <2>6. \A x : (Passed(s, a, x) <=> Passed(t, a, x)) /\ (Used(s, a, x) => Used(t, a, x))
    BY <2>5 DEF Passed, Used
  <2>7. IsFiniteSet(rest)
    <3>1. IsFiniteSet(s.Skipped)
      BY DEF SessionOk
    <3>2. QED
      BY <2>4, <3>1, FS_Subset
  <2>8. SessionOk(t, a)
    <3>1. /\ \A k \in rest : Passed(t, a, k.mk)
          /\ \A k, l \in rest : k.mk = l.mk => k = l
      BY <2>4, <2>6 DEF SessionOk
    <3>2. QED
      BY <2>5, <2>7, <3>1 DEF SessionOk
  <2>9. \A x : Spent(s, a, x) => Spent(t, a, x)
    BY <2>4, <2>5, <2>6 DEF Spent
  <2>10. ASSUME NEW k \in stored, k.mk = mk PROVE ~Spent(s, a, mk) /\ Spent(t, a, mk)
    <3>1. k \in s.Skipped
      OBVIOUS
    <3>2. ~Spent(s, a, mk) /\ Passed(t, a, mk)
      BY <2>6, <2>10, <3>1 DEF Spent, SessionOk
    <3>3. ASSUME NEW l \in rest PROVE l.mk # mk
      <4>1. SUFFICES ASSUME l.mk = mk PROVE FALSE
        OBVIOUS
      <4>2. l = k
        BY <2>4, <2>10, <3>1, <4>1 DEF SessionOk
      <4>3. QED
        BY <2>10, <4>1, <4>2 DEF rest
    <3>4. QED
      BY <2>5, <3>2, <3>3 DEF Spent
  <2>11. QED
    BY <2>1, <2>2, <2>5, <2>6, <2>8, <2>9, <2>10 DEF Follows
<1>2. CASE stored = {}
  <2> HIDE DEF stored
  <2>1. Follows(s, turned.s, a)
    <3>1. CASE msg.DH = s.DHr
      BY <3>1 DEF Follows
    <3>2. CASE msg.DH # s.DHr
      <4>1. PICK o : o = old.s
        OBVIOUS
      <4>2. Follows(s, o, a)
        BY <4>1, SkippingFollows
      <4>3. SessionOk(o, a) /\ o.on
        BY <4>2 DEF Follows
      <4>4. Follows(o, DhRatchet(o, msg.DH, fresh), a)
        BY <4>3, TurningKeeps
      <4>5. turned.s \in {o, DhRatchet(o, msg.DH, fresh)}
        BY <3>2, <4>1
      <4> HIDE DEF turned
      <4>6. QED
        BY <4>2, <4>4, <4>5 DEF Follows
    <3>3. QED
      BY <3>1, <3>2
  <2>2. PICK v : v = turned.s
    OBVIOUS
  <2>3. SessionOk(v, a) /\ Follows(s, v, a)
    BY <2>1, <2>2 DEF Follows
  <2>4. Follows(v, SkipMessageKeys(v, msg.N).s, a)
    BY <2>3, SkippingFollows
  <2> HIDE DEF turned
  <2>5. PICK u : u = skipped.s
    OBVIOUS
  <2>6. u \in {v, SkipMessageKeys(v, msg.N).s}
    BY <2>2, <2>5
  <2>7. Follows(s, u, a)
    BY <2>3, <2>4, <2>6 DEF Follows
  <2> DEFINE last == [u EXCEPT !.CKr = Advance(@), !.Nr = @ + 1]
  <2>8. \/ Decrypt(s, msg, fresh) = skipped /\ ~skipped.ok
        \/ /\ Decrypt(s, msg, fresh).s = last
           /\ Decrypt(s, msg, fresh).ok => MessageKey(u.CKr) = mk
    <3>1. CASE ~skipped.ok
      <4>1. Decrypt(s, msg, fresh) = skipped
        BY <1>2, <3>1 DEF Decrypt, stored, turned
      <4>2. QED
        BY <3>1, <4>1
    <3>2. CASE skipped.ok
      <4>1. Decrypt(s, msg, fresh) = [ok |-> MessageKey(skipped.s.CKr) = msg.mk,
              s |-> [skipped.s EXCEPT !.CKr = Advance(@), !.Nr = @ + 1]]
        BY <1>2, <3>2 DEF Decrypt, stored, turned
      <4> HIDE DEF skipped
      <4>2. PICK d : d = Decrypt(s, msg, fresh)
        OBVIOUS
      <4>3. d.s = last
        BY <2>5, <4>1, <4>2
      <4>4. d.ok = (MessageKey(u.CKr) = mk)
        BY <2>5, <4>1, <4>2
      <4> HIDE DEF last, mk
      <4>5. QED
        BY <4>2, <4>3, <4>4, Zenon
    <3>3. QED
      BY <3>1, <3>2
  <2> HIDE DEF skipped
  <2>9. CASE Decrypt(s, msg, fresh) = skipped /\ ~skipped.ok
    BY <2>5, <2>7, <2>9
  <2>10. CASE /\ Decrypt(s, msg, fresh).s = last
              /\ Decrypt(s, msg, fresh).ok => MessageKey(u.CKr) = mk
    <3>1. SessionOk(u, a)
      BY <2>7 DEF Follows
    <3>2. PICK t : t = last
      OBVIOUS
    <3>3. DOMAIN u = Fields /\ u.CKr = [root |-> u.CKr.root, n |-> u.CKr.n] /\ u.CKr.n \in Nat /\ u.Nr \in Nat
      BY <3>1 DEF SessionOk, IsChain
    <3>4. Advance(u.CKr) = [root |-> u.CKr.root, n |-> u.CKr.n + 1]
      BY <3>3 DEF Advance
    <3>5. /\ DOMAIN t = Fields /\ t.on = u.on /\ t.RK = u.RK /\ t.CKs = u.CKs /\ t.PN = u.PN
          /\ t.Skipped = u.Skipped /\ t.Nr = u.Nr + 1 /\ t.CKr = [root |-> u.CKr.root, n |-> u.CKr.n + 1]
      BY <3>2, <3>3, <3>4 DEF Fields
    <3>6. t.CKr.root = u.CKr.root /\ t.CKr.n = u.CKr.n + 1 /\ IsChain(t.CKr) /\ t.Nr \in Nat
      BY <3>3, <3>5 DEF IsChain
    <3>7. ASSUME NEW x, Passed(u, a, x) PROVE Passed(t, a, x)
      <4>1. x[2] \in Nat /\ (x[1] = u.CKr.root => x[2] < u.CKr.n)
        BY <3>7 DEF Passed, IsKey
      <4>2. x[1] = t.CKr.root => x[2] < t.CKr.n
        BY <3>3, <3>6, <4>1
      <4>3. QED
        BY <3>5, <3>7, <4>2 DEF Passed
    <3>8. SessionOk(t, a)
      BY <3>1, <3>5, <3>6, <3>7 DEF SessionOk
    <3>9. /\ \A x : Used(u, a, x) => Used(t, a, x)
          /\ \A x : Spent(u, a, x) => Spent(t, a, x)
      BY <3>5, <3>7 DEF Used, Spent
    <3>10. Follows(s, t, a)
      BY <2>7, <3>5, <3>8, <3>9 DEF Follows
    <3>11. ASSUME MessageKey(u.CKr) = mk
           PROVE  ~Spent(s, a, mk) /\ Spent(t, a, mk)
      <4>0. IsKey(mk) /\ Len(mk[1]) % 2 = 1 - a
        OBVIOUS
      <4> HIDE DEF mk
      <4>1. mk[1] = u.CKr.root /\ mk[2] = u.CKr.n
        BY <3>11 DEF MessageKey
      <4>2. ~Passed(u, a, mk)
        <5>1. ~(mk[2] < u.CKr.n)
          BY <3>3, <4>1
        <5>2. QED
          BY <4>1, <5>1 DEF Passed
      <4>3. ~Spent(s, a, mk)
        BY <2>7, <4>2 DEF Follows, Spent
      <4>4. Len(mk[1]) < Len(u.RK)
        <5>1. Len(u.CKr.root) > 0
          BY <4>0, <4>1 DEF IsKey
        <5>2. u.CKr.root # Nothing
          BY <5>1 DEF Nothing
        <5>3. IsSeq(u.CKr.root) /\ Len(u.CKr.root) + 1 = Len(u.RK)
          BY <3>1, <5>2 DEF SessionOk
        <5>4. QED
          BY <4>1, <5>3 DEF IsSeq
      <4>5. Passed(t, a, mk)
        <5>1. mk[2] < t.CKr.n
          BY <3>3, <3>6, <4>1
        <5>2. QED
          BY <3>5, <4>0, <4>4, <5>1 DEF Passed
      <4>6. \A k \in t.Skipped : k.mk # mk
        BY <3>1, <3>5, <4>2 DEF SessionOk
      <4>7. QED
        BY <4>3, <4>5, <4>6 DEF Spent
    <3> HIDE DEF last
    <3>12. QED
      BY <2>10, <3>2, <3>10, <3>11
  <2>11. QED
    BY <2>8, <2>9, <2>10
<1>3. QED
  BY <1>1, <1>2

\* A message that p opened, which the other party sent.
OpenedBy(p, x) ==
  Spent(sessions[p], Parity(p), x) /\ Used(sessions[Peer(p)], Parity(Peer(p)), x)

SessionsOk ==
  /\ DOMAIN sessions = Parties
  /\ \A p \in Parties : SessionOk(sessions[p], Parity(p))

SentOk ==
  \A msg \in sent :
    /\ msg.from \in Parties /\ msg.N \in Nat /\ msg.PN \in Nat
    /\ Used(sessions[msg.from], Parity(msg.from), msg.mk)

OpenedOk ==
  /\ IsSeq(opened) /\ Distinct(opened)
  /\ \A i \in DOMAIN opened : \E p \in Parties : OpenedBy(p, opened[i])

RatchetInv == SessionsOk /\ SentOk /\ OpenedOk

LEMMA RatchetStarts == RatchetInit => RatchetInv
<1> SUFFICES ASSUME RatchetInit PROVE RatchetInv
  OBVIOUS
<1> DEFINE secret == InitiatorSecret(bundle)
           root == kdfRK(secret, DH(Key("alice", 0), SignedPreKey))
           alice == InitAlice(bundle)
<1>1. IsSeq(secret) /\ Len(secret) = 4
  BY DEF InitiatorSecret, IsSeq
<1> HIDE DEF secret
<1>2. IsSeq(root) /\ Len(root) = 5
  <2>1. IsSeq(root) /\ Len(root) = Len(secret) + 1
    BY <1>1, RootGrows
  <2>2. QED
    BY <1>1, <2>1
<1>3. SessionOk(NoSession, 0)
  <2>1. IsSeq(<<>>) /\ Len(<<>>) = 0
    BY DEF IsSeq
  <2>2. DOMAIN NoSession = Fields /\ NoSession.RK = <<>> /\ NoSession.Nr = 0 /\ NoSession.PN = 0
    BY DEF NoSession, Fields, Nothing
  <2>3. /\ NoSession.CKs.root = Nothing /\ NoSession.CKr.root = Nothing
        /\ IsChain(NoSession.CKs) /\ IsChain(NoSession.CKr) /\ NoSession.Skipped = {}
    BY DEF NoSession, NoChain, IsChain
  <2>4. IsFiniteSet({}) /\ 0 % 2 = 0
    BY FS_EmptySet
  <2>5. QED
    BY <2>1, <2>2, <2>3, <2>4 DEF SessionOk
<1>4. SessionOk(alice, 1)
  <2>1. PICK t : t = alice
    OBVIOUS
  <2>2. t = [NoSession EXCEPT !.on = TRUE, !.DHs = Key("alice", 0), !.DHr = SignedPreKey, !.RK = root,
                              !.CKs = Chain(root)]
    BY <2>1 DEF InitAlice, secret
  <2> HIDE DEF root, alice
  <2>3. /\ DOMAIN t = Fields /\ t.on /\ t.RK = root /\ t.CKs = Chain(root) /\ t.CKr = NoChain
        /\ t.Nr = 0 /\ t.PN = 0 /\ t.Skipped = {}
    BY <2>2 DEF NoSession, Fields
  <2>4. t.CKs.root = root /\ IsChain(t.CKs) /\ t.CKr.root = Nothing /\ IsChain(t.CKr)
    BY <2>3 DEF Chain, NoChain, IsChain
  <2>5. IsFiniteSet(t.Skipped)
    BY <2>3, FS_EmptySet
  <2>6. IsSeq(t.RK) /\ Len(t.RK) = 5 /\ t.CKs.root = t.RK
    BY <1>2, <2>3, <2>4
  <2>7. Len(t.RK) % 2 = 1 /\ Len(t.RK) > 0
    BY <2>6
  <2>8. t.Nr \in Nat /\ t.PN \in Nat
    BY <2>3
  <2>9. SessionOk(t, 1)
    BY <2>3, <2>4, <2>5, <2>6, <2>7, <2>8 DEF SessionOk
  <2>10. QED
    BY <2>1, <2>9
<1>5. SessionsOk
  <2>1. sessions = [p \in Parties |-> IF p = "alice" THEN alice ELSE NoSession]
    BY DEF RatchetInit
  <2> HIDE DEF alice
  <2>2. QED
    BY <1>3, <1>4, <2>1 DEF SessionsOk, Parties, Parity
<1>6. SentOk
  BY DEF RatchetInit, SentOk
<1>7. OpenedOk
  <2>1. opened = <<>>
    BY DEF RatchetInit
  <2>2. QED
    BY <2>1 DEF OpenedOk, IsSeq, Distinct
<1>8. QED
  BY <1>5, <1>6, <1>7 DEF RatchetInv

\* What has been sent and opened stands when the sessions go on.
LEMMA SessionsGoOn ==
  ASSUME RatchetInv, DOMAIN sessions' = Parties,
         \A p \in Parties : Follows(sessions[p], sessions'[p], Parity(p))
  PROVE  /\ SessionsOk'
         /\ \A p \in Parties : \A x : OpenedBy(p, x) => OpenedBy(p, x)'
         /\ \A p \in Parties : \A x :
              Used(sessions[p], Parity(p), x) => Used(sessions'[p], Parity(p), x)
<1>1. SessionsOk'
  BY DEF SessionsOk, Follows
<1>2. \A p \in Parties : \A x : Used(sessions[p], Parity(p), x) => Used(sessions'[p], Parity(p), x)
  BY DEF Follows
<1>3. ASSUME NEW p \in Parties, NEW x, OpenedBy(p, x) PROVE OpenedBy(p, x)'
  <2>1. Peer(p) \in Parties
    BY Parities
  <2>2. Spent(sessions'[p], Parity(p), x)
    BY <1>3 DEF OpenedBy, Follows
  <2>3. Used(sessions'[Peer(p)], Parity(Peer(p)), x)
    BY <1>2, <1>3, <2>1 DEF OpenedBy
  <2>4. QED
    BY <2>2, <2>3 DEF OpenedBy
<1>4. QED
  BY <1>1, <1>2, <1>3

LEMMA SameFollows == ASSUME NEW s, NEW a, SessionOk(s, a) PROVE Follows(s, s, a)
BY DEF Follows

\* A message is sealed with a key that is new.
LEMMA EncryptKeeps == ASSUME NEW p \in Parties, RatchetInv, Encrypt(p) PROVE RatchetInv'
<1> DEFINE a == Parity(p)
<1>1. PICK s : s = sessions[p]
  OBVIOUS
<1>2. /\ Established(s.CKs)
      /\ sent' = sent \union
           {[from |-> p, DH |-> s.DHs, PN |-> s.PN, N |-> s.CKs.n, mk |-> MessageKey(s.CKs)]}
      /\ sessions' = [sessions EXCEPT ![p].CKs = Advance(@)]
      /\ UNCHANGED opened
  BY <1>1 DEF Encrypt
<1>3. SessionOk(s, a) /\ DOMAIN sessions = Parties
  BY <1>1 DEF RatchetInv, SessionsOk
<1>4. PICK t : t = [s EXCEPT !.CKs = Advance(@)]
  OBVIOUS
<1>5. /\ DOMAIN sessions' = Parties /\ sessions'[p] = t
      /\ \A q \in Parties \ {p} : sessions'[q] = sessions[q]
  BY <1>1, <1>2, <1>3, <1>4
<1>6. /\ DOMAIN s = Fields /\ s.CKs = [root |-> s.CKs.root, n |-> s.CKs.n]
      /\ s.CKs.n \in Nat /\ s.PN \in Nat
      /\ s.CKs.root = s.RK /\ Len(s.RK) > 0 /\ IsSeq(s.RK) /\ Len(s.RK) % 2 = a
  BY <1>2, <1>3 DEF SessionOk, IsChain, Established
<1>7. Advance(s.CKs) = [root |-> s.RK, n |-> s.CKs.n + 1]
  BY <1>6 DEF Advance
<1>8. /\ DOMAIN t = Fields /\ t.on = s.on /\ t.RK = s.RK /\ t.CKr = s.CKr /\ t.PN = s.PN /\ t.Nr = s.Nr
      /\ t.Skipped = s.Skipped /\ t.CKs = [root |-> s.RK, n |-> s.CKs.n + 1]
  BY <1>4, <1>6, <1>7 DEF Fields
<1>9. t.CKs.root = s.RK /\ t.CKs.n = s.CKs.n + 1 /\ IsChain(t.CKs)
  BY <1>6, <1>8 DEF IsChain
<1>10. Follows(s, t, a)
  <2>1. \A x : Passed(s, a, x) <=> Passed(t, a, x)
    BY <1>8 DEF Passed
  <2>2. SessionOk(t, a)
    BY <1>3, <1>6, <1>8, <1>9, <2>1 DEF SessionOk
  <2>3. \A x : Spent(s, a, x) => Spent(t, a, x)
    BY <1>8, <2>1 DEF Spent
  <2>4. ASSUME NEW x, Used(s, a, x) PROVE Used(t, a, x)
    <3>1. x[2] \in Nat /\ (x[1] = s.CKs.root => x[2] < s.CKs.n)
      BY <2>4 DEF Used, IsKey
    <3>2. x[1] = t.CKs.root => x[2] < t.CKs.n
      BY <1>6, <1>9, <3>1
    <3>3. QED
      BY <1>8, <2>4, <3>2 DEF Used
  <2>5. QED
    BY <1>8, <2>2, <2>3, <2>4 DEF Follows
<1>11. \A q \in Parties : Follows(sessions[q], sessions'[q], Parity(q))
  <2>1. \A q \in Parties : Follows(sessions[q], sessions[q], Parity(q))
    BY SameFollows DEF RatchetInv, SessionsOk
  <2>2. QED
    BY <1>1, <1>5, <1>10, <2>1
<1>12. /\ SessionsOk'
       /\ \A q \in Parties : \A x : OpenedBy(q, x) => OpenedBy(q, x)'
       /\ \A q \in Parties : \A x : Used(sessions[q], Parity(q), x) => Used(sessions'[q], Parity(q), x)
  BY <1>5, <1>11, SessionsGoOn
<1>13. Used(t, a, MessageKey(s.CKs))
  <2>1. PICK x : x = <<s.RK, s.CKs.n>>
    OBVIOUS
  <2>2. x[1] = s.RK /\ x[2] = s.CKs.n /\ x = MessageKey(s.CKs)
    BY <1>6, <2>1 DEF MessageKey
  <2>3. IsKey(x)
    BY <1>6, <2>1, <2>2 DEF IsKey
  <2>4. x[2] < t.CKs.n
    BY <1>6, <1>9, <2>2
  <2>5. Len(x[1]) <= Len(t.RK) /\ Len(x[1]) % 2 = a
    <3>1. PICK n \in Nat : n = Len(s.RK)
      BY <1>6 DEF IsSeq
    <3>2. Len(x[1]) = n /\ Len(t.RK) = n
      BY <1>8, <2>2, <3>1
    <3>3. Len(x[1]) % 2 = a
      BY <1>6, <2>2, Zenon
    <3>4. QED
      BY <3>2, <3>3
  <2>6. QED
    BY <2>2, <2>3, <2>4, <2>5 DEF Used
<1>14. SentOk'
  <2>1. ASSUME NEW msg \in sent'
        PROVE  /\ msg.from \in Parties /\ msg.N \in Nat /\ msg.PN \in Nat
               /\ Used(sessions'[msg.from], Parity(msg.from), msg.mk)
    <3>1. CASE msg \in sent
      BY <1>12, <3>1 DEF RatchetInv, SentOk
    <3>2. CASE msg = [from |-> p, DH |-> s.DHs, PN |-> s.PN, N |-> s.CKs.n, mk |-> MessageKey(s.CKs)]
      <4>1. msg.from = p /\ msg.N = s.CKs.n /\ msg.PN = s.PN /\ msg.mk = MessageKey(s.CKs)
        BY <3>2
      <4>2. QED
        BY <1>5, <1>6, <1>13, <4>1
    <3>3. QED
      BY <1>2, <3>1, <3>2
  <2>2. QED
    BY <2>1 DEF SentOk
<1>15. OpenedOk'
  BY <1>2, <1>12 DEF RatchetInv, OpenedOk, Distinct
<1>16. QED
  BY <1>12, <1>14, <1>15 DEF RatchetInv

\* The responder's session begins; until then it has sent and opened nothing.
LEMMA RespondKeeps == RatchetInv /\ Respond => RatchetInv'
<1> SUFFICES ASSUME RatchetInv, Respond PROVE RatchetInv'
  OBVIOUS
<1>1. /\ ~sessions["bob"].on
      /\ sessions' = [sessions EXCEPT !["bob"] = InitBob(bundle)]
      /\ UNCHANGED <<sent, opened>>
  BY DEF Respond
<1>2. PICK s : s = sessions["bob"]
  OBVIOUS
<1>3. PICK t : t = InitBob(bundle)
  OBVIOUS
<1>4. /\ DOMAIN sessions = Parties /\ "bob" \in Parties /\ Parity("bob") = 0
      /\ SessionOk(s, 0) /\ Len(s.RK) = 0
  <2>1. DOMAIN sessions = Parties /\ "bob" \in Parties /\ Parity("bob") = 0
    BY DEF RatchetInv, SessionsOk, Parties, Parity
  <2>2. SessionOk(s, 0)
    BY <1>2, <2>1 DEF RatchetInv, SessionsOk
  <2>3. QED
    BY <1>1, <1>2, <2>1, <2>2 DEF SessionOk
<1>5. /\ DOMAIN sessions' = Parties /\ sessions'["bob"] = t
      /\ \A q \in Parties \ {"bob"} : sessions'[q] = sessions[q]
  BY <1>1, <1>3, <1>4
<1>6. SessionOk(t, 0)
  <2> DEFINE secret == ResponderSecret(bundle)
  <2>1. IsSeq(secret) /\ Len(secret) = 4
    BY DEF ResponderSecret, IsSeq
  <2>2. t = [NoSession EXCEPT !.on = TRUE, !.DHs = SignedPreKey, !.RK = secret]
    BY <1>3 DEF InitBob
  <2> HIDE DEF secret
  <2>3. /\ DOMAIN t = Fields /\ t.on /\ t.RK = secret /\ t.CKs = NoChain /\ t.CKr = NoChain
        /\ t.Nr = 0 /\ t.PN = 0 /\ t.Skipped = {}
    BY <2>2 DEF NoSession, Fields
  <2>4. /\ t.CKs.root = Nothing /\ t.CKr.root = Nothing /\ IsChain(t.CKs) /\ IsChain(t.CKr)
    BY <2>3 DEF NoChain, IsChain
  <2>5. IsFiniteSet(t.Skipped)
    BY <2>3, FS_EmptySet
  <2>6. IsSeq(t.RK) /\ Len(t.RK) % 2 = 0 /\ t.Nr \in Nat /\ t.PN \in Nat
    <3>1. IsSeq(t.RK) /\ Len(t.RK) = 4
      BY <2>1, <2>3
    <3>2. Len(t.RK) % 2 = 0
      BY <3>1
    <3>3. QED
      BY <2>3, <3>1, <3>2
  <2>7. QED
    BY <2>3, <2>4, <2>5, <2>6 DEF SessionOk
<1>7. Follows(s, t, 0)
  <2>1. ASSUME NEW x PROVE ~Spent(s, 0, x) /\ ~Used(s, 0, x)
    <3>1. IsKey(x) => Len(x[1]) \in Nat /\ Len(x[1]) > 0
      BY DEF IsKey, IsSeq
    <3>2. IsKey(x) => ~(Len(x[1]) < Len(s.RK)) /\ ~(Len(x[1]) <= Len(s.RK))
      BY <1>4, <3>1
    <3>3. QED
      BY <3>2 DEF Spent, Passed, Used
  <2>2. ~s.on
    BY <1>1, <1>2
  <2>3. QED
    BY <1>6, <2>1, <2>2 DEF Follows
<1>8. \A q \in Parties : Follows(sessions[q], sessions'[q], Parity(q))
  <2>1. \A q \in Parties : Follows(sessions[q], sessions[q], Parity(q))
    BY SameFollows DEF RatchetInv, SessionsOk
  <2>2. QED
    BY <1>2, <1>4, <1>5, <1>7, <2>1
<1>9. /\ SessionsOk'
      /\ \A q \in Parties : \A x : OpenedBy(q, x) => OpenedBy(q, x)'
      /\ \A q \in Parties : \A x : Used(sessions[q], Parity(q), x) => Used(sessions'[q], Parity(q), x)
  BY <1>5, <1>8, SessionsGoOn
<1>10. SentOk'
  BY <1>1, <1>9 DEF RatchetInv, SentOk
<1>11. OpenedOk'
  BY <1>1, <1>9 DEF RatchetInv, OpenedOk, Distinct
<1>12. QED
  BY <1>9, <1>10, <1>11 DEF RatchetInv

\* A message arrives: what opens it was not spent before.
LEMMA ArriveKeeps == ASSUME NEW msg \in sent, RatchetInv, Arrive(msg) PROVE RatchetInv'
<1> DEFINE p == Peer(msg.from)
           a == Parity(p)
           mk == msg.mk
           result == Decrypt(sessions[p], msg, Key(p, keyCount[p]))
<1>1. PICK s : s = sessions[p]
  OBVIOUS
<1>2. /\ s.on
      /\ sessions' = [sessions EXCEPT ![p] = result.s]
      /\ IF result.ok THEN opened' = Append(opened, mk) ELSE UNCHANGED opened
      /\ UNCHANGED sent
  BY <1>1 DEF Arrive
<1>3. /\ msg.from \in Parties /\ msg.N \in Nat /\ msg.PN \in Nat
      /\ Used(sessions[msg.from], Parity(msg.from), mk)
  BY DEF RatchetInv, SentOk
<1>4. p \in Parties /\ Peer(p) = msg.from /\ a \in {0, 1} /\ Parity(msg.from) = 1 - a
  <2>1. p \in Parties /\ Peer(p) = msg.from
    BY <1>3, Parities
  <2>2. Parity(Peer(p)) = 1 - Parity(p) /\ Parity(p) \in {0, 1}
    BY <2>1, Parities
  <2>3. QED
    BY <2>1, <2>2
<1>5. DOMAIN sessions = Parties /\ SessionOk(s, a)
  BY <1>1, <1>4 DEF RatchetInv, SessionsOk
<1>6. IsKey(mk) /\ Len(mk[1]) % 2 = 1 - a
  BY <1>3, <1>4 DEF Used
<1> HIDE DEF p, a, mk
<1>7. PICK t, ok : /\ t = result.s /\ ok = result.ok
  OBVIOUS
<1>8. Follows(s, t, a) /\ (ok => ~Spent(s, a, mk) /\ Spent(t, a, mk))
  <2>1. \A fresh : /\ Follows(s, Decrypt(s, msg, fresh).s, a)
                   /\ Decrypt(s, msg, fresh).ok =>
                        ~Spent(s, a, msg.mk) /\ Spent(Decrypt(s, msg, fresh).s, a, msg.mk)
    BY <1>2, <1>3, <1>4, <1>5, <1>6, DecryptionSpends DEF mk
  <2> DEFINE d == Decrypt(s, msg, Key(p, keyCount[p]))
  <2>2. Follows(s, d.s, a) /\ (d.ok => ~Spent(s, a, mk) /\ Spent(d.s, a, mk))
    BY <2>1 DEF mk
  <2>3. d = result
    BY <1>1
  <2> HIDE DEF d, result
  <2>4. QED
    BY <1>7, <2>2, <2>3, Zenon
<1> HIDE DEF result
<1>9. /\ DOMAIN sessions' = Parties /\ sessions'[p] = t
      /\ \A q \in Parties \ {p} : sessions'[q] = sessions[q]
  BY <1>2, <1>4, <1>5, <1>7
<1>10. \A q \in Parties : Follows(sessions[q], sessions'[q], Parity(q))
  <2>1. \A q \in Parties : Follows(sessions[q], sessions[q], Parity(q))
    BY SameFollows DEF RatchetInv, SessionsOk
  <2>2. Follows(sessions[p], sessions'[p], Parity(p))
    BY <1>1, <1>8, <1>9 DEF a
  <2>3. QED
    BY <1>9, <2>1, <2>2
<1>11. /\ SessionsOk'
       /\ \A q \in Parties : \A x : OpenedBy(q, x) => OpenedBy(q, x)'
       /\ \A q \in Parties : \A x : Used(sessions[q], Parity(q), x) => Used(sessions'[q], Parity(q), x)
  BY <1>9, <1>10, SessionsGoOn
<1>12. SentOk'
  BY <1>2, <1>11 DEF RatchetInv, SentOk
<1>13. CASE ~ok
  <2>1. opened' = opened
    BY <1>2, <1>7, <1>13
  <2>2. OpenedOk'
    BY <1>11, <2>1 DEF RatchetInv, OpenedOk, Distinct
  <2>3. QED
    BY <1>11, <1>12, <2>2 DEF RatchetInv
<1>14. CASE ok
  <2>1. opened' = Append(opened, mk)
    BY <1>2, <1>7, <1>14
  <2>2. IsSeq(opened) /\ Distinct(opened) /\ \A i \in DOMAIN opened : \E q \in Parties : OpenedBy(q, opened[i])
    BY DEF RatchetInv, OpenedOk
  <2>3. OpenedBy(p, mk)'
    <3>1. Used(sessions'[Peer(p)], Parity(Peer(p)), mk)
      BY <1>3, <1>4, <1>11
    <3>2. Spent(sessions'[p], Parity(p), mk)
      BY <1>8, <1>9, <1>14 DEF a
    <3>3. mk' = mk /\ p' = p
      BY DEF mk, p
    <3>4. QED
      BY <3>1, <3>2, <3>3 DEF OpenedBy
  <2>4. ASSUME NEW q \in Parties PROVE ~OpenedBy(q, mk)
    <3>1. CASE q = p
      BY <1>1, <1>8, <1>14, <3>1 DEF OpenedBy, a
    <3>2. CASE q # p
      <4>1. Parity(q) = 1 - a
        <5>1. q = Peer(p)
          BY <1>4, <3>2 DEF Parties, Peer
        <5>2. QED
          BY <1>4, <5>1, Zenon
      <4>2. PICK r, b : r = Len(mk[1]) % 2 /\ b = Parity(q)
        OBVIOUS
      <4>3. OpenedBy(q, mk) => Passed(sessions[q], b, mk)
        BY <4>2 DEF OpenedBy, Spent
      <4>4. OpenedBy(q, mk) => r = 1 - b
        BY <4>2, <4>3 DEF Passed
      <4>5. r = 1 - a /\ b = 1 - a
        BY <1>6, <4>1, <4>2
      <4>6. 1 - a # 1 - (1 - a)
        BY <1>4
      <4>7. QED
        BY <4>4, <4>5, <4>6
    <3>3. QED
      BY <3>1, <3>2
  <2>5. ~Holds(opened, mk)
    BY <2>2, <2>4 DEF Holds
  <2>6. /\ IsSeq(opened') /\ Distinct(opened')
        /\ \A y : Holds(opened', y) <=> Holds(opened, y) \/ y = mk
    BY <2>1, <2>2, <2>5, QueueGrows
  <2>7. ASSUME NEW i \in DOMAIN opened' PROVE \E q \in Parties : OpenedBy(q, opened[i])'
    <3>1. PICK y : y = opened'[i]
      OBVIOUS
    <3>2. Holds(opened, y) \/ y = mk
      BY <2>6, <3>1 DEF Holds
    <3>3. CASE Holds(opened, y)
      <4>1. PICK q \in Parties : OpenedBy(q, y)
        BY <2>2, <3>3 DEF Holds
      <4>2. OpenedBy(q, y)'
        BY <1>11, <4>1
      <4>3. QED
        BY <3>1, <4>2 DEF OpenedBy
    <3>4. CASE y = mk
      BY <1>4, <2>3, <3>1, <3>4 DEF OpenedBy, mk, p
    <3>5. QED
      BY <3>2, <3>3, <3>4
  <2>8. OpenedOk'
    BY <2>6, <2>7 DEF OpenedOk, Distinct
  <2>9. QED
    BY <1>11, <1>12, <2>8 DEF RatchetInv
<1>15. QED
  BY <1>13, <1>14

\* The sessions, whatever part of the messenger a behaviour is about.
LEMMA SealingKeeps == RatchetInv /\ [ChatNext]_chatVars => RatchetInv'
<1> SUFFICES ASSUME RatchetInv, [ChatNext]_chatVars PROVE RatchetInv'
  OBVIOUS
<1>1. CASE RatchetNext
  BY <1>1, EncryptKeeps, RespondKeeps, ArriveKeeps DEF RatchetNext
<1>2. CASE UNCHANGED <<sessions, sent, opened>>
  BY <1>2 DEF RatchetInv, SessionsOk, SentOk, OpenedOk, OpenedBy, Distinct
<1>3. QED
  BY <1>1, <1>2 DEF ChatNext, Carrying, Sealing, Limiting, chatVars, ratchetVars

\* Forward secrecy of the sessions (KeysForgotten): a message is opened once, and
\* neither party's session yields the key of a message that was opened.
THEOREM KeysAreForgotten == ChatSpec => []KeysForgotten
<1>1. ChatInit => RatchetInv
  BY RatchetStarts DEF ChatInit
<1>2. RatchetInv => KeysForgotten
  <2> SUFFICES ASSUME RatchetInv PROVE KeysForgotten
    OBVIOUS
  <2>1. ASSUME NEW i \in DOMAIN opened, NEW q \in Parties
        PROVE  LET s == sessions[q] IN
               /\ \A k \in s.Skipped : k.mk # opened[i]
               /\ \A chain \in {s.CKs, s.CKr} : chain.root = opened[i][1] => chain.n > opened[i][2]
    <3>1. PICK x : x = opened[i]
      OBVIOUS
    <3>2. PICK p \in Parties : OpenedBy(p, x)
      BY <3>1 DEF RatchetInv, OpenedOk
    <3>3. PICK s : s = sessions[q]
      OBVIOUS
    <3>4. SessionOk(s, Parity(q))
      BY <3>3 DEF RatchetInv, SessionsOk
    <3>5. /\ Parity(p) \in {0, 1} /\ Parity(Peer(p)) = 1 - Parity(p)
          /\ p = q \/ q = Peer(p)
      BY Parities DEF Parties, Peer
    <3>6. PICK r, b : r = Len(x[1]) % 2 /\ b = Parity(p)
      OBVIOUS
    <3>7. b \in {0, 1} /\ 1 - b # b /\ r = 1 - b
      <4>1. b \in {0, 1}
        BY <3>5, <3>6
      <4>2. Passed(sessions[p], b, x)
        BY <3>2, <3>6 DEF OpenedBy, Spent
      <4>3. r = 1 - b
        BY <3>6, <4>2 DEF Passed
      <4>4. QED
        BY <4>1, <4>3
    <3>8. /\ IsKey(x) /\ x[2] \in Nat /\ Len(x[1]) % 2 = 1 - Parity(p)
          /\ s.CKs.n \in Nat /\ s.CKr.n \in Nat
      BY <3>2, <3>4 DEF OpenedBy, Spent, Passed, IsKey, SessionOk, IsChain
    <3>9. CASE q = p
      <4>1. Spent(s, Parity(q), x) /\ Len(x[1]) % 2 # Parity(q)
        <5>1. Spent(s, Parity(q), x)
          BY <3>2, <3>3, <3>9 DEF OpenedBy
        <5>2. Parity(q) = b
          BY <3>9, <3>6
        <5>3. QED
          BY <3>6, <3>7, <5>1, <5>2
      <4>2. s.CKs.root # x[1]
        <5>1. s.CKs.root = Nothing \/ Len(s.CKs.root) % 2 = Parity(q)
          BY <3>4 DEF SessionOk
        <5>2. x[1] # Nothing
          BY <3>8 DEF IsKey, Nothing
        <5>3. QED
          BY <4>1, <5>1, <5>2
      <4>3. s.CKr.root = x[1] => s.CKr.n > x[2]
        BY <3>8, <4>1 DEF Spent, Passed
      <4>4. QED
        BY <3>1, <3>3, <4>1, <4>2, <4>3 DEF Spent
    <3>10. CASE q = Peer(p)
      <4>1. Used(s, Parity(q), x) /\ Len(x[1]) % 2 = Parity(q) /\ Parity(q) \in {0, 1}
        <5>1. Used(s, Parity(q), x)
          BY <3>2, <3>3, <3>10 DEF OpenedBy
        <5>2. Parity(q) \in {0, 1}
          BY <3>5, <3>10
        <5>3. QED
          BY <5>1, <5>2 DEF Used
      <4>2. \A k \in s.Skipped : k.mk # x
        <5>1. \A k \in s.Skipped : Len(k.mk[1]) % 2 = 1 - Parity(q)
          BY <3>4 DEF SessionOk, Passed
        <5>2. Parity(q) # 1 - Parity(q)
          BY <4>1
        <5>3. QED
          BY <4>1, <5>1, <5>2
      <4>3. s.CKr.root # x[1]
        <5>1. CASE s.CKr.root = Nothing
          BY <3>8, <5>1 DEF IsKey, Nothing
        <5>2. CASE s.CKr.root # Nothing
          <6>1. PICK n \in Nat : n = Len(s.CKr.root)
            BY <3>4, <5>2 DEF SessionOk, IsSeq
          <6>2. (n + 1) % 2 = Parity(q)
            BY <3>4, <5>2, <6>1 DEF SessionOk
          <6>3. (n + 1) % 2 = 1 - (n % 2) /\ n % 2 \in {0, 1}
            BY Parities
          <6>4. n % 2 # Parity(q)
            BY <4>1, <6>2, <6>3
          <6>5. QED
            BY <4>1, <6>1, <6>4, Zenon
        <5>3. QED
          BY <5>1, <5>2
      <4>4. s.CKs.root = x[1] => s.CKs.n > x[2]
        BY <3>8, <4>1 DEF Used
      <4>5. QED
        BY <3>1, <3>3, <4>2, <4>3, <4>4
    <3>11. QED
      BY <3>5, <3>9, <3>10
  <2>2. QED
    BY <2>1 DEF KeysForgotten, RatchetInv, OpenedOk, Distinct
<1>3. QED
  BY <1>1, <1>2, SealingKeeps, PTL DEF ChatSpec

------------------------------------------------------------------------------
(* Messages that arrive once each.  Of the two parties one is ahead: it has  *)
(* turned its ratchet to the other's key, and the other has not turned to    *)
(* its own.  Every session keeps just the keys of the messages that are      *)
(* missing from what it has passed.                                          *)

KeyOf(m) == [DH |-> m.DH, N |-> m.N, mk |-> m.mk]

\* Of a set of messages, those under one ratchet key: numbered, and sealed along one chain.
ChainIs(mine, dh, len, root) ==
  /\ len \in Nat
  /\ \A m \in mine : m.DH = dh => m.N \in 0 .. (len - 1) /\ m.mk = <<root, m.N>>
  /\ \A n \in 0 .. (len - 1) : \E m \in mine : m.DH = dh /\ m.N = n

\* Session s reads the messages mine that the other party wrote, of which it got some: its
\* receiving chain has len messages, and it keeps a key for each that is missing from what
\* it has passed.  Under a key it has not turned to, some are coming.
Reads(s, mine, got, len, coming) ==
  /\ s.CKr.n = s.Nr /\ s.Nr \in 0 .. len
  /\ ChainIs(mine, s.DHr, len, s.CKr.root)
  /\ \A m \in mine : m.DH = s.DHr /\ m.N >= s.Nr => m \notin got
  /\ \A k \in s.Skipped : (\E m \in mine \ got : k = KeyOf(m)) /\ (k.DH = s.DHr => k.N < s.Nr)
  /\ \A m \in mine \ got : KeyOf(m) \in s.Skipped \/ (m.DH = s.DHr /\ m.N >= s.Nr) \/ m \in coming
  /\ \A m \in coming : m \in mine \ got /\ m.DH # s.DHr /\ \A k \in s.Skipped : k.DH # m.DH

\* A number is used once under a key.
Numbered(mine) == \A m, n \in mine : m.DH = n.DH /\ m.N = n.N => m = n

\* There is room for the keys of all the messages.
Fits(mine) ==
  /\ IsFiniteSet(mine) /\ Cardinality(mine) <= MaxSkip
  /\ \A m \in mine : m.N \in Nat /\ IsKey(m.mk)

\* What reading on along a chain leaves alone.
SameEnds(s, t) ==
  /\ t.on = s.on /\ t.DHs = s.DHs /\ t.DHr = s.DHr /\ t.RK = s.RK /\ t.CKs = s.CKs /\ t.PN = s.PN
  /\ t.CKr.root = s.CKr.root

\* The keys of all the messages that are missing up to a number fit.
LEMMA SkippingReads ==
  ASSUME NEW s, NEW a \in {0, 1}, SessionOk(s, a), NEW mine, NEW got, NEW len, NEW coming,
         Reads(s, mine, got, len, coming), Fits(mine),
         NEW until \in Nat, s.Nr <= until, until <= len
  PROVE  LET u == SkipMessageKeys(s, until)
         IN  u.ok /\ u.s.Nr = until /\ SameEnds(s, u.s) /\ Reads(u.s, mine, got, len, coming)
<1>1. PICK u : u = SkipMessageKeys(s, until)
  OBVIOUS
<1>2. /\ DOMAIN s = Fields /\ s.CKr = [root |-> s.CKr.root, n |-> s.CKr.n]
      /\ s.CKr.n \in Nat /\ s.Nr \in Nat /\ IsFiniteSet(s.Skipped) /\ Cardinality(s.Skipped) \in Nat
  BY FS_CardinalityType DEF SessionOk, IsChain
<1>3. s.CKr.n = s.Nr /\ len \in Nat
  BY DEF Reads, ChainIs
<1>4. CASE until = s.Nr
  <2>1. u.ok /\ u.s = s
    BY <1>1, <1>4 DEF SkipMessageKeys
  <2>2. QED
    BY <1>1, <1>4, <2>1 DEF SameEnds
<1>5. CASE until # s.Nr
  <2> DEFINE count == until - s.Nr
             keys == {[DH |-> s.DHr, N |-> s.Nr + i, mk |-> <<s.CKr.root, s.CKr.n + i>>] : i \in 0 .. count - 1}
  <2>1. count \in Nat /\ count > 0
    BY <1>2, <1>5
  <2>2. Established(s.CKr)
    <3>1. 0 \in 0 .. (len - 1)
      BY <1>2, <1>3, <1>5
    <3>2. PICK m \in mine : m.DH = s.DHr /\ m.N = 0
      BY <3>1 DEF Reads, ChainIs
    <3>3. m.mk = <<s.CKr.root, m.N>> /\ IsKey(m.mk)
      BY <3>2 DEF Reads, ChainIs, Fits
    <3>4. PICK x : x = m.mk
      OBVIOUS
    <3>5. x[1] = s.CKr.root /\ Len(x[1]) > 0
      BY <3>3, <3>4 DEF IsKey
    <3>6. QED
      BY <3>5 DEF Established, Nothing
  <2> HIDE DEF count
  <2>3. ASSUME NEW k \in keys
        PROVE  /\ k.DH = s.DHr /\ k.N < until /\ k.N >= s.Nr
               /\ \E m \in mine \ got : k = KeyOf(m)
    <3>1. PICK i \in 0 .. count - 1 :
            k = [DH |-> s.DHr, N |-> s.Nr + i, mk |-> <<s.CKr.root, s.CKr.n + i>>]
      OBVIOUS
    <3>2. k.DH = s.DHr /\ k.N = s.Nr + i /\ k.mk = <<s.CKr.root, s.Nr + i>>
      BY <1>3, <3>1
    <3>3. s.Nr + i < until /\ s.Nr + i >= s.Nr /\ s.Nr + i \in 0 .. (len - 1)
      BY <1>2, <1>3, <2>1 DEF count
    <3>4. PICK m \in mine : m.DH = s.DHr /\ m.N = s.Nr + i
      BY <3>3 DEF Reads, ChainIs
    <3>5. m.mk = <<s.CKr.root, m.N>> /\ m \notin got
      BY <3>3, <3>4 DEF Reads, ChainIs
    <3>6. k = KeyOf(m)
      BY <1>3, <3>1, <3>4, <3>5 DEF KeyOf
    <3>7. QED
      BY <3>2, <3>3, <3>5, <3>6
  <2>4. ASSUME NEW n \in Nat, s.Nr <= n, n < until
        PROVE  [DH |-> s.DHr, N |-> n, mk |-> <<s.CKr.root, n>>] \in keys
    <3>1. PICK i : i = n - s.Nr
      OBVIOUS
    <3>2. i \in 0 .. count - 1 /\ s.Nr + i = n /\ s.CKr.n + i = n
      BY <1>2, <1>3, <2>4, <3>1 DEF count
    <3>3. QED
      BY <3>2
  <2>5. IsFiniteSet(keys) /\ Cardinality(keys) = count
    <3> DEFINE S == 0 .. count - 1
               f == [i \in S |-> [DH |-> s.DHr, N |-> s.Nr + i, mk |-> <<s.CKr.root, s.CKr.n + i>>]]
    <3>1. IsFiniteSet(S) /\ Cardinality(S) = count
      <4>1. 0 \in Int /\ count - 1 \in Int /\ ~(0 > count - 1) /\ (count - 1) - 0 + 1 = count
        BY <2>1
      <4> HIDE DEF keys, f
      <4>2. QED
        BY ONLY <4>1, FS_Interval
    <3>2. f \in Surjection(S, keys)
      BY DEF Surjection
    <3>3. ASSUME NEW i \in S, NEW j \in S, f[i] = f[j] PROVE i = j
      <4>1. f[i].N = s.Nr + i /\ f[j].N = s.Nr + j
        OBVIOUS
      <4>2. s.Nr + i = s.Nr + j /\ i \in Int /\ j \in Int
        BY <2>1, <3>3, <4>1
      <4>3. QED
        BY <1>2, <4>2
    <3> HIDE DEF f, keys, S
    <3>4. f \in Injection(S, keys)
      BY <3>2, <3>3 DEF Injection, Surjection, IsInjective
    <3>5. IsFiniteSet(keys) /\ Cardinality(keys) = Cardinality(S)
      BY <3>1, <3>2, <3>4, FS_Surjection
    <3>6. QED
      BY <3>1, <3>5
  <2> HIDE DEF keys
  <2>6. IsFiniteSet(s.Skipped \union keys) /\ Cardinality(s.Skipped \union keys) = Cardinality(s.Skipped) + count
    <3>1. s.Skipped \cap keys = {}
      <4>1. ASSUME NEW k \in s.Skipped, k \in keys PROVE FALSE
        <5>1. k.DH = s.DHr /\ k.N >= s.Nr
          BY <2>3, <4>1
        <5>2. k.N < s.Nr
          BY <5>1 DEF Reads
        <5>3. k.N \in Nat
          <6>1. PICK m \in mine \ got : k = KeyOf(m)
            BY <2>3, <4>1
          <6>2. QED
            BY <6>1 DEF KeyOf, Fits
        <5>4. QED
          BY <1>2, <5>1, <5>2, <5>3
      <4>2. QED
        BY <4>1
    <3>2. Cardinality(s.Skipped \cap keys) = 0
      BY <3>1, FS_EmptySet
    <3>3. /\ IsFiniteSet(s.Skipped \union keys)
          /\ Cardinality(s.Skipped \union keys) =
               Cardinality(s.Skipped) + Cardinality(keys) - Cardinality(s.Skipped \cap keys)
      BY <1>2, <2>5, FS_Union
    <3>4. QED
      BY <1>2, <2>1, <2>5, <3>2, <3>3
  <2>7. Cardinality(s.Skipped) + count <= MaxSkip
    <3> DEFINE all == {KeyOf(m) : m \in mine}
               g == [m \in mine |-> KeyOf(m)]
    <3>1. g \in Surjection(mine, all)
      BY DEF Surjection
    <3>2. \A k \in s.Skipped \union keys : k \in all
      BY <2>3 DEF Reads
    <3> HIDE DEF all, g
    <3>3. IsFiniteSet(all) /\ Cardinality(all) <= Cardinality(mine)
      BY <3>1, FS_Surjection DEF Fits
    <3>4. s.Skipped \union keys \in SUBSET all
      BY <3>2
    <3>5. Cardinality(s.Skipped \union keys) <= Cardinality(all)
      BY <3>3, <3>4, FS_Subset
    <3>6. Cardinality(all) \in Nat /\ Cardinality(mine) \in Nat /\ Cardinality(mine) <= MaxSkip
      BY <3>3, FS_CardinalityType DEF Fits
    <3>7. QED
      BY <1>2, <2>1, <2>6, <3>3, <3>5, <3>6, SkipAssumption
  <2>8. u = [ok |-> TRUE,
             s |-> [s EXCEPT !.Skipped = @ \union keys, !.Nr = @ + count, !.CKr.n = @ + count]]
    <3>1. /\ ~(until < s.Nr \/ until - s.Nr > MaxSkip)
          /\ until - s.Nr < MaxSkip + 1 - Cardinality(s.Skipped)
      BY <1>2, <2>1, <2>7, SkipAssumption DEF count
    <3>2. Cardinality(s.Skipped \union keys) <= MaxSkip
      BY <2>6, <2>7
    <3>3. u = [ok |-> Cardinality(s.Skipped \union keys) <= MaxSkip,
               s |-> [s EXCEPT !.Skipped = @ \union keys, !.Nr = @ + count, !.CKr.n = @ + count]]
      BY <1>1, <1>5, <2>2, <3>1 DEF SkipMessageKeys, keys, count
    <3>4. QED
      BY <3>2, <3>3
  <2>9. PICK t : t = u.s
    OBVIOUS
  <2>10. u.ok /\ t = [s EXCEPT !.Skipped = @ \union keys, !.Nr = @ + count, !.CKr.n = @ + count]
    BY <2>8, <2>9
  <2>11. /\ t.on = s.on /\ t.DHs = s.DHs /\ t.DHr = s.DHr /\ t.RK = s.RK /\ t.CKs = s.CKs /\ t.PN = s.PN
         /\ t.Skipped = s.Skipped \union keys /\ t.Nr = s.Nr + count
         /\ t.CKr = [root |-> s.CKr.root, n |-> s.CKr.n + count]
    <3>1. [s.CKr EXCEPT !.n = @ + count] = [root |-> s.CKr.root, n |-> s.CKr.n + count]
      BY <1>2
    <3>2. QED
      BY <1>2, <2>10, <3>1 DEF Fields
  <2>12. t.Nr = until /\ t.CKr.n = until /\ t.CKr.root = s.CKr.root
    BY <1>2, <1>3, <2>1, <2>11 DEF count
  <2>13. ASSUME NEW m \in mine, m.DH = s.DHr, m.N >= until
         PROVE  m \notin got
    <3>1. m.N \in Nat
      BY DEF Fits
    <3>2. m.N >= s.Nr
      BY <1>2, <2>13, <3>1
    <3>3. QED
      BY <2>13, <3>2 DEF Reads
  <2>14. ASSUME NEW k \in t.Skipped
         PROVE  (\E m \in mine \ got : k = KeyOf(m)) /\ (k.DH = s.DHr => k.N < until)
    <3>1. CASE k \in keys
      BY <2>3, <3>1
    <3>2. CASE k \in s.Skipped
      <4>1. PICK m \in mine \ got : k = KeyOf(m)
        BY <3>2 DEF Reads
      <4>2. k.N \in Nat
        BY <4>1 DEF KeyOf, Fits
      <4>3. k.DH = s.DHr => k.N < s.Nr
        BY <3>2 DEF Reads
      <4>4. QED
        BY <1>2, <4>1, <4>2, <4>3
    <3>3. QED
      BY <2>11, <3>1, <3>2
  <2>15. ASSUME NEW m \in mine \ got
         PROVE  KeyOf(m) \in t.Skipped \/ (m.DH = s.DHr /\ m.N >= until) \/ m \in coming
    <3>1. CASE KeyOf(m) \in s.Skipped \/ m \in coming
      BY <2>11, <3>1
    <3>2. CASE m.DH = s.DHr /\ m.N >= s.Nr
      <4>1. m.N \in Nat /\ m.mk = <<s.CKr.root, m.N>>
        BY <3>2 DEF Fits, Reads, ChainIs
      <4>2. CASE m.N < until
        <5>1. [DH |-> s.DHr, N |-> m.N, mk |-> <<s.CKr.root, m.N>>] \in keys
          BY <1>2, <2>4, <3>2, <4>1, <4>2
        <5>2. KeyOf(m) \in keys
          BY <3>2, <4>1, <5>1 DEF KeyOf
        <5>3. QED
          BY <2>11, <5>2
      <4>3. CASE ~(m.N < until)
        BY <3>2, <4>1, <4>3
      <4>4. QED
        BY <4>2, <4>3
    <3>3. QED
      BY <3>1, <3>2 DEF Reads
  <2>16. ASSUME NEW m \in coming
         PROVE  m \in mine \ got /\ m.DH # s.DHr /\ \A k \in t.Skipped : k.DH # m.DH
    BY <2>3, <2>11 DEF Reads
  <2>17. Reads(t, mine, got, len, coming)
    <3>1. t.CKr.n = t.Nr /\ t.Nr \in 0 .. len
      BY <1>3, <2>12
    <3>2. ChainIs(mine, t.DHr, len, t.CKr.root)
      BY <2>11, <2>12 DEF Reads
    <3>3. QED
      BY <2>11, <2>12, <2>13, <2>14, <2>15, <2>16, <3>1, <3>2 DEF Reads
  <2>18. SameEnds(s, t)
    BY <2>11, <2>12 DEF SameEnds
  <2>19. QED
    BY <1>1, <2>9, <2>10, <2>12, <2>17, <2>18
<1>6. QED
  BY <1>4, <1>5

\* A message in the chain that is being read is opened, and reading goes on behind it.
LEMMA OpeningReads ==
  ASSUME NEW s, NEW a \in {0, 1}, SessionOk(s, a), NEW mine, NEW got, NEW len, NEW coming,
         Reads(s, mine, got, len, coming), Fits(mine), Numbered(mine),
         NEW msg \in mine \ got, msg.DH = s.DHr, msg.N >= s.Nr
  PROVE  LET u == SkipMessageKeys(s, msg.N)
             t == [u.s EXCEPT !.CKr = Advance(@), !.Nr = @ + 1]
         IN  /\ u.ok /\ MessageKey(u.s.CKr) = msg.mk
             /\ SameEnds(s, t) /\ Reads(t, mine, got \union {msg}, len, coming)
<1>1. PICK u : u = SkipMessageKeys(s, msg.N)
  OBVIOUS
<1>2. /\ msg.N \in Nat /\ msg.N \in 0 .. (len - 1) /\ len \in Nat
      /\ msg.mk = <<s.CKr.root, msg.N>>
  BY DEF Fits, Reads, ChainIs
<1>3. PICK v : v = u.s
  OBVIOUS
<1>4. /\ u.ok /\ v.Nr = msg.N /\ SameEnds(s, v) /\ Reads(v, mine, got, len, coming)
      /\ SessionOk(v, a)
  <2>1. msg.N <= len
    BY <1>2
  <2>2. u.ok /\ u.s.Nr = msg.N /\ SameEnds(s, u.s) /\ Reads(u.s, mine, got, len, coming)
    BY <1>1, <1>2, <2>1, SkippingReads
  <2>3. SessionOk(u.s, a)
    BY <1>1, <1>2, SkippingKeeps
  <2>4. QED
    BY <1>3, <2>2, <2>3
<1>5. /\ DOMAIN v = Fields /\ v.CKr = [root |-> s.CKr.root, n |-> msg.N] /\ v.DHr = s.DHr
  BY <1>4 DEF SessionOk, IsChain, Reads, SameEnds
<1>6. MessageKey(v.CKr) = msg.mk
  <2>1. v.CKr.root = s.CKr.root /\ v.CKr.n = msg.N
    BY <1>5
  <2>2. QED
    BY <1>2, <2>1 DEF MessageKey
<1>7. Advance(v.CKr) = [root |-> s.CKr.root, n |-> msg.N + 1]
  BY <1>5 DEF Advance
<1>8. PICK t : t = [v EXCEPT !.CKr = Advance(@), !.Nr = @ + 1]
  OBVIOUS
<1>9. /\ t.on = v.on /\ t.DHs = v.DHs /\ t.DHr = v.DHr /\ t.RK = v.RK /\ t.CKs = v.CKs /\ t.PN = v.PN
      /\ t.Skipped = v.Skipped /\ t.Nr = v.Nr + 1 /\ t.CKr = [root |-> s.CKr.root, n |-> msg.N + 1]
  BY <1>5, <1>7, <1>8 DEF Fields
<1>10. t.Nr = msg.N + 1 /\ t.CKr.n = msg.N + 1 /\ t.CKr.root = s.CKr.root
  BY <1>4, <1>9
<1>11. SameEnds(s, t)
  BY <1>4, <1>9, <1>10 DEF SameEnds
<1>12. Reads(t, mine, got \union {msg}, len, coming)
  <2>1. t.CKr.n = t.Nr /\ t.Nr \in 0 .. len
    BY <1>2, <1>10
  <2>2. ChainIs(mine, t.DHr, len, t.CKr.root)
    BY <1>4, <1>5, <1>9, <1>10 DEF Reads
  <2>3. ASSUME NEW m \in mine, m.DH = t.DHr, m.N >= t.Nr PROVE m \notin got \union {msg}
    <3>1. m.N \in Nat
      BY DEF Fits
    <3>2. m.N >= v.Nr /\ m.N # msg.N
      BY <1>2, <1>4, <1>10, <2>3, <3>1
    <3>3. m \notin got
      BY <1>4, <1>9, <2>3, <3>2 DEF Reads
    <3>4. QED
      BY <3>2, <3>3
  <2>4. ASSUME NEW k \in t.Skipped
        PROVE  /\ \E m \in mine \ (got \union {msg}) : k = KeyOf(m)
               /\ k.DH = t.DHr => k.N < t.Nr
    <3>1. PICK m \in mine \ got : k = KeyOf(m)
      BY <1>4, <1>9 DEF Reads
    <3>2. k.DH = m.DH /\ k.N = m.N /\ m.N \in Nat
      BY <3>1 DEF KeyOf, Fits
    <3>3. k.DH = v.DHr => k.N < msg.N
      BY <1>4, <1>9 DEF Reads
    <3>4. m # msg
      BY <1>2, <1>5, <3>2, <3>3
    <3>5. QED
      BY <1>2, <1>9, <1>10, <3>1, <3>2, <3>3, <3>4
  <2>5. ASSUME NEW m \in mine \ (got \union {msg})
        PROVE  KeyOf(m) \in t.Skipped \/ (m.DH = t.DHr /\ m.N >= t.Nr) \/ m \in coming
    <3>1. KeyOf(m) \in v.Skipped \/ (m.DH = v.DHr /\ m.N >= v.Nr) \/ m \in coming
      BY <1>4 DEF Reads
    <3>2. CASE m.DH = v.DHr /\ m.N >= v.Nr
      <4>1. m.N \in Nat /\ m.N # msg.N
        BY <1>5, <2>5, <3>2 DEF Fits, Numbered
      <4>2. m.N >= t.Nr
        BY <1>2, <1>4, <1>10, <3>2, <4>1
      <4>3. QED
        BY <1>9, <3>2, <4>2
    <3>3. QED
      BY <1>9, <3>1, <3>2
  <2>6. ASSUME NEW m \in coming
        PROVE  m \in mine \ (got \union {msg}) /\ m.DH # t.DHr /\ \A k \in t.Skipped : k.DH # m.DH
    <3>1. m \in mine \ got /\ m.DH # v.DHr /\ \A k \in v.Skipped : k.DH # m.DH
      BY <1>4 DEF Reads
    <3>2. m # msg
      BY <1>5, <3>1
    <3>3. QED
      BY <1>9, <3>1, <3>2
  <2>7. QED
    BY <2>1, <2>2, <2>3, <2>4, <2>5, <2>6 DEF Reads
<1>13. QED
  BY <1>1, <1>3, <1>4, <1>6, <1>8, <1>11, <1>12

\* A message that is missing, or to come in the chain that is being read, is opened.
LEMMA ReadingGoesOn ==
  ASSUME NEW s, NEW a \in {0, 1}, SessionOk(s, a), NEW mine, NEW got, NEW len, NEW coming,
         Reads(s, mine, got, len, coming), Fits(mine), Numbered(mine),
         NEW msg \in mine \ got, msg \notin coming, NEW fresh
  PROVE  LET d == Decrypt(s, msg, fresh)
         IN  d.ok /\ SameEnds(s, d.s) /\ Reads(d.s, mine, got \union {msg}, len, coming)
<1> DEFINE stored == {k \in s.Skipped : k.DH = msg.DH /\ k.N = msg.N}
<1>1. PICK d : d = Decrypt(s, msg, fresh)
  OBVIOUS
<1>2. \A k \in s.Skipped : k.DH = msg.DH /\ k.N = msg.N => k = KeyOf(msg)
  <2>1. ASSUME NEW k \in s.Skipped, k.DH = msg.DH, k.N = msg.N PROVE k = KeyOf(msg)
    <3>1. PICK m \in mine \ got : k = KeyOf(m)
      BY DEF Reads
    <3>2. m.DH = msg.DH /\ m.N = msg.N
      BY <2>1, <3>1 DEF KeyOf
    <3>3. m = msg
      BY <3>2 DEF Numbered
    <3>4. QED
      BY <3>1, <3>3
  <2>2. QED
    BY <2>1
<1>3. DOMAIN s = Fields
  BY DEF SessionOk
<1>4. CASE KeyOf(msg) \in s.Skipped
  <2>1. KeyOf(msg).DH = msg.DH /\ KeyOf(msg).N = msg.N /\ KeyOf(msg).mk = msg.mk
    BY DEF KeyOf
  <2>2. stored = {KeyOf(msg)}
    BY <1>2, <1>4, <2>1
  <2>3. PICK t : t = [s EXCEPT !.Skipped = {k \in @ : k \notin stored \/ k.mk # msg.mk}]
    OBVIOUS
  <2>4. d = [ok |-> \E k \in stored : k.mk = msg.mk, s |-> t]
    <3>1. stored # {}
      BY <2>2
    <3>2. QED
      BY <1>1, <2>3, <3>1 DEF Decrypt
  <2>5. d.ok /\ d.s = t
    BY <2>1, <2>2, <2>4
  <2>6. /\ t.on = s.on /\ t.DHs = s.DHs /\ t.DHr = s.DHr /\ t.RK = s.RK /\ t.CKs = s.CKs /\ t.PN = s.PN
        /\ t.CKr = s.CKr /\ t.Nr = s.Nr
        /\ t.Skipped = {k \in s.Skipped : k \notin stored \/ k.mk # msg.mk}
    <3> HIDE DEF stored
    <3>1. QED
      BY <1>3, <2>3 DEF Fields
  <2>7. t.Skipped = s.Skipped \ {KeyOf(msg)}
    BY <2>1, <2>2, <2>6
  <2>8. SameEnds(s, t)
    BY <2>6 DEF SameEnds
  <2> HIDE DEF stored
  <2>9. Reads(t, mine, got \union {msg}, len, coming)
    <3>1. t.CKr.n = t.Nr /\ t.Nr \in 0 .. len /\ ChainIs(mine, t.DHr, len, t.CKr.root)
      BY <2>6 DEF Reads
    <3>2. ASSUME NEW m \in mine, m.DH = t.DHr, m.N >= t.Nr PROVE m \notin got \union {msg}
      <4>1. m \notin got
        BY <2>6, <3>2 DEF Reads
      <4>2. m # msg
        <5>1. msg.DH = s.DHr => msg.N < s.Nr
          BY <1>4, <2>1 DEF Reads
        <5>2. msg.N \in Nat /\ s.Nr \in Nat
          BY DEF Fits, SessionOk
        <5>3. QED
          BY <2>6, <3>2, <5>1, <5>2
      <4>3. QED
        BY <4>1, <4>2
    <3>3. ASSUME NEW k \in t.Skipped
          PROVE  /\ \E m \in mine \ (got \union {msg}) : k = KeyOf(m)
                 /\ k.DH = t.DHr => k.N < t.Nr
      BY <2>6, <2>7 DEF Reads
    <3>4. ASSUME NEW m \in mine \ (got \union {msg})
          PROVE  KeyOf(m) \in t.Skipped \/ (m.DH = t.DHr /\ m.N >= t.Nr) \/ m \in coming
      <4>1. KeyOf(m) # KeyOf(msg)
        <5>1. KeyOf(m).DH = m.DH /\ KeyOf(m).N = m.N
          BY DEF KeyOf
        <5>2. QED
          BY <2>1, <3>4, <5>1 DEF Numbered
      <4>2. KeyOf(m) \in s.Skipped \/ (m.DH = s.DHr /\ m.N >= s.Nr) \/ m \in coming
        BY DEF Reads
      <4>3. QED
        BY <2>6, <2>7, <4>1, <4>2
    <3>5. ASSUME NEW m \in coming
          PROVE  m \in mine \ (got \union {msg}) /\ m.DH # t.DHr /\ \A k \in t.Skipped : k.DH # m.DH
      BY <2>6, <2>7 DEF Reads
    <3>6. QED
      BY <3>1, <3>2, <3>3, <3>4, <3>5 DEF Reads
  <2>10. QED
    BY <1>1, <2>5, <2>8, <2>9
<1>5. CASE KeyOf(msg) \notin s.Skipped
  <2>1. msg.DH = s.DHr /\ msg.N >= s.Nr
    BY <1>5 DEF Reads
  <2>2. stored = {}
    BY <1>2, <1>5
  <2>3. PICK u : u = SkipMessageKeys(s, msg.N)
    OBVIOUS
  <2>4. PICK t : t = [u.s EXCEPT !.CKr = Advance(@), !.Nr = @ + 1]
    OBVIOUS
  <2>5. /\ u.ok /\ MessageKey(u.s.CKr) = msg.mk
        /\ SameEnds(s, t) /\ Reads(t, mine, got \union {msg}, len, coming)
    BY <2>1, <2>3, <2>4, OpeningReads
  <2>6. d = [ok |-> MessageKey(u.s.CKr) = msg.mk, s |-> t]
    BY <1>1, <2>1, <2>2, <2>3, <2>4, <2>5 DEF Decrypt
  <2>7. d.ok /\ d.s = t
    BY <2>5, <2>6
  <2>8. QED
    BY <1>1, <2>5, <2>7
<1>6. QED
  BY <1>4, <1>5

\* The messages under a ratchet key.
Under(mine, dh) == {m \in mine : m.DH = dh}

\* What a turn of the ratchet makes of a session: two new chains.
Turned(s, t, theirs, fresh, root) ==
  /\ t.on /\ t.DHs = fresh /\ t.DHr = theirs /\ t.PN = s.CKs.n /\ t.CKr.root = root
  /\ t.RK = kdfRK(root, DH(fresh, theirs)) /\ t.CKs = Chain(t.RK)

IsSession(s) == \E a \in {0, 1} : SessionOk(s, a)

\* A message of the chain that is to come turns the ratchet, and is opened.
LEMMA TurningReads ==
  ASSUME NEW s, NEW mine, NEW got, NEW len, NEW coming, NEW msg, NEW fresh, NEW next,
         NEW root, NEW d,
         IsSession(s), s.on,
         Reads(s, mine, got, len, coming), Fits(mine), Numbered(mine),
         msg \in coming, msg.PN = len,
         coming = Under(mine, msg.DH),
         root = kdfRK(s.RK, DH(s.DHs, msg.DH)),
         ChainIs(mine, msg.DH, next, root),
         d = Decrypt(s, msg, fresh)
  PROVE  /\ d.ok /\ Reads(d.s, mine, got \union {msg}, next, {})
         /\ Turned(s, d.s, msg.DH, fresh, root)
<1> DEFINE stored == {k \in s.Skipped : k.DH = msg.DH /\ k.N = msg.N}
           newest == kdfRK(root, DH(fresh, msg.DH))
<1>1. PICK a \in {0, 1} : SessionOk(s, a)
  BY DEF IsSession
<1>2. /\ msg \in mine \ got /\ msg.DH # s.DHr /\ \A k \in s.Skipped : k.DH # msg.DH
      /\ len \in Nat /\ next \in Nat /\ s.Nr \in Nat /\ s.Nr <= len
  BY <1>1 DEF Reads, ChainIs
<1>3. stored = {} /\ \A m \in mine : m \in coming <=> m.DH = msg.DH
  BY <1>2 DEF Under
<1>4. PICK v : v = SkipMessageKeys(s, len).s
  OBVIOUS
<1>5. /\ SkipMessageKeys(s, len).ok /\ v.Nr = len /\ SameEnds(s, v)
      /\ Reads(v, mine, got, len, coming) /\ SessionOk(v, a)
  <2>1. LET u == SkipMessageKeys(s, len)
        IN  u.ok /\ u.s.Nr = len /\ SameEnds(s, u.s) /\ Reads(u.s, mine, got, len, coming)
    BY <1>1, <1>2, SkippingReads
  <2>2. SessionOk(v, a)
    BY <1>1, <1>2, <1>4, SkippingKeeps
  <2>3. QED
    BY <1>4, <2>1, <2>2
<1>6. PICK w : w = DhRatchet(v, msg.DH, fresh)
  OBVIOUS
<1>7. /\ v.RK = s.RK /\ v.DHs = s.DHs /\ v.CKs = s.CKs /\ v.DHr = s.DHr /\ v.on /\ DOMAIN v = Fields
  BY <1>5 DEF SameEnds, SessionOk
<1>8. w = [v EXCEPT !.PN = v.CKs.n, !.Nr = 0, !.DHr = msg.DH, !.DHs = fresh, !.RK = newest,
                    !.CKr = Chain(root), !.CKs = Chain(newest)]
  BY <1>6, <1>7 DEF DhRatchet
<1> HIDE DEF stored, newest
<1>9. /\ w.on /\ w.PN = s.CKs.n /\ w.Nr = 0 /\ w.DHr = msg.DH /\ w.DHs = fresh /\ w.RK = newest
      /\ w.CKr = Chain(root) /\ w.CKs = Chain(newest) /\ w.Skipped = v.Skipped
  BY <1>7, <1>8 DEF Fields
<1>10. w.CKr.root = root /\ w.CKr.n = 0
  BY <1>9 DEF Chain
<1>11. SessionOk(w, a)
  BY <1>1, <1>5, <1>6, <1>7, TurningKeeps DEF Follows
<1>12. Reads(w, mine, got, next, {})
  <2>1. w.CKr.n = w.Nr /\ w.Nr \in 0 .. next
    BY <1>2, <1>9, <1>10
  <2>2. ChainIs(mine, w.DHr, next, w.CKr.root)
    BY <1>9, <1>10
  <2>3. ASSUME NEW m \in mine, m.DH = w.DHr PROVE m \in coming /\ m \notin got
    BY <1>3, <1>9, <2>3 DEF Reads
  <2>4. ASSUME NEW k \in w.Skipped
        PROVE  (\E m \in mine \ got : k = KeyOf(m)) /\ (k.DH = w.DHr => k.N < w.Nr)
    <3>1. k \in v.Skipped
      BY <1>9
    <3>2. k.DH # msg.DH
      BY <1>5, <3>1 DEF Reads
    <3>3. QED
      BY <1>5, <1>9, <3>1, <3>2 DEF Reads
  <2>5. ASSUME NEW m \in mine \ got
        PROVE  KeyOf(m) \in w.Skipped \/ (m.DH = w.DHr /\ m.N >= w.Nr)
    <3>1. m.N \in Nat
      BY DEF Fits
    <3>2. KeyOf(m) \in v.Skipped \/ (m.DH = v.DHr /\ m.N >= v.Nr) \/ m \in coming
      BY <1>5 DEF Reads
    <3>3. CASE m.DH = v.DHr /\ m.N >= v.Nr
      <4>1. m.N \in 0 .. (len - 1)
        BY <1>5, <3>3 DEF Reads, ChainIs
      <4>2. QED
        BY <1>2, <1>5, <3>3, <4>1
    <3>4. CASE m \in coming
      <4>1. m.DH = msg.DH
        BY <1>3, <3>4
      <4>2. QED
        BY <1>9, <3>1, <4>1
    <3>5. QED
      BY <1>9, <3>2, <3>3, <3>4
  <2>6. QED
    BY <2>1, <2>2, <2>3, <2>4, <2>5 DEF Reads
<1>13. PICK u : u = SkipMessageKeys(w, msg.N)
  OBVIOUS
<1>14. PICK t : t = [u.s EXCEPT !.CKr = Advance(@), !.Nr = @ + 1]
  OBVIOUS
<1>15. /\ u.ok /\ MessageKey(u.s.CKr) = msg.mk
       /\ SameEnds(w, t) /\ Reads(t, mine, got \union {msg}, next, {})
  <2>1. msg.DH = w.DHr /\ msg.N >= w.Nr /\ msg \in mine \ got
    BY <1>2, <1>9 DEF Fits
  <2>2. LET y == SkipMessageKeys(w, msg.N)
            z == [y.s EXCEPT !.CKr = Advance(@), !.Nr = @ + 1]
        IN  /\ y.ok /\ MessageKey(y.s.CKr) = msg.mk
            /\ SameEnds(w, z) /\ Reads(z, mine, got \union {msg}, next, {})
    BY ONLY <1>1, <1>11, <1>12, <2>1, Fits(mine), Numbered(mine), OpeningReads
  <2>3. QED
    BY <1>13, <1>14, <2>2
<1>16. d = [ok |-> MessageKey(u.s.CKr) = msg.mk, s |-> t]
  BY <1>2, <1>3, <1>4, <1>5, <1>6, <1>13, <1>14, <1>15 DEF Decrypt, stored
<1>17. d.ok /\ d.s = t
  BY ONLY <1>15, <1>16
<1>18. Turned(s, t, msg.DH, fresh, root)
  <2>1. /\ t.on = w.on /\ t.RK = w.RK /\ t.DHs = w.DHs /\ t.DHr = w.DHr /\ t.PN = w.PN
        /\ t.CKs = w.CKs /\ t.CKr.root = w.CKr.root
    BY <1>15 DEF SameEnds
  <2>2. QED
    BY ONLY <1>9, <1>10, <2>1 DEF Turned, newest
<1>19. QED
  BY ONLY <1>15, <1>17, <1>18

\* Session s is ahead of the other party's t: it has turned its ratchet to t's key, and t
\* has not turned to its.  The messages each wrote are mine and yours.
Leads(s, t, mine, yours, got) ==
  /\ s.DHr = t.DHs /\ s.DHs # t.DHr
  /\ s.CKr.root = t.CKs.root
  /\ s.CKs.root = s.RK /\ s.RK = kdfRK(t.RK, DH(s.DHs, t.DHs))
  /\ ChainIs(mine, s.DHs, s.CKs.n, s.CKs.root)
  /\ \A m \in mine : m.DH = s.DHs => m.PN = s.PN
  /\ Reads(s, yours, got, t.CKs.n, {})
  /\ Reads(t, mine, got, s.PN, {m \in mine : m.DH = s.DHs})

\* A message to someone else has arrived.
LEMMA ReadsOthers ==
  ASSUME NEW s, NEW mine, NEW got, NEW len, NEW coming, Reads(s, mine, got, len, coming),
         NEW msg, msg \notin mine
  PROVE  Reads(s, mine, got \union {msg}, len, coming)
<1>1. \A m \in mine : m \in got \union {msg} <=> m \in got
  OBVIOUS
<1>2. \A m : m \in mine \ (got \union {msg}) <=> m \in mine \ got
  OBVIOUS
<1>3. QED
  BY <1>1, <1>2 DEF Reads

\* The party that is ahead reads.
LEMMA AheadReads ==
  ASSUME NEW s, NEW t, NEW mine, NEW yours, NEW got, Leads(s, t, mine, yours, got),
         NEW msg, msg \notin mine, NEW u, SameEnds(s, u),
         Reads(u, yours, got \union {msg}, t.CKs.n, {})
  PROVE  Leads(u, t, mine, yours, got \union {msg})
<1>1. Reads(t, mine, got \union {msg}, s.PN, {m \in mine : m.DH = s.DHs})
  BY ReadsOthers DEF Leads
<1>2. /\ u.DHs = s.DHs /\ u.DHr = s.DHr /\ u.RK = s.RK /\ u.CKs = s.CKs /\ u.PN = s.PN
      /\ u.CKr.root = s.CKr.root
  BY DEF SameEnds
<1>3. QED
  BY <1>1, <1>2 DEF Leads

\* The party that is behind reads.
LEMMA BehindReads ==
  ASSUME NEW s, NEW t, NEW mine, NEW yours, NEW got, Leads(s, t, mine, yours, got),
         NEW msg, msg \notin yours, NEW u, SameEnds(t, u),
         Reads(u, mine, got \union {msg}, s.PN, {m \in mine : m.DH = s.DHs})
  PROVE  Leads(s, u, mine, yours, got \union {msg})
<1>1. Reads(s, yours, got \union {msg}, t.CKs.n, {})
  BY ReadsOthers DEF Leads
<1>2. u.DHs = t.DHs /\ u.DHr = t.DHr /\ u.RK = t.RK /\ u.CKs = t.CKs
  BY DEF SameEnds
<1>3. QED
  BY <1>1, <1>2 DEF Leads

\* The party that is behind turns its ratchet, with a key that is new, and is ahead.
LEMMA BehindTurns ==
  ASSUME NEW s, NEW t, NEW mine, NEW yours, NEW got, Leads(s, t, mine, yours, got),
         NEW msg, msg \notin yours, NEW u, NEW fresh,
         fresh # t.DHs, \A m \in yours : m.DH # fresh,
         Reads(u, mine, got \union {msg}, s.CKs.n, {}),
         u.DHs = fresh, u.DHr = s.DHs, u.PN = t.CKs.n, u.CKr.root = s.RK,
         u.RK = kdfRK(s.RK, DH(fresh, s.DHs)), u.CKs = Chain(u.RK)
  PROVE  Leads(u, s, yours, mine, got \union {msg})
<1>1. u.CKs.root = u.RK /\ u.CKs.n = 0
  BY DEF Chain
<1>2. Reads(s, yours, got \union {msg}, t.CKs.n, {})
  BY ReadsOthers DEF Leads
<1>3. {m \in yours : m.DH = u.DHs} = {}
  OBVIOUS
<1>4. ChainIs(yours, u.DHs, u.CKs.n, u.CKs.root)
  BY <1>1 DEF ChainIs
<1>5. Reads(s, yours, got \union {msg}, u.PN, {m \in yours : m.DH = u.DHs})
  BY <1>2, <1>3
<1>6. s.CKs.root = s.RK /\ s.DHr = t.DHs
  BY DEF Leads
<1>7. QED
  BY <1>1, <1>4, <1>5, <1>6 DEF Leads

\* A chain with one more message.
LEMMA ChainGrows ==
  ASSUME NEW mine, NEW dh, NEW len, NEW root, ChainIs(mine, dh, len, root),
         NEW msg, msg.DH = dh, msg.N = len, msg.mk = <<root, len>>
  PROVE  ChainIs(mine \union {msg}, dh, len + 1, root)
<1>1. len \in Nat /\ len + 1 \in Nat /\ (len + 1) - 1 = len
  BY DEF ChainIs
<1>2. ASSUME NEW m \in mine \union {msg}, m.DH = dh PROVE m.N \in 0 .. len /\ m.mk = <<root, m.N>>
  <2>1. CASE m \in mine
    BY <1>1, <1>2, <2>1 DEF ChainIs
  <2>2. CASE m = msg
    BY <1>1, <2>2
  <2>3. QED
    BY <2>1, <2>2
<1>3. ASSUME NEW n \in 0 .. len PROVE \E m \in mine \union {msg} : m.DH = dh /\ m.N = n
  <2>1. CASE n = len
    BY <2>1
  <2>2. CASE n # len
    <3>1. n \in 0 .. (len - 1)
      BY <1>1, <2>2
    <3>2. QED
      BY <3>1 DEF ChainIs
  <2>3. QED
    BY <2>1, <2>2
<1>4. QED
  BY <1>1, <1>2, <1>3 DEF ChainIs

\* A chain, when a message is written under another key.
LEMMA ChainStays ==
  ASSUME NEW mine, NEW dh, NEW len, NEW root, ChainIs(mine, dh, len, root), NEW msg, msg.DH # dh
  PROVE  ChainIs(mine \union {msg}, dh, len, root)
BY DEF ChainIs

\* What a session that seals a message keeps.
Advanced(s, u) ==
  /\ u.on = s.on /\ u.DHs = s.DHs /\ u.DHr = s.DHr /\ u.RK = s.RK /\ u.PN = s.PN
  /\ u.CKr = s.CKr /\ u.Nr = s.Nr /\ u.Skipped = s.Skipped
  /\ u.CKs.root = s.CKs.root /\ u.CKs.n = s.CKs.n + 1

SealedBy(s, msg) ==
  msg.DH = s.DHs /\ msg.PN = s.PN /\ msg.N = s.CKs.n /\ msg.mk = <<s.CKs.root, s.CKs.n>>

\* The party that is ahead writes: the message is one that is coming.
LEMMA AheadWrites ==
  ASSUME NEW s, NEW t, NEW mine, NEW yours, NEW got, Leads(s, t, mine, yours, got),
         NEW msg, SealedBy(s, msg), msg \notin got, NEW u, Advanced(s, u)
  PROVE  Leads(u, t, mine \union {msg}, yours, got)
<1> DEFINE coming == {m \in mine : m.DH = s.DHs}
           more == {m \in mine \union {msg} : m.DH = s.DHs}
<1>1. Reads(t, mine, got, s.PN, coming) /\ msg.DH # t.DHr /\ msg.DH = s.DHs
  BY DEF Leads, SealedBy
<1>2. ChainIs(mine \union {msg}, u.DHs, u.CKs.n, u.CKs.root)
  BY ChainGrows DEF Leads, SealedBy, Advanced
<1>3. \A m \in mine \union {msg} : m.DH = u.DHs => m.PN = u.PN
  BY DEF Leads, SealedBy, Advanced
<1>4. Reads(u, yours, got, t.CKs.n, {})
  <2>1. Reads(s, yours, got, t.CKs.n, {})
    BY DEF Leads
  <2>2. QED
    BY <2>1 DEF Reads, Advanced
<1>5. Reads(t, mine \union {msg}, got, u.PN, {m \in mine \union {msg} : m.DH = u.DHs})
  <2>1. t.CKr.n = t.Nr /\ t.Nr \in 0 .. s.PN
    BY <1>1 DEF Reads
  <2>2. ChainIs(mine \union {msg}, t.DHr, s.PN, t.CKr.root)
    BY <1>1, ChainStays DEF Reads
  <2>3. \A m \in mine \union {msg} : m.DH = t.DHr /\ m.N >= t.Nr => m \notin got
    BY <1>1 DEF Reads
  <2>4. \A k \in t.Skipped :
          (\E m \in (mine \union {msg}) \ got : k = KeyOf(m)) /\ (k.DH = t.DHr => k.N < t.Nr)
    <3>1. ASSUME NEW k \in t.Skipped
          PROVE  (\E m \in (mine \union {msg}) \ got : k = KeyOf(m)) /\ (k.DH = t.DHr => k.N < t.Nr)
      <4>1. PICK m \in mine \ got : k = KeyOf(m)
        BY <1>1 DEF Reads
      <4>2. QED
        BY <1>1, <4>1 DEF Reads
    <3>2. QED
      BY <3>1
  <2>5. ASSUME NEW m \in (mine \union {msg}) \ got
        PROVE  KeyOf(m) \in t.Skipped \/ (m.DH = t.DHr /\ m.N >= t.Nr) \/ m \in more
    <3>1. CASE m \in mine
      <4>1. KeyOf(m) \in t.Skipped \/ (m.DH = t.DHr /\ m.N >= t.Nr) \/ m \in coming
        BY <1>1, <3>1 DEF Reads
      <4>2. QED
        BY <3>1, <4>1
    <3>2. CASE m = msg
      BY <1>1, <3>2
    <3>3. QED
      BY <3>1, <3>2
  <2>6. ASSUME NEW k \in t.Skipped PROVE k.DH # s.DHs
    <3>1. PICK m \in mine \ got : k = KeyOf(m)
      BY <1>1 DEF Reads
    <3>2. k.DH = m.DH
      BY <3>1 DEF KeyOf
    <3>3. CASE m.DH = s.DHs
      <4>1. m \in coming
        BY <3>3
      <4>2. k.DH # m.DH
        BY <1>1, <4>1 DEF Reads
      <4>3. QED
        BY <3>2, <4>2
    <3>4. QED
      BY <3>2, <3>3
  <2>7. ASSUME NEW m \in more
        PROVE  m \in (mine \union {msg}) \ got /\ m.DH # t.DHr /\ \A k \in t.Skipped : k.DH # m.DH
    <3>1. m \in coming \/ m = msg
      OBVIOUS
    <3>2. m \notin got /\ m.DH # t.DHr
      BY <1>1, <3>1 DEF Reads
    <3>3. QED
      BY <2>6, <3>2
  <2>8. u.PN = s.PN /\ u.DHs = s.DHs
    BY DEF Advanced
  <2> HIDE DEF more
  <2>9. Reads(t, mine \union {msg}, got, s.PN, more)
    BY <2>1, <2>2, <2>3, <2>4, <2>5, <2>7 DEF Reads
  <2>10. QED
    BY <2>8, <2>9 DEF more
<1>6. QED
  BY <1>2, <1>3, <1>4, <1>5 DEF Leads, Advanced

\* The party that is behind writes: the chain that the other reads is longer.
LEMMA BehindWrites ==
  ASSUME NEW s, NEW t, NEW mine, NEW yours, NEW got, Leads(s, t, mine, yours, got),
         NEW msg, SealedBy(t, msg), msg \notin got, NEW u, Advanced(t, u)
  PROVE  Leads(s, u, mine, yours \union {msg}, got)
<1>1. Reads(s, yours, got, t.CKs.n, {}) /\ msg.DH = s.DHr /\ t.CKs.n \in Nat /\ s.CKr.root = t.CKs.root
  BY DEF Leads, SealedBy, Reads, ChainIs
<1>2. Reads(s, yours \union {msg}, got, u.CKs.n, {})
  <2>1. s.CKr.n = s.Nr /\ s.Nr \in 0 .. t.CKs.n /\ u.CKs.n = t.CKs.n + 1
    BY <1>1 DEF Reads, Advanced
  <2>2. s.Nr \in 0 .. u.CKs.n
    BY <1>1, <2>1
  <2>3. ChainIs(yours \union {msg}, s.DHr, u.CKs.n, s.CKr.root)
    BY <1>1, <2>1, ChainGrows DEF Reads, SealedBy
  <2>4. \A m \in yours \union {msg} : m.DH = s.DHr /\ m.N >= s.Nr => m \notin got
    BY <1>1 DEF Reads
  <2>5. \A k \in s.Skipped :
          (\E m \in (yours \union {msg}) \ got : k = KeyOf(m)) /\ (k.DH = s.DHr => k.N < s.Nr)
    <3>1. ASSUME NEW k \in s.Skipped
          PROVE  (\E m \in (yours \union {msg}) \ got : k = KeyOf(m)) /\ (k.DH = s.DHr => k.N < s.Nr)
      <4>1. PICK m \in yours \ got : k = KeyOf(m)
        BY <1>1 DEF Reads
      <4>2. QED
        BY <1>1, <4>1 DEF Reads
    <3>2. QED
      BY <3>1
  <2>6. ASSUME NEW m \in (yours \union {msg}) \ got
        PROVE  KeyOf(m) \in s.Skipped \/ (m.DH = s.DHr /\ m.N >= s.Nr)
    <3>1. CASE m \in yours
      BY <1>1, <3>1 DEF Reads
    <3>2. CASE m = msg
      <4>1. m.N = t.CKs.n
        BY <3>2 DEF SealedBy
      <4>2. QED
        BY <1>1, <2>1, <3>2, <4>1
    <3>3. QED
      BY <3>1, <3>2
  <2>7. QED
    BY <2>1, <2>2, <2>3, <2>4, <2>5, <2>6 DEF Reads
<1>3. Reads(u, mine, got, s.PN, {m \in mine : m.DH = s.DHs})
  <2>1. Reads(t, mine, got, s.PN, {m \in mine : m.DH = s.DHs})
    BY DEF Leads
  <2>2. QED
    BY <2>1 DEF Reads, Advanced
<1>4. QED
  BY <1>2, <1>3 DEF Leads, Advanced

Written(p) == {m \in sent : m.from = p}

\* The session of a party, the responder's also before it has one.
Side(p) == IF sessions[p].on THEN sessions[p] ELSE InitBob(bundle)

Ahead(p) == Leads(Side(p), Side(Peer(p)), Written(p), Written(Peer(p)), arrived)

\* A ratchet key that the party has generated.
Own(p, dh) == \E i \in 0 .. keyCount[p] - 1 : dh = Key(p, i)

Orderly(p) ==
  /\ Numbered(Written(p))
  /\ \A m \in Written(p) : Own(p, m.DH)
  /\ Own(p, Side(p).DHs)

InStep ==
  /\ failed = {}
  /\ \A p \in Parties : Orderly(p)
  /\ \E p \in Parties : Ahead(p)

LateInv ==
  /\ repeats \in Nat /\ IsFiniteSet(sent) /\ arrived \subseteq sent
  /\ keyCount \in [Parties -> Nat]
  /\ repeats = 0 /\ FewSent => InStep

\* At first the initiator is ahead: its first message turns the responder's ratchet.
LEMMA LateStarts == RatchetInit => LateInv
<1> SUFFICES ASSUME RatchetInit PROVE LateInv
  OBVIOUS
<1>1. /\ sessions = [p \in Parties |-> IF p = "alice" THEN InitAlice(bundle) ELSE NoSession]
      /\ keyCount = [p \in Parties |-> 1] /\ sent = {} /\ arrived = {} /\ failed = {} /\ repeats = 0
  BY DEF RatchetInit
<1>2. PICK s, t : s = Side("alice") /\ t = Side("bob")
  OBVIOUS
<1>3. s = InitAlice(bundle) /\ t = InitBob(bundle)
  <2>1. "alice" \in Parties /\ "bob" \in Parties
    BY DEF Parties
  <2>2. sessions["alice"] = InitAlice(bundle) /\ sessions["bob"] = NoSession
    BY <1>1, <2>1
  <2>3. InitAlice(bundle).on /\ ~NoSession.on
    BY DEF InitAlice, NoSession
  <2>4. QED
    BY <1>2, <2>2, <2>3 DEF Side
<1>4. /\ s.DHs = Key("alice", 0) /\ s.DHr = SignedPreKey /\ s.CKr = NoChain /\ s.Nr = 0 /\ s.PN = 0
      /\ s.RK = kdfRK(InitiatorSecret(bundle), DH(Key("alice", 0), SignedPreKey))
      /\ s.CKs = Chain(s.RK) /\ s.Skipped = {}
  <2> DEFINE root == kdfRK(InitiatorSecret(bundle), DH(Key("alice", 0), SignedPreKey))
  <2>1. s = [NoSession EXCEPT !.on = TRUE, !.DHs = Key("alice", 0), !.DHr = SignedPreKey, !.RK = root,
                              !.CKs = Chain(root)]
    BY <1>3 DEF InitAlice
  <2> HIDE DEF root
  <2>2. /\ s.DHs = Key("alice", 0) /\ s.DHr = SignedPreKey /\ s.CKr = NoChain /\ s.Nr = 0 /\ s.PN = 0
        /\ s.RK = root /\ s.CKs = Chain(root) /\ s.Skipped = {}
    BY <2>1 DEF NoSession
  <2>3. QED
    BY <2>2 DEF root
<1>5. /\ t.DHs = SignedPreKey /\ t.DHr = Nothing /\ t.CKr = NoChain /\ t.CKs = NoChain /\ t.Nr = 0
      /\ t.RK = ResponderSecret(bundle) /\ t.Skipped = {}
  <2> DEFINE secret == ResponderSecret(bundle)
  <2>1. t = [NoSession EXCEPT !.on = TRUE, !.DHs = SignedPreKey, !.RK = secret]
    BY <1>3 DEF InitBob
  <2> HIDE DEF secret
  <2>2. /\ t.DHs = SignedPreKey /\ t.DHr = Nothing /\ t.CKr = NoChain /\ t.CKs = NoChain /\ t.Nr = 0
        /\ t.RK = secret /\ t.Skipped = {}
    BY <2>1 DEF NoSession
  <2>3. QED
    BY <2>2 DEF secret
<1>6. InitiatorSecret(bundle) = ResponderSecret(bundle) /\ \A x, y : DH(x, y) = DH(y, x)
  <2>1. \A x, y : DH(x, y) = DH(y, x)
    BY DEF DH
  <2>2. QED
    BY <2>1 DEF InitiatorSecret, ResponderSecret
<1>7. Written("alice") = {} /\ Written("bob") = {}
  BY <1>1 DEF Written
<1>8. NoChain.root = Nothing /\ NoChain.n = 0 /\ Chain(s.RK).root = s.RK /\ Chain(s.RK).n = 0
  BY DEF NoChain, Chain
<1>9. \A dh, root : ChainIs({}, dh, 0, root)
  BY DEF ChainIs
<1>10. Key("alice", 0) # Nothing
  BY DEF Key, Nothing
<1>11. Reads(s, {}, {}, 0, {}) /\ Reads(t, {}, {}, 0, {})
  BY <1>4, <1>5, <1>8, <1>9 DEF Reads
<1>12. Leads(s, t, {}, {}, {})
  <2>1. {m \in {} : m.DH = s.DHs} = {}
    OBVIOUS
  <2>2. Reads(s, {}, {}, t.CKs.n, {}) /\ Reads(t, {}, {}, s.PN, {m \in {} : m.DH = s.DHs})
    BY <1>4, <1>5, <1>8, <1>11, <2>1
  <2>3. ChainIs({}, s.DHs, s.CKs.n, s.CKs.root)
    BY <1>4, <1>8, <1>9
  <2>4. s.RK = kdfRK(t.RK, DH(s.DHs, t.DHs))
    BY <1>4, <1>5, <1>6
  <2>5. s.DHs # t.DHr
    BY <1>4, <1>5, <1>10
  <2>6. QED
    BY <1>4, <1>5, <1>8, <2>2, <2>3, <2>4, <2>5 DEF Leads
<1>13. Ahead("alice")
  <2>1. Peer("alice") = "bob"
    BY DEF Peer
  <2>2. QED
    BY <1>1, <1>2, <1>7, <1>12, <2>1 DEF Ahead
<1>14. \A p \in Parties : Orderly(p)
  <2>1. \A p \in Parties : Own(p, Key(p, 0))
    BY <1>1 DEF Own
  <2>2. s.DHs = Key("alice", 0) /\ t.DHs = Key("bob", 0)
    BY <1>4, <1>5 DEF SignedPreKey
  <2>3. Own("alice", s.DHs) /\ Own("bob", t.DHs)
    BY <2>1, <2>2 DEF Parties
  <2>4. QED
    BY <1>2, <1>7, <2>3 DEF Orderly, Numbered, Parties
<1>15. InStep
  BY <1>1, <1>13, <1>14 DEF InStep, Parties
<1>16. IsFiniteSet(sent)
  BY <1>1, FS_EmptySet
<1>17. QED
  BY <1>1, <1>15, <1>16 DEF LateInv

\* As long as few messages were written, there is room for their keys.
LEMMA AllFits ==
  ASSUME RatchetInv, LateInv, FewSent, NEW p \in Parties
  PROVE  Fits(Written(p))
<1>1. Cardinality(Written(p)) <= MaxSkip
  BY DEF FewSent, Written
<1>2. IsFiniteSet(Written(p))
  BY FS_Subset DEF LateInv, Written
<1>3. \A m \in Written(p) : m.N \in Nat /\ IsKey(m.mk)
  BY DEF Written, RatchetInv, SentOk, Used
<1>4. QED
  BY <1>1, <1>2, <1>3 DEF Fits

\* A message is written: by the party that is ahead, or by the other.
LEMMA LateWritten == ASSUME NEW p \in Parties, RatchetInv, LateInv, Encrypt(p) PROVE LateInv'
<1>1. PICK s : s = sessions[p]
  OBVIOUS
<1>2. PICK msg : msg = [from |-> p, DH |-> s.DHs, PN |-> s.PN, N |-> s.CKs.n, mk |-> MessageKey(s.CKs)]
  OBVIOUS
<1>3. /\ s.on /\ sent' = sent \union {msg}
      /\ sessions' = [sessions EXCEPT ![p].CKs = Advance(@)]
      /\ UNCHANGED <<bundle, keyCount, arrived, failed, repeats>>
  BY <1>1, <1>2 DEF Encrypt
<1>4. SessionOk(s, Parity(p)) /\ DOMAIN sessions = Parties
  BY <1>1 DEF RatchetInv, SessionsOk
<1>5. PICK u : u = [s EXCEPT !.CKs = Advance(@)]
  OBVIOUS
<1>6. sessions'[p] = u /\ \A q \in Parties \ {p} : sessions'[q] = sessions[q]
  BY <1>1, <1>3, <1>4, <1>5
<1>7. Advanced(s, u)
  <2>1. DOMAIN s = Fields /\ s.CKs = [root |-> s.CKs.root, n |-> s.CKs.n]
    BY <1>4 DEF SessionOk, IsChain
  <2>2. Advance(s.CKs) = [root |-> s.CKs.root, n |-> s.CKs.n + 1]
    BY <2>1 DEF Advance
  <2>3. /\ u.on = s.on /\ u.DHs = s.DHs /\ u.DHr = s.DHr /\ u.RK = s.RK /\ u.PN = s.PN
        /\ u.CKr = s.CKr /\ u.Nr = s.Nr /\ u.Skipped = s.Skipped
        /\ u.CKs = [root |-> s.CKs.root, n |-> s.CKs.n + 1]
    BY <1>5, <2>1, <2>2 DEF Fields
  <2>4. QED
    BY <2>3 DEF Advanced
<1>8. SealedBy(s, msg) /\ msg.from = p
  <2>1. MessageKey(s.CKs) = <<s.CKs.root, s.CKs.n>>
    BY DEF MessageKey
  <2>2. QED
    BY <1>2, <2>1 DEF SealedBy
<1>9. /\ Written(p)' = Written(p) \union {msg}
      /\ \A q \in Parties \ {p} : Written(q)' = Written(q)
  BY <1>3, <1>8 DEF Written
<1>10. /\ Side(p) = s /\ Side(p)' = u
       /\ \A q \in Parties \ {p} : Side(q)' = Side(q)
  BY <1>1, <1>3, <1>6, <1>7 DEF Side, Advanced
<1>11. /\ repeats' \in Nat /\ IsFiniteSet(sent') /\ arrived' \subseteq sent'
       /\ keyCount' \in [Parties -> Nat]
  BY <1>3, FS_AddElement DEF LateInv
<1>12. ASSUME repeats' = 0, FewSent' PROVE InStep'
  <2>1. FewSent
    <3>1. ASSUME NEW q \in Parties PROVE Cardinality(Written(q)) <= MaxSkip
      <4>1. Cardinality(Written(q)') <= MaxSkip
        BY <1>12 DEF FewSent, Written
      <4>2. IsFiniteSet(Written(q)')
        BY <1>11, FS_Subset DEF Written
      <4>3. Written(q) \in SUBSET (Written(q)')
        BY <1>9
      <4>4. IsFiniteSet(Written(q)) /\ Cardinality(Written(q)) <= Cardinality(Written(q)')
        BY <4>2, <4>3, FS_Subset
      <4>5. Cardinality(Written(q)) \in Nat /\ Cardinality(Written(q)') \in Nat
        BY <4>2, <4>4, FS_CardinalityType
      <4>6. QED
        BY <4>1, <4>4, <4>5, SkipAssumption
    <3>2. QED
      BY <3>1 DEF FewSent, Written
  <2>2. InStep
    BY <1>3, <1>12, <2>1 DEF LateInv
  <2>3. PICK a \in Parties : Ahead(a)
    BY <2>2 DEF InStep
  <2>4. PICK b : b = Peer(a)
    OBVIOUS
  <2>5. b \in Parties /\ a # b /\ Peer(b) = a /\ (p = a \/ p = b)
    BY <2>4 DEF Parties, Peer
  <2>6. Leads(Side(a), Side(b), Written(a), Written(b), arrived)
    BY <2>3, <2>4 DEF Ahead
  <2>7. ChainIs(Written(p), s.DHs, s.CKs.n, s.CKs.root)
    <3>1. CASE p = a
      BY <1>10, <2>6, <3>1 DEF Leads
    <3>2. CASE p = b
      BY <1>10, <2>6, <3>2 DEF Leads, Reads
    <3>3. QED
      BY <2>5, <3>1, <3>2
  <2>8. \A m \in Written(p) : ~(m.DH = msg.DH /\ m.N = msg.N)
    <3>1. ASSUME NEW m \in Written(p), m.DH = msg.DH, m.N = msg.N PROVE FALSE
      <4>1. m.DH = s.DHs /\ m.N = s.CKs.n
        BY <1>8, <3>1 DEF SealedBy
      <4>2. s.CKs.n \in 0 .. (s.CKs.n - 1) /\ s.CKs.n \in Nat
        BY <2>7, <4>1 DEF ChainIs
      <4>3. QED
        BY <4>2
    <3>2. QED
      BY <3>1
  <2>9. msg \notin arrived
    <3>1. msg \notin sent
      BY <1>8, <2>8 DEF Written
    <3>2. QED
      BY <3>1 DEF LateInv
  <2>10. Ahead(a)'
    <3>1. CASE p = a
      <4>1. Leads(u, Side(b), Written(a) \union {msg}, Written(b), arrived)
        BY <1>7, <1>8, <1>10, <2>6, <2>9, <3>1, AheadWrites
      <4>2. /\ Side(a)' = u /\ Side(b)' = Side(b) /\ arrived' = arrived
            /\ Written(a)' = Written(a) \union {msg} /\ Written(b)' = Written(b)
        BY <1>3, <1>9, <1>10, <2>5, <3>1
      <4>3. QED
        BY <2>4, <4>1, <4>2 DEF Ahead
    <3>2. CASE p = b
      <4>1. Leads(Side(a), u, Written(a), Written(b) \union {msg}, arrived)
        BY <1>7, <1>8, <1>10, <2>6, <2>9, <3>2, BehindWrites
      <4>2. /\ Side(b)' = u /\ Side(a)' = Side(a) /\ arrived' = arrived
            /\ Written(b)' = Written(b) \union {msg} /\ Written(a)' = Written(a)
        BY <1>3, <1>9, <1>10, <2>5, <3>2
      <4>3. QED
        BY <2>4, <4>1, <4>2 DEF Ahead
    <3>3. QED
      BY <2>5, <3>1, <3>2
  <2>11. ASSUME NEW q \in Parties PROVE Orderly(q)'
    <3>1. Orderly(q) /\ \A dh : Own(q, dh)' <=> Own(q, dh)
      BY <1>3, <2>2 DEF InStep, Own
    <3>2. CASE q # p
      <4>1. Written(q)' = Written(q) /\ Side(q)' = Side(q)
        BY <1>9, <1>10, <3>2
      <4>2. QED
        BY <3>1, <4>1 DEF Orderly, Own
    <3>3. CASE q = p
      <4>1. Written(q)' = Written(q) \union {msg} /\ Side(q)' = u /\ Side(q) = s
        BY <1>9, <1>10, <3>3
      <4>2. u.DHs = s.DHs /\ msg.DH = s.DHs
        BY <1>7, <1>8 DEF Advanced, SealedBy
      <4>3. Numbered(Written(q) \union {msg})
        BY <2>8, <3>1, <3>3 DEF Orderly, Numbered
      <4>4. Own(q, s.DHs) /\ \A m \in Written(q) : Own(q, m.DH)
        BY <3>1, <4>1 DEF Orderly
      <4>5. \A m \in Written(q)' : Own(q, m.DH)
        BY <4>1, <4>2, <4>4
      <4>6. Numbered(Written(q)') /\ Own(q, Side(q)'.DHs)
        BY <4>1, <4>2, <4>3, <4>4
      <4>7. QED
        BY <1>3, <4>5, <4>6 DEF Orderly, Own
    <3>4. QED
      BY <3>2, <3>3
  <2>12. QED
    BY <1>3, <2>2, <2>10, <2>11 DEF InStep
<1>13. QED
  BY <1>11, <1>12 DEF LateInv

\* The responder's session begins; until then it was as good as begun.
LEMMA LateResponded == ASSUME RatchetInv, LateInv, Respond PROVE LateInv'
<1>1. /\ ~sessions["bob"].on
      /\ sessions' = [sessions EXCEPT !["bob"] = InitBob(bundle)]
      /\ UNCHANGED <<bundle, keyCount, sent, arrived, failed, repeats>>
  BY DEF Respond
<1>2. DOMAIN sessions = Parties /\ "bob" \in Parties
  BY DEF RatchetInv, SessionsOk, Parties
<1>3. InitBob(bundle).on
  BY DEF InitBob, NoSession
<1>4. \A p \in Parties : Side(p)' = Side(p)
  <2>1. sessions'["bob"] = InitBob(bundle) /\ \A p \in Parties \ {"bob"} : sessions'[p] = sessions[p]
    BY <1>1, <1>2
  <2>2. Side("bob")' = Side("bob")
    BY <1>1, <1>3, <2>1 DEF Side
  <2>3. \A p \in Parties \ {"bob"} : Side(p)' = Side(p)
    BY <1>1, <2>1 DEF Side
  <2>4. QED
    BY <2>2, <2>3
<1>5. \A p : Written(p)' = Written(p)
  BY <1>1 DEF Written
<1>6. \A p \in Parties : Peer(p) \in Parties
  BY DEF Parties, Peer
<1>7. \A p \in Parties : (Ahead(p)' <=> Ahead(p)) /\ (Orderly(p)' <=> Orderly(p))
  <2>1. ASSUME NEW p \in Parties PROVE Ahead(p)' <=> Ahead(p)
    BY <1>1, <1>4, <1>5, <1>6 DEF Ahead
  <2>2. ASSUME NEW p \in Parties PROVE Orderly(p)' <=> Orderly(p)
    BY <1>1, <1>4, <1>5 DEF Orderly, Own
  <2>3. QED
    BY <2>1, <2>2
<1>8. InStep' <=> InStep
  BY <1>1, <1>7 DEF InStep
<1>9. QED
  BY <1>1, <1>8 DEF LateInv, FewSent

\* A message arrives, for the first time: it is opened.
LEMMA LateArrives == ASSUME NEW msg \in sent, RatchetInv, LateInv, Arrive(msg) PROVE LateInv'
<1>0. PICK p, fresh : p = Peer(msg.from) /\ fresh = Key(p, keyCount[p])
  OBVIOUS
<1>1. PICK s, d : s = sessions[p] /\ d = Decrypt(s, msg, fresh)
  OBVIOUS
<1>2. /\ s.on
      /\ IF msg \in arrived THEN repeats' = repeats + 1 ELSE UNCHANGED repeats
      /\ arrived' = arrived \union {msg}
      /\ sessions' = [sessions EXCEPT ![p] = d.s]
      /\ keyCount' = [keyCount EXCEPT ![p] = IF d.s.DHs # s.DHs THEN @ + 1 ELSE @]
      /\ d.ok => UNCHANGED failed
      /\ UNCHANGED <<bundle, sent>>
  BY <1>0, <1>1 DEF Arrive
<1>3. PICK q : q = msg.from
  OBVIOUS
<1>4. q \in Parties /\ p \in Parties /\ p # q /\ Peer(p) = q /\ Peer(q) = p
  <2>1. q \in Parties
    BY <1>3 DEF RatchetInv, SentOk
  <2>2. QED
    BY <1>0, <1>3, <2>1 DEF Parties, Peer
<1>5. SessionOk(s, Parity(p)) /\ DOMAIN sessions = Parties /\ Parity(p) \in {0, 1}
  BY <1>1, <1>4, Parities DEF RatchetInv, SessionsOk
<1>6. sessions'[p] = d.s /\ sessions'[q] = sessions[q]
  BY <1>2, <1>4, <1>5
<1>7. Side(p) = s /\ Side(q)' = Side(q) /\ (d.s.on => Side(p)' = d.s)
  BY <1>1, <1>2, <1>6 DEF Side
<1>8. \A a : Written(a)' = Written(a)
  BY <1>2 DEF Written
<1>9. keyCount[p] \in Nat /\ keyCount' \in [Parties -> Nat]
  BY <1>2, <1>4 DEF LateInv
<1>10. repeats' \in Nat /\ IsFiniteSet(sent') /\ arrived' \subseteq sent'
  BY <1>2 DEF LateInv
<1>11. ASSUME repeats' = 0, FewSent' PROVE InStep'
  <2>1. repeats = 0 /\ msg \notin arrived
    BY <1>2, <1>11 DEF LateInv
  <2>2. FewSent
    BY <1>2, <1>11 DEF FewSent
  <2>3. InStep
    BY <2>1, <2>2 DEF LateInv
  <2>4. Fits(Written(q)) /\ Numbered(Written(q)) /\ msg \in Written(q) /\ msg \notin Written(p)
        /\ msg \in Written(q) \ arrived
    <3>1. msg \in Written(q) /\ msg \notin Written(p)
      BY <1>3, <1>4 DEF Written
    <3>2. QED
      BY <1>4, <2>1, <2>2, <2>3, <3>1, AllFits DEF InStep, Orderly
  <2>5. Ahead(p) \/ Ahead(q)
    BY <1>4, <2>3 DEF InStep, Parties
  <2>6. \A a \in Parties : Orderly(a)
    BY <2>3 DEF InStep
  \* The reader goes on with the key it has.
  <2>7. ASSUME d.ok, SameEnds(s, d.s), Ahead(p)' \/ Ahead(q)' PROVE InStep'
    <3>1. d.s.on /\ d.s.DHs = s.DHs
      BY <1>2, <2>7 DEF SameEnds
    <3>2. keyCount' = keyCount
      BY <1>2, <1>4, <3>1 DEF LateInv
    <3>3. \A a \in Parties : Side(a)'.DHs = Side(a).DHs
      <4>1. Side(p)' = d.s /\ Side(p) = s /\ Side(q)' = Side(q)
        BY <1>7, <3>1
      <4>2. Side(p)'.DHs = Side(p).DHs /\ Side(q)'.DHs = Side(q).DHs
        BY <3>1, <4>1
      <4>3. QED
        BY <1>4, <4>2 DEF Parties
    <3>4. \A a \in Parties : Orderly(a)'
      <4>1. ASSUME NEW a \in Parties PROVE Orderly(a)'
        <5>1. Written(a)' = Written(a) /\ Side(a)'.DHs = Side(a).DHs /\ Orderly(a)
          BY <1>8, <2>6, <3>3
        <5>2. Numbered(Written(a)') /\ \A m \in Written(a)' : Own(a, m.DH)
          BY <5>1 DEF Orderly
        <5>3. Own(a, Side(a)'.DHs)
          BY <5>1 DEF Orderly
        <5>4. QED
          BY <3>2, <5>2, <5>3 DEF Orderly, Own
      <4>2. QED
        BY <4>1
    <3>5. failed' = {}
      BY <1>2, <2>3, <2>7 DEF InStep
    <3>6. QED
      BY <1>4, <2>7, <3>4, <3>5 DEF InStep
  <2>8. CASE Ahead(p)
    <3>1. Leads(s, Side(q), Written(p), Written(q), arrived)
      BY <1>4, <1>7, <2>8 DEF Ahead
    <3>2. PICK len : len = Side(q).CKs.n
      OBVIOUS
    <3>3. Reads(s, Written(q), arrived, len, {})
      BY <3>1, <3>2 DEF Leads
    <3>4. d.ok /\ SameEnds(s, d.s) /\ Reads(d.s, Written(q), arrived \union {msg}, len, {})
      BY ONLY <1>1, <1>5, <2>4, <3>3, msg \notin {}, ReadingGoesOn
    <3>5. Leads(d.s, Side(q), Written(p), Written(q), arrived \union {msg})
      BY <2>4, <3>1, <3>2, <3>4, AheadReads
    <3>6. d.s.on
      BY <1>2, <3>4 DEF SameEnds
    <3>7. Ahead(p)'
      BY <1>2, <1>4, <1>7, <1>8, <3>5, <3>6 DEF Ahead
    <3>8. QED
      BY <2>7, <3>4, <3>7
  <2>9. CASE Ahead(q)
    <3>1. PICK e : e = Side(q)
      OBVIOUS
    <3>2. Leads(e, s, Written(q), Written(p), arrived)
      BY <1>4, <1>7, <2>9, <3>1 DEF Ahead
    <3>3. PICK coming : coming = {m \in Written(q) : m.DH = e.DHs}
      OBVIOUS
    <3>4. Reads(s, Written(q), arrived, e.PN, coming)
      BY <3>2, <3>3 DEF Leads
    <3>5. CASE msg \notin coming
      <4>1. d.ok /\ SameEnds(s, d.s) /\ Reads(d.s, Written(q), arrived \union {msg}, e.PN, coming)
        BY ONLY <1>1, <1>5, <2>4, <3>4, <3>5, ReadingGoesOn
      <4>2. Leads(e, d.s, Written(q), Written(p), arrived \union {msg})
        BY <2>4, <3>2, <3>3, <4>1, BehindReads
      <4>3. d.s.on
        BY <1>2, <4>1 DEF SameEnds
      <4>4. Ahead(q)'
        BY <1>2, <1>4, <1>7, <1>8, <3>1, <4>2, <4>3 DEF Ahead
      <4>5. QED
        BY <2>7, <4>1, <4>4
    <3>6. CASE msg \in coming
      <4>1. msg.DH = e.DHs /\ msg.PN = e.PN /\ coming = Under(Written(q), msg.DH)
        BY <2>4, <3>2, <3>3, <3>6 DEF Leads, Under
      <4>2. /\ e.RK = kdfRK(s.RK, DH(s.DHs, msg.DH)) /\ e.CKs.root = e.RK /\ e.DHr = s.DHs
        <5>1. DH(e.DHs, s.DHs) = DH(s.DHs, e.DHs)
          BY DEF DH
        <5>2. QED
          BY <3>2, <4>1, <5>1 DEF Leads
      <4>3. PICK next, root : next = e.CKs.n /\ root = kdfRK(s.RK, DH(s.DHs, msg.DH))
        OBVIOUS
      <4>4. ChainIs(Written(q), msg.DH, next, root)
        BY <3>2, <4>1, <4>2, <4>3 DEF Leads
      <4>5. /\ d.ok /\ Reads(d.s, Written(q), arrived \union {msg}, next, {})
            /\ Turned(s, d.s, msg.DH, fresh, root)
        <5>1. s.on
          BY <1>2
        <5>2. PICK mine, got, len : mine = Written(q) /\ got = arrived /\ len = e.PN
          OBVIOUS
        <5>3. /\ IsSession(s) /\ Reads(s, mine, got, len, coming)
              /\ Fits(mine) /\ Numbered(mine) /\ msg \in coming /\ msg.PN = len
              /\ coming = Under(mine, msg.DH) /\ ChainIs(mine, msg.DH, next, root)
          BY <1>5, <2>4, <3>4, <3>6, <4>1, <4>4, <5>2 DEF IsSession
        <5>4. /\ d.ok /\ Reads(d.s, mine, got \union {msg}, next, {})
              /\ Turned(s, d.s, msg.DH, fresh, root)
          BY ONLY <1>1, <4>3, <5>1, <5>3, TurningReads
        <5>5. QED
          BY <5>2, <5>4
      <4>6. /\ d.ok /\ Reads(d.s, Written(q), arrived \union {msg}, e.CKs.n, {})
            /\ d.s.on /\ d.s.DHs = fresh /\ d.s.DHr = e.DHs /\ d.s.PN = s.CKs.n
            /\ d.s.CKr.root = e.RK /\ d.s.RK = kdfRK(e.RK, DH(fresh, e.DHs)) /\ d.s.CKs = Chain(d.s.RK)
        BY <4>1, <4>2, <4>3, <4>5 DEF Turned
      <4>7. \A dh : Own(p, dh) => dh # fresh
        <5>1. ASSUME NEW i \in 0 .. keyCount[p] - 1 PROVE Key(p, i) # fresh
          <6>1. i # keyCount[p]
            BY <1>9
          <6>2. QED
            BY <1>0, <6>1 DEF Key
        <5>2. QED
          BY <5>1 DEF Own
      <4>8. fresh # s.DHs /\ \A m \in Written(p) : m.DH # fresh
        BY <1>4, <1>7, <2>6, <4>7 DEF Orderly
      <4>9. Leads(d.s, e, Written(p), Written(q), arrived \union {msg})
        BY <2>4, <3>2, <4>6, <4>8, BehindTurns
      <4>10. Ahead(p)'
        BY <1>2, <1>4, <1>7, <1>8, <3>1, <4>6, <4>9 DEF Ahead
      <4>11. keyCount'[p] = keyCount[p] + 1 /\ keyCount'[q] = keyCount[q]
        BY <1>2, <1>4, <4>6, <4>8 DEF LateInv
      <4>12. \A a \in Parties : \A dh : Own(a, dh) => Own(a, dh)'
        <5>1. ASSUME NEW a \in Parties, NEW dh, Own(a, dh) PROVE Own(a, dh)'
          <6>1. PICK i \in 0 .. keyCount[a] - 1 : dh = Key(a, i)
            BY <5>1 DEF Own
          <6>2. keyCount'[a] = keyCount[a] \/ keyCount'[a] = keyCount[a] + 1
            BY <1>4, <4>11 DEF Parties
          <6>3. keyCount[a] \in Nat
            BY DEF LateInv
          <6>4. i \in 0 .. keyCount'[a] - 1
            BY <6>2, <6>3
          <6>5. QED
            BY <6>1, <6>4 DEF Own
        <5>2. QED
          BY <5>1
      <4>13. Own(p, fresh)'
        <5>1. keyCount[p] \in 0 .. keyCount'[p] - 1
          BY <1>9, <4>11
        <5>2. QED
          BY <1>0, <5>1 DEF Own
      <4>14. ASSUME NEW a \in Parties PROVE Orderly(a)'
        <5>1. Written(a)' = Written(a) /\ Orderly(a)
          BY <1>8, <2>6
        <5>2. Numbered(Written(a)) /\ \A m \in Written(a) : Own(a, m.DH)'
          BY <4>12, <5>1 DEF Orderly
        <5>3. \E i \in 0 .. keyCount'[a] - 1 : Side(a)'.DHs = Key(a, i)
          <6>1. CASE a = p
            <7>1. Side(p)'.DHs = fresh
              BY <1>7, <4>6
            <7>2. QED
              BY <4>13, <6>1, <7>1 DEF Own
          <6>2. CASE a = q
            <7>1. Own(q, Side(q).DHs)
              BY <1>4, <2>6 DEF Orderly
            <7>2. QED
              BY <1>4, <1>7, <4>12, <6>2, <7>1 DEF Own
          <6>3. QED
            BY <1>4, <6>1, <6>2 DEF Parties
        <5>4. QED
          BY <5>1, <5>2, <5>3 DEF Orderly, Own
      <4>15. failed' = {}
        BY <1>2, <2>3, <4>6 DEF InStep
      <4>16. QED
        BY <1>4, <4>10, <4>14, <4>15 DEF InStep
    <3>7. QED
      BY <3>5, <3>6
  <2>10. QED
    BY <2>5, <2>8, <2>9
<1>12. QED
  BY <1>9, <1>10, <1>11 DEF LateInv

\* The late messages, whatever part of the messenger a behaviour is about.
LEMMA LatenessKeeps == RatchetInv /\ LateInv /\ [ChatNext]_chatVars => LateInv'
<1> SUFFICES ASSUME RatchetInv, LateInv, [ChatNext]_chatVars PROVE LateInv'
  OBVIOUS
<1>1. CASE RatchetNext
  BY <1>1, LateWritten, LateResponded, LateArrives DEF RatchetNext
<1>2. CASE UNCHANGED ratchetVars
  <2>1. /\ UNCHANGED <<sessions, bundle, keyCount, sent, arrived, failed, repeats>>
    BY <1>2 DEF ratchetVars
  <2>2. \A p : Written(p)' = Written(p) /\ Side(p)' = Side(p)
    BY <2>1 DEF Written, Side
  <2>3. \A p : (Ahead(p)' <=> Ahead(p)) /\ (Orderly(p)' <=> Orderly(p))
    BY <2>1, <2>2 DEF Ahead, Orderly, Own
  <2>4. InStep' <=> InStep
    BY <2>1, <2>3 DEF InStep
  <2>5. QED
    BY <2>1, <2>4 DEF LateInv, FewSent
<1>3. QED
  BY <1>1, <1>2 DEF ChatNext, Carrying, Sealing, Limiting, chatVars

\* Messages that come late (LateStillOpens): of messages that arrive once each, in any
\* order and with any of them missing, every one is opened, as long as neither party has
\* written more than there is room for.  The skipped keys are those of the messages
\* that are missing, and the ratchets take turns.
THEOREM LateMessagesOpen == ChatSpec => []LateStillOpens
<1>1. ChatInit => RatchetInv /\ LateInv
  BY RatchetStarts, LateStarts DEF ChatInit
<1>2. RatchetInv /\ LateInv /\ [ChatNext]_chatVars => (RatchetInv /\ LateInv)'
  BY SealingKeeps, LatenessKeeps
<1>3. LateInv => LateStillOpens
  BY DEF LateInv, LateStillOpens, InStep
<1>4. QED
  BY <1>1, <1>2, <1>3, PTL DEF ChatSpec
=============================================================================
