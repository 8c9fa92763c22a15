-------------------------- MODULE EasyGames_proofs --------------------------
(***************************************************************************)
(* Proofs about EasyGames: tickets and picks are paid once, all who bet on *)
(* a round are judged by one verdict, and the pool holds what it should.   *)
(***************************************************************************)
EXTENDS EasyGames, CommonTheorems

\* The greatest of a set of numbers is one of them.
LEMMA MaxOfSet ==
  ASSUME NEW S \in SUBSET Int, IsFiniteSet(S), S # {}
  PROVE  Max(S) \in S
<1> DEFINE Good == {T \in SUBSET S : T # {} => \E x \in T : \A y \in T : x >= y}
<1>1. {} \in Good
  OBVIOUS
<1>2. ASSUME NEW T \in SUBSET S, T # {}, \A x \in T : T \ {x} \in Good
      PROVE  T \in Good
  <2>1. PICK x : x \in T /\ x \in Int
    BY <1>2
  <2>2. CASE T \ {x} = {}
    <3>1. \A y \in T : y = x
      BY <2>2
    <3>2. \A y \in T : x >= y
      BY <2>1, <3>1
    <3>3. QED
      BY <2>1, <3>2
  <2>3. CASE T \ {x} # {}
    <3>1. PICK z : z \in T \ {x} /\ \A y \in T \ {x} : z >= y
      BY <1>2, <2>1, <2>3
    <3>2. z \in Int /\ z \in T
      BY <3>1
    <3>3. CASE z >= x
      BY <3>1, <3>2, <3>3
    <3>4. CASE ~(z >= x)
      <4>1. \A y \in T : x >= y
        BY <2>1, <3>1, <3>2, <3>4
      <4>2. QED
        BY <2>1, <4>1
    <3>5. QED
      BY <3>3, <3>4
  <2>4. QED
    BY <2>2, <2>3
<1> HIDE DEF Good
<1>3. S \in Good
  BY <1>1, <1>2, FiniteInduction
<1>4. QED
  BY <1>3 DEF Good, Max

BalTyped == bal[EasyPool] \in Int /\ bal[Treasury] \in Int

\* A posting to one account.
Posted1(type, ref, from, to, amount) ==
  /\ \E x : Grown(txns, txns', x) /\ x.type = type /\ x.ref = ref /\ x.amount = amount
  /\ \A a \in Accounts : bal'[a] = bal[a] - (IF a = from THEN amount ELSE 0)
                                          + (IF a = to THEN amount ELSE 0)

LEMMA PostPosts ==
  ASSUME IsSeq(txns), NEW type, NEW ref, NEW key, NEW from, NEW to, NEW amount \in Int,
         Post(type, ref, key, from, Credit(to, amount))
  PROVE  Posted1(type, ref, from, to, amount)
<1>1. Credit(to, amount) = [a \in {to} |-> amount]
  BY DEF Credit
<1>2. \A f : Total(f) = SumFunctionOnSet(f, DOMAIN f)
  BY DEF Total, SumFunction
<1>3. Total(Credit(to, amount)) = amount
  BY <1>1, <1>2, SumOfSingle
<1>4. PICK x : x = [type |-> type, ref |-> ref, key |-> key, amount |-> amount]
  OBVIOUS
<1>5. txns' = Append(txns, x)
  BY <1>3, <1>4 DEF Post
<1>6. Grown(txns, txns', x)
  BY <1>5, AppendGrows
<1>7. x.type = type /\ x.ref = ref /\ x.amount = amount
  BY <1>4
<1>8. bal' = Posted(from, Credit(to, amount))
  BY DEF Post
<1>9. \A a \in Accounts : bal'[a] = bal[a] - (IF a = from THEN amount ELSE 0)
                                           + (IF a = to THEN amount ELSE 0)
  BY <1>1, <1>3, <1>8 DEF Posted
<1>10. QED
  BY <1>6, <1>7, <1>9 DEF Posted1

\* The ledger gets one payment from the pool for each of a set.
PaysEach(S, type, amount) ==
  /\ IsSeq(txns)' /\ DOMAIN txns \subseteq DOMAIN txns'
  /\ \A t \in DOMAIN txns : txns'[t] = txns[t]
  /\ \A t \in DOMAIN txns' \ DOMAIN txns :
       txns'[t].type = type /\ txns'[t].ref \in S /\ txns'[t].amount = amount
  /\ \A t, u \in DOMAIN txns' \ DOMAIN txns : txns'[t].ref = txns'[u].ref => t = u
  /\ \A p \in S : \E t \in DOMAIN txns' \ DOMAIN txns : txns'[t].ref = p
  /\ bal'[EasyPool] = bal[EasyPool] - amount * Cardinality(S)
  /\ bal'[Treasury] = bal[Treasury]

\* A list of payments, one for each of a set.
Listing(ps, bound, n, type, amount) ==
  /\ DOMAIN ps = 1 .. n
  /\ \A i \in 1 .. n : /\ ps[i].type = type /\ ps[i].ref = bound[i] /\ ps[i].amount = amount
                       /\ ps[i].to \in Accounts \ {EasyPool, Treasury}

LEMMA ListingPays ==
  ASSUME IsSeq(txns), BalTyped, NEW S, IsFiniteSet(S), NEW type, NEW amount \in Int, NEW ps,
         NEW n, n = Cardinality(S),
         NEW bound \in [1 .. n -> S], IsInjective(bound),
         Listing(ps, bound, n, type, amount), PostEach(EasyPool, ps)
  PROVE  PaysEach(S, type, amount)
<1>1. /\ n \in Nat
      /\ \A i, j \in 1 .. n : bound[i] = bound[j] => i = j
      /\ \A p \in S : \E i \in 1 .. n : bound[i] = p
  <2>1. bound \in [1 .. Cardinality(S) -> S]
    OBVIOUS
  <2>2. n \in Nat /\ \A p \in S : \E i \in DOMAIN bound : bound[i] = p
    BY <2>1, Enumeration
  <2>3. QED
    BY <2>2 DEF IsInjective
<1>2. DOMAIN ps = 1 .. n
  BY DEF Listing
<1> DEFINE us == [i \in DOMAIN ps |-> [type |-> ps[i].type, ref |-> ps[i].ref,
                                       key |-> ps[i].key, amount |-> ps[i].amount]]
<1>3. txns' = txns \o us
  BY DEF PostEach
<1>4. /\ DOMAIN us = 1 .. n
      /\ \A i \in 1 .. n : us[i].type = type /\ us[i].ref = bound[i] /\ us[i].amount = amount
      /\ us = [i \in 1 .. n |-> us[i]]
  BY <1>2 DEF Listing
<1> HIDE DEF us
<1>5. IsSeq(us) /\ Len(us) = n
  BY <1>1, <1>4, IntervalIsSeq
<1>6. Joined(txns, us, txns')
  BY <1>3, <1>5, ConcatJoins
<1>7. PICK m \in Nat : m = Len(txns)
  BY DEF IsSeq
<1>8. /\ IsSeq(txns)' /\ DOMAIN txns = 1 .. m /\ DOMAIN txns' = 1 .. m + n
      /\ \A t \in DOMAIN txns : txns'[t] = txns[t]
      /\ \A i \in 1 .. n : txns'[m + i] = us[i]
  BY <1>4, <1>5, <1>6, <1>7 DEF Joined, IsSeq
<1>9. \A t \in DOMAIN txns' \ DOMAIN txns :
        /\ t - m \in 1 .. n /\ t \in Int
        /\ txns'[t].type = type /\ txns'[t].ref = bound[t - m] /\ txns'[t].amount = amount
  <2>1. ASSUME NEW t \in DOMAIN txns' \ DOMAIN txns
        PROVE  t - m \in 1 .. n /\ txns'[t] = us[t - m] /\ t \in Int
    <3>1. t \in Int /\ t - m \in 1 .. n /\ m + (t - m) = t
      BY <1>1, <1>8
    <3>2. QED
      BY <1>8, <3>1
  <2>2. QED
    BY <1>4, <2>1
<1>10. \A t, u \in DOMAIN txns' \ DOMAIN txns : txns'[t].ref = txns'[u].ref => t = u
  <2>1. ASSUME NEW t \in DOMAIN txns' \ DOMAIN txns, NEW u \in DOMAIN txns' \ DOMAIN txns,
               txns'[t].ref = txns'[u].ref
        PROVE  t = u
    <3>1. t - m = u - m /\ t \in Int /\ u \in Int
      BY <1>1, <1>9, <2>1
    <3>2. QED
      BY <3>1
  <2>2. QED
    BY <2>1
<1>11. \A p \in S : \E t \in DOMAIN txns' \ DOMAIN txns : txns'[t].ref = p
  <2>1. ASSUME NEW p \in S
        PROVE  \E t \in DOMAIN txns' \ DOMAIN txns : txns'[t].ref = p
    <3>1. PICK i \in 1 .. n : bound[i] = p
      BY <1>1
    <3>2. m + i \in DOMAIN txns' \ DOMAIN txns /\ txns'[m + i].ref = p
      BY <1>1, <1>4, <1>8, <3>1
    <3>3. QED
      BY <3>2
  <2>2. QED
    BY <2>1
<1>12. /\ bal'[EasyPool] = bal[EasyPool] - amount * n
       /\ bal'[Treasury] = bal[Treasury]
  <2> DEFINE amounts == [i \in DOMAIN ps |-> ps[i].amount]
             due(T) == SumFunctionOnSet(amounts, T)
  <2>1. bal' = [a \in Accounts |-> bal[a] - (IF a = EasyPool THEN due(DOMAIN ps) ELSE 0)
                                          + due({i \in DOMAIN ps : ps[i].to = a})]
    BY DEF PostEach
  <2>2. /\ \A i \in DOMAIN ps : amounts[i] = amount
        /\ {i \in DOMAIN ps : ps[i].to = EasyPool} = {}
        /\ {i \in DOMAIN ps : ps[i].to = Treasury} = {}
    BY <1>2 DEF Listing
  <2> HIDE DEF amounts
  <2>3. due({}) = 0
    BY SumEmpty
  <2>4. IsFiniteSet(1 .. n) /\ Cardinality(1 .. n) = n
    BY <1>1, FS_Interval
  <2>5. due(DOMAIN ps) = amount * n
    <3>1. IsFiniteSet(DOMAIN ps) /\ Cardinality(DOMAIN ps) = n
      BY <1>2, <2>4
    <3>2. SumFunctionOnSet(amounts, DOMAIN ps) = amount * Cardinality(DOMAIN ps)
      BY <2>2, <3>1, SumOfConstant
    <3>3. QED
      BY <3>1, <3>2
  <2>6. amount * n \in Int
    BY <1>1
  <2>9. PICK k \in Int : k = amount * n
    BY <2>6
  <2> HIDE DEF due
  <2>7. EasyPool # Treasury
    BY DEF EasyPool, Treasury, Available
  <2>8. /\ bal'[EasyPool] = bal[EasyPool] - k + 0
        /\ bal'[Treasury] = bal[Treasury] - 0 + 0
    BY <2>1, <2>2, <2>3, <2>5, <2>7, <2>9, GamesAssumption
  <2>10. QED
    BY <2>8, <2>9 DEF BalTyped
<1>13. QED
  BY <1>1, <1>8, <1>9, <1>10, <1>11, <1>12 DEF PaysEach

------------------------------------------------------------------------------
(* The tables and the calls under way.                                       *)

TicketRow == [user : Users, house : Houses, round : Nat, pick : Outcomes,
              status : {"pending", "won", "lost", "refunded"}]
RoundRow == [house : Houses, ext : Exts \union {NoExt}, status : {"entered", "void", "settled"},
             outcome : Outcomes \union {"none"}]
PickRow == [user : Players, fate : {"won", "lost"}, status : {"pending", "won", "lost"}]

\* What a call has found out still holds.
CallOk(call) ==
  /\ call.stage \in {"guard", "place"} => call.user \in Users /\ call.house \in Houses
  /\ call.stage = "place" => call.round \in DOMAIN rounds \union {NoRound}
  /\ call.stage = "opening" =>
       /\ call.house \in Houses /\ call.ext \in Exts \union {NoExt}
       /\ call.locks \subseteq DOMAIN rounds
       /\ \A r \in call.locks : rounds[r].status = "entered"
  /\ call.stage = "verdict" => call.round \in DOMAIN rounds /\ call.outcome \in Outcomes

\* No round is locked by two calls.
LocksApart(f) ==
  \A v, w \in Calls : v # w /\ f[v].stage = "opening" /\ f[w].stage = "opening" =>
    f[v].locks \intersect f[w].locks = {}

Rows ==
  /\ IsSeq(tickets) /\ IsSeq(rounds) /\ IsSeq(picks)
  /\ \A t \in DOMAIN tickets : tickets[t] \in TicketRow /\ tickets[t].round \in DOMAIN rounds \union {NoRound}
  /\ \A r \in DOMAIN rounds : rounds[r] \in RoundRow
  /\ \A i \in DOMAIN picks : picks[i] \in PickRow

CallsTyped ==
  /\ calls = [w \in Calls |-> calls[w]]
  /\ \A w \in Calls : CallOk(calls[w])
  /\ LocksApart(calls)
  /\ plays = [w \in Plays |-> plays[w]]
  /\ \A w \in Plays : plays[w].stage \in {"guard", "place"} => plays[w].user \in Players

GamesTyped == IsSeq(txns) /\ BalTyped /\ Rows /\ CallsTyped

\* Refunds and winnings of a set of tickets.
LEMMA TicketsPay ==
  ASSUME GamesTyped, NEW S \in SUBSET DOMAIN tickets
  PROVE  /\ IsFiniteSet(S)
         /\ PayTickets(Refund, S) => PaysEach(S, "et_refund", Stake)
         /\ PayTickets(Win, S) => PaysEach(S, "et_payout", 2 * Stake)
<1>1. /\ IsSeq(txns) /\ BalTyped /\ IsFiniteSet(DOMAIN tickets)
      /\ \A t \in S : Available(tickets[t].user) \in Accounts \ {EasyPool, Treasury}
      /\ Stake \in Int /\ 2 * Stake \in Int
  BY SeqFinite, GamesAssumption, EasyStakeAssumption DEF GamesTyped, Rows, TicketRow
<1>2. IsFiniteSet(S)
  BY <1>1, FS_Subset
<1>3. PICK bound : bound = SetToSeq(S)
  OBVIOUS
<1>4. bound \in [1 .. Cardinality(S) -> S] /\ IsInjective(bound)
  BY <1>2, <1>3, Enumeration DEF SetToSeq
<1>5. ASSUME PayTickets(Refund, S)
      PROVE  PaysEach(S, "et_refund", Stake)
  <2>1. PICK ps : ps = [i \in DOMAIN bound |-> Refund(bound[i])]
    OBVIOUS
  <2>2. PostEach(EasyPool, ps)
    BY <1>3, <1>5, <2>1 DEF PayTickets
  <2>3. Listing(ps, bound, Cardinality(S), "et_refund", Stake)
    BY <1>1, <1>4, <2>1 DEF Refund, Listing
  <2>4. QED
    BY <1>1, <1>2, <1>4, <2>2, <2>3, ListingPays
<1>6. ASSUME PayTickets(Win, S)
      PROVE  PaysEach(S, "et_payout", 2 * Stake)
  <2>1. PICK ps : ps = [i \in DOMAIN bound |-> Win(bound[i])]
    OBVIOUS
  <2>2. PostEach(EasyPool, ps)
    BY <1>3, <1>6, <2>1 DEF PayTickets
  <2>3. Listing(ps, bound, Cardinality(S), "et_payout", 2 * Stake)
    BY <1>1, <1>4, <2>1 DEF Win, Listing
  <2>4. QED
    BY <1>1, <1>2, <1>4, <2>2, <2>3, ListingPays
<1>7. QED
  BY <1>2, <1>5, <1>6

\* The round that is found is there.
LEMMA RoundFound ==
  ASSUME GamesTyped, NEW h, NEW ext
  PROVE  /\ Newest(Entered(h)) \in DOMAIN rounds \union {NoRound}
         /\ FindRound(h, ext) \in DOMAIN rounds \union {NoRound}
<1>1. IsFiniteSet(DOMAIN rounds) /\ DOMAIN rounds \subseteq Int
  BY SeqFinite, AppendFacts DEF GamesTyped, Rows
<1>2. ASSUME NEW S \in SUBSET DOMAIN rounds, S # {}
      PROVE  Max(S) \in DOMAIN rounds
  BY <1>1, <1>2, FS_Subset, MaxOfSet
<1>3. Newest(Entered(h)) \in DOMAIN rounds \union {NoRound}
  BY <1>2 DEF Newest, Entered
<1>4. QED
  BY <1>2, <1>3 DEF FindRound

------------------------------------------------------------------------------
(* What the steps come down to.                                              *)

Payouts == {"et_payout", "et_refund", "bp_payout"}

\* The ledger grows by nothing that pays a ticket or a pick.
Silent ==
  /\ IsSeq(txns)' /\ DOMAIN txns \subseteq DOMAIN txns'
  /\ \A x \in DOMAIN txns : txns'[x] = txns[x]
  /\ \A x \in DOMAIN txns' \ DOMAIN txns : txns'[x].type \notin Payouts

\* What the pool and the treasury hold together changes by d.
Moved(d) == BalTyped' /\ bal'[EasyPool] + bal'[Treasury] = bal[EasyPool] + bal[Treasury] + d

\* Nothing happens to a ticket, a round or a pick.
Still == UNCHANGED <<rounds, tickets, picks>> /\ Silent /\ Moved(0)

Placed ==
  /\ \E row \in TicketRow : /\ row.status = "pending" /\ row.round \in DOMAIN rounds \union {NoRound}
                            /\ Grown(tickets, tickets', row)
  /\ UNCHANGED <<rounds, picks>> /\ Silent /\ Moved(Stake)

\* Open tickets are answered: W win, L lose, R are refunded; others may be bound.
Judged(W, L, R) ==
  /\ W \subseteq PendingTickets /\ L \subseteq PendingTickets /\ R \subseteq PendingTickets
  /\ W \intersect L = {} /\ (W \union L) \intersect R = {}
  /\ IsSeq(tickets)' /\ DOMAIN tickets' = DOMAIN tickets
  /\ \A t \in DOMAIN tickets :
       /\ tickets'[t] \in TicketRow /\ tickets'[t].round \in DOMAIN rounds' \union {NoRound}
       /\ tickets'[t].pick = tickets[t].pick
       /\ tickets'[t].status = CASE t \in W -> "won" [] t \in L -> "lost" [] t \in R -> "refunded"
                                 [] OTHER -> tickets[t].status
       /\ tickets[t].status # "pending" => tickets'[t].round = tickets[t].round

\* Rounds are added, and end; a settled round stays.
RoundsMove ==
  /\ IsSeq(rounds)' /\ DOMAIN rounds \subseteq DOMAIN rounds'
  /\ \A r \in DOMAIN rounds' : rounds'[r] \in RoundRow
  /\ \A r \in DOMAIN rounds : rounds[r].status = "settled" =>
       rounds'[r].status = "settled" /\ rounds'[r].outcome = rounds[r].outcome

\* The verdict of a round falls on its tickets.
Verdict(W, L) ==
  \A t \in W \union L :
    /\ tickets'[t].round \in DOMAIN rounds'
    /\ rounds'[tickets'[t].round].status = "settled"
    /\ t \in W <=> tickets'[t].pick = rounds'[tickets'[t].round].outcome

Answer ==
  /\ UNCHANGED picks
  /\ RoundsMove
  /\ \E W, L, R \in SUBSET DOMAIN tickets :
       /\ Judged(W, L, R)
       /\ Verdict(W, L)
       /\ \/ R = {} /\ PaysEach(W, "et_payout", 2 * Stake)
          \/ W = {} /\ L = {} /\ PaysEach(R, "et_refund", Stake)

Played ==
  /\ \E row \in PickRow : row.status = "pending" /\ Grown(picks, picks', row)
  /\ UNCHANGED <<rounds, tickets>> /\ Silent /\ Moved(Wager)

Decided(i) ==
  /\ i \in LivePicks
  /\ picks' = [picks EXCEPT ![i].status = picks[i].fate]
  /\ UNCHANGED <<rounds, tickets>>
  /\ \/ picks[i].fate = "lost" /\ Silent /\ Moved(0)
     \/ /\ picks[i].fate = "won" /\ Moved(-(2 * Wager))
        /\ \E x : Grown(txns, txns', x) /\ x.type = "bp_payout" /\ x.ref = i

LEMMA NothingMoves ==
  ASSUME GamesTyped, UNCHANGED <<bal, txns>>
  PROVE  Silent /\ Moved(0)
<1>1. IsSeq(txns)' /\ BalTyped'
  BY DEF GamesTyped, IsSeq, BalTyped
<1>2. bal'[EasyPool] + bal'[Treasury] = bal[EasyPool] + bal[Treasury] + 0
  BY DEF GamesTyped, BalTyped
<1>3. QED
  BY <1>1, <1>2 DEF Silent, Moved

LEMMA PostingMoves ==
  ASSUME GamesTyped, NEW type, NEW ref, NEW from \in Accounts, NEW to \in Accounts,
         NEW amount \in Int, Posted1(type, ref, from, to, amount)
  PROVE  /\ type \notin Payouts => Silent
         /\ from \notin {EasyPool, Treasury} /\ to = EasyPool => Moved(amount)
         /\ from = Treasury /\ to = EasyPool => Moved(0)
         /\ from = EasyPool /\ to \notin {EasyPool, Treasury} => Moved(-amount)
<1>1. PICK x : Grown(txns, txns', x) /\ x.type = type
  BY DEF Posted1
<1>2. type \notin Payouts => Silent
  BY <1>1 DEF Grown, Silent
<1>3. PICK p \in Int, q \in Int : p = bal[EasyPool] /\ q = bal[Treasury]
  BY DEF GamesTyped, BalTyped
<1>4. EasyPool # Treasury /\ EasyPool \in Accounts /\ Treasury \in Accounts
  BY GamesAssumption DEF EasyPool, Treasury, Available
<1>5. /\ bal'[EasyPool] = p - (IF EasyPool = from THEN amount ELSE 0)
                            + (IF EasyPool = to THEN amount ELSE 0)
      /\ bal'[Treasury] = q - (IF Treasury = from THEN amount ELSE 0)
                            + (IF Treasury = to THEN amount ELSE 0)
  BY <1>3, <1>4 DEF Posted1
<1>6. ASSUME from \notin {EasyPool, Treasury}, to = EasyPool
      PROVE  Moved(amount)
  <2>1. bal'[EasyPool] = p - 0 + amount /\ bal'[Treasury] = q - 0 + 0
    BY <1>4, <1>5, <1>6
  <2>2. QED
    BY <1>3, <2>1 DEF Moved, BalTyped
<1>7. ASSUME from = Treasury, to = EasyPool
      PROVE  Moved(0)
  <2>1. bal'[EasyPool] = p - 0 + amount /\ bal'[Treasury] = q - amount + 0
    BY <1>4, <1>5, <1>7
  <2>2. QED
    BY <1>3, <2>1 DEF Moved, BalTyped
<1>8. ASSUME from = EasyPool, to \notin {EasyPool, Treasury}
      PROVE  Moved(-amount)
  <2>1. bal'[EasyPool] = p - amount + 0 /\ bal'[Treasury] = q - 0 + 0
    BY <1>4, <1>5, <1>8
  <2>2. QED
    BY <1>3, <2>1 DEF Moved, BalTyped
<1>9. QED
  BY <1>2, <1>6, <1>7, <1>8

------------------------------------------------------------------------------
(* The actions of Easy Trade.                                                *)

LEMMA CallMoves ==
  ASSUME GamesTyped, NEW w \in Calls, NEW new, calls' = [calls EXCEPT ![w] = new],
         UNCHANGED plays, CallOk(new)',
         \A v \in Calls \ {w} : \A c : c = calls[v] => CallOk(c)',
         \A v \in Calls \ {w} : new.stage = "opening" /\ calls[v].stage = "opening" =>
           new.locks \intersect calls[v].locks = {}
  PROVE  CallsTyped'
<1>1. /\ calls' = [v \in Calls |-> calls'[v]]
      /\ calls'[w] = new
      /\ \A v \in Calls \ {w} : calls'[v] = calls[v]
  BY DEF GamesTyped, CallsTyped
<1>2. \A v \in Calls : \A c : c = calls'[v] => CallOk(c)'
  BY <1>1
<1>3. (\A v \in Calls : CallOk(calls[v]))'
  BY <1>2
<1>4. LocksApart(calls)'
  <2>1. LocksApart(calls)
    BY DEF GamesTyped, CallsTyped
  <2>2. ASSUME NEW v \in Calls, NEW u \in Calls, v # u, calls'[v].stage = "opening",
               calls'[u].stage = "opening"
        PROVE  calls'[v].locks \intersect calls'[u].locks = {}
    <3>1. CASE v = w
      <4>1. calls'[v] = new /\ calls'[u] = calls[u] /\ u \in Calls \ {w}
        BY <1>1, <2>2, <3>1
      <4>2. QED
        BY <2>2, <4>1
    <3>2. CASE u = w
      <4>1. calls'[u] = new /\ calls'[v] = calls[v] /\ v \in Calls \ {w}
        BY <1>1, <2>2, <3>2
      <4>2. QED
        BY <2>2, <4>1
    <3>3. CASE v # w /\ u # w
      BY <1>1, <2>1, <2>2, <3>3 DEF LocksApart
    <3>4. QED
      BY <3>1, <3>2, <3>3
  <2>3. QED
    BY <2>2 DEF LocksApart
<1>5. (plays = [v \in Plays |-> plays[v]] /\
       \A v \in Plays : plays[v].stage \in {"guard", "place"} => plays[v].user \in Players)'
  BY DEF GamesTyped, CallsTyped
<1>6. QED
  BY <1>1, <1>3, <1>4, <1>5 DEF CallsTyped

\* While the rounds stay, the other calls go on as they were.
LEMMA CallMovesOn ==
  ASSUME GamesTyped, NEW w \in Calls, NEW new, calls' = [calls EXCEPT ![w] = new],
         UNCHANGED <<plays, rounds>>, CallOk(new), new.stage # "opening"
  PROVE  CallsTyped'
<1>1. CallOk(new)'
  BY DEF CallOk
<1>2. \A v \in Calls \ {w} : \A c : c = calls[v] => CallOk(c)'
  BY DEF GamesTyped, CallsTyped, CallOk
<1>3. QED
  BY <1>1, <1>2, CallMoves

LEMMA CallsStay ==
  ASSUME GamesTyped, UNCHANGED <<calls, plays, rounds>>
  PROVE  CallsTyped'
<1>1. \A v \in Calls : \A c : c = calls[v] => CallOk(c)'
  BY DEF GamesTyped, CallsTyped, CallOk
<1>2. (\A v \in Calls : CallOk(calls[v]))'
  BY <1>1
<1>3. LocksApart(calls)'
  BY DEF GamesTyped, CallsTyped, LocksApart
<1>4. QED
  BY <1>2, <1>3 DEF GamesTyped, CallsTyped

LEMMA RowsStay == ASSUME GamesTyped, UNCHANGED <<tickets, rounds, picks>> PROVE Rows'
BY DEF GamesTyped, Rows, IsSeq

\* Steps of a call that only read.
LEMMA ReadsOnly ==
  ASSUME GamesTyped, UNCHANGED <<bal, txns, tickets, rounds, picks>>, CallsTyped'
  PROVE  GamesTyped' /\ Still
<1>1. Silent /\ Moved(0) /\ Rows'
  BY NothingMoves, RowsStay
<1>2. QED
  BY <1>1 DEF GamesTyped, Still, Silent, Moved

LEMMA CallsRead ==
  ASSUME GamesTyped, NEW w \in Calls, UNCHANGED pickVars,
         \/ \E u \in Users, h \in Houses : AskBet(w, u, h)
         \/ GuardBet(w)
         \/ AbandonCall(w)
         \/ \E h \in Houses, outcome \in Outcomes : \E ext, from :
              StartEvent(w, h, ext, outcome, from)
  PROVE  GamesTyped' /\ Still
<1>1. UNCHANGED <<bal, txns, tickets, rounds, picks, plays>>
  BY DEF AskBet, GuardBet, AbandonCall, StartEvent, pickVars
<1>2. \E new : calls' = [calls EXCEPT ![w] = new] /\ CallOk(new) /\ new.stage # "opening"
  <2>1. ASSUME NEW u \in Users, NEW h \in Houses, AskBet(w, u, h)
        PROVE  \E new : calls' = [calls EXCEPT ![w] = new] /\ CallOk(new) /\ new.stage # "opening"
    <3>1. PICK new : new = [stage |-> "guard", user |-> u, house |-> h]
      OBVIOUS
    <3>2. CallOk(new) /\ new.stage # "opening"
      BY <3>1 DEF CallOk
    <3>3. QED
      BY <2>1, <3>1, <3>2 DEF AskBet, Goto
  <2>2. ASSUME GuardBet(w)
        PROVE  \E new : calls' = [calls EXCEPT ![w] = new] /\ CallOk(new) /\ new.stage # "opening"
    <3>1. PICK h : h = calls[w].house
      OBVIOUS
    <3>2. PICK r : r = Newest(Entered(h))
      OBVIOUS
    <3>3. r \in DOMAIN rounds \union {NoRound}
      BY <3>2, RoundFound
    <3>4. CallOk(calls[w])
      BY DEF GamesTyped, CallsTyped
    <3>5. PICK new : new = [stage |-> "place", user |-> calls[w].user, house |-> h, round |-> r]
      OBVIOUS
    <3>6. CallOk(new) /\ new.stage # "opening"
      BY <2>2, <3>1, <3>3, <3>4, <3>5 DEF CallOk, GuardBet
    <3>7. QED
      BY <2>2, <3>1, <3>2, <3>5, <3>6 DEF GuardBet, Goto
  <2>3. ASSUME AbandonCall(w)
        PROVE  \E new : calls' = [calls EXCEPT ![w] = new] /\ CallOk(new) /\ new.stage # "opening"
    <3>1. CallOk(Idle) /\ Idle.stage # "opening"
      BY DEF CallOk, Idle
    <3>2. QED
      BY <2>3, <3>1 DEF AbandonCall, Goto
  <2>4. ASSUME NEW h \in Houses, NEW ext, NEW outcome \in Outcomes, NEW from,
               StartEvent(w, h, ext, outcome, from)
        PROVE  \E new : calls' = [calls EXCEPT ![w] = new] /\ CallOk(new) /\ new.stage # "opening"
    <3>1. PICK r : r = FindRound(h, ext)
      OBVIOUS
    <3>2. r \in DOMAIN rounds \union {NoRound}
      BY <3>1, RoundFound
    <3>3. r # NoRound
      BY <2>4, <3>1 DEF StartEvent
    <3>4. PICK new : new = [stage |-> "verdict", round |-> r, from |-> from, outcome |-> outcome]
      OBVIOUS
    <3>5. CallOk(new) /\ new.stage # "opening"
      BY <3>2, <3>3, <3>4 DEF CallOk
    <3>6. QED
      BY <2>4, <3>1, <3>4, <3>5 DEF StartEvent, Goto
  <2>5. QED
    BY <2>1, <2>2, <2>3, <2>4
<1>3. PICK new : calls' = [calls EXCEPT ![w] = new] /\ CallOk(new) /\ new.stage # "opening"
  BY <1>2
<1>4. CallsTyped'
  BY <1>1, <1>3, CallMovesOn
<1>5. QED
  BY <1>1, <1>4, ReadsOnly

LEMMA EntryStarts ==
  ASSUME GamesTyped, NEW w \in Calls, NEW h \in Houses, NEW ext \in Exts \union {NoExt}, NEW from,
         StartEntry(w, h, ext, from), UNCHANGED pickVars
  PROVE  GamesTyped' /\ Still
<1>1. UNCHANGED <<bal, txns, tickets, rounds, picks, plays>>
  BY DEF StartEntry, pickVars
<1>2. PICK new : new = [stage |-> "opening", house |-> h, ext |-> ext, from |-> from,
                        locks |-> Entered(h), known |-> Waiting(h)]
  OBVIOUS
<1>3. calls' = [calls EXCEPT ![w] = new]
  BY <1>2 DEF StartEntry, Goto
<1>4. CallOk(new)'
  BY <1>1, <1>2 DEF CallOk, Entered
<1>5. \A v \in Calls \ {w} : \A c : c = calls[v] => CallOk(c)'
  BY <1>1 DEF GamesTyped, CallsTyped, CallOk
<1>6. \A v \in Calls \ {w} : calls[v].stage = "opening" => new.locks \intersect calls[v].locks = {}
  BY <1>2 DEF StartEntry, LockedRounds
<1>7. CallsTyped'
  BY <1>1, <1>3, <1>4, <1>5, <1>6, CallMoves
<1>8. QED
  BY <1>1, <1>7, ReadsOnly

LEMMA BetPlaced ==
  ASSUME GamesTyped, NEW w \in Calls, NEW pick \in Outcomes, PlaceBet(w, pick), UNCHANGED pickVars
  PROVE  GamesTyped' /\ Placed
<1>1. /\ UNCHANGED <<rounds, picks, plays>>
      /\ calls' = [calls EXCEPT ![w] = Idle]
      /\ calls[w].stage = "place"
  BY DEF PlaceBet, pickVars, Goto
<1>2. CallOk(Idle) /\ Idle.stage # "opening" /\ CallOk(calls[w])
  BY DEF CallOk, Idle, GamesTyped, CallsTyped
<1>3. CallsTyped'
  BY <1>1, <1>2, CallMovesOn
<1>4. PICK u, h, r : u = calls[w].user /\ h = calls[w].house /\ r = calls[w].round
  OBVIOUS
<1>5. u \in Users /\ h \in Houses /\ r \in DOMAIN rounds \union {NoRound}
  BY <1>1, <1>2, <1>4 DEF CallOk
<1>6. PICK row : row = [user |-> u, house |-> h, round |-> r, pick |-> pick, status |-> "pending"]
  OBVIOUS
<1>7. tickets' = Append(tickets, row)
  BY <1>4, <1>6 DEF PlaceBet
<1>8. DOMAIN rounds = 1 .. Len(rounds) /\ IsSeq(tickets) /\ NoRound \in Nat
  BY AppendFacts DEF GamesTyped, Rows, NoRound
<1>9. row \in TicketRow
  <2>1. r \in Nat
    BY <1>5, <1>8
  <2>2. QED
    BY <1>5, <1>6, <2>1 DEF TicketRow
<1>10. Grown(tickets, tickets', row)
  BY <1>7, <1>8, AppendGrows
<1>11. Rows'
  <2>1. \A t \in DOMAIN tickets' : tickets'[t] \in TicketRow /\ tickets'[t].round \in DOMAIN rounds \union {NoRound}
    BY <1>5, <1>6, <1>9, <1>10 DEF Grown, GamesTyped, Rows
  <2>2. IsSeq(tickets)' /\ IsSeq(rounds)' /\ IsSeq(picks)'
    BY <1>1, <1>10 DEF Grown, GamesTyped, Rows, IsSeq
  <2>3. QED
    BY <1>1, <2>1, <2>2 DEF GamesTyped, Rows
<1>12. PICK t : t = Len(tickets) + 1
  OBVIOUS
<1>13. Post("et_stake", t, <<"et:stake", t>>, Available(u), Credit(EasyPool, Stake))
  BY <1>4, <1>12 DEF PlaceBet
<1>14. Stake \in Int /\ EasyPool \in Accounts /\ Available(u) \in Accounts \ {EasyPool, Treasury}
  BY <1>5, GamesAssumption, EasyStakeAssumption
<1>15. Posted1("et_stake", t, Available(u), EasyPool, Stake)
  BY <1>13, <1>14, PostPosts DEF GamesTyped
<1>16. Silent /\ Moved(Stake)
  BY <1>14, <1>15, PostingMoves DEF Payouts
<1>17. Placed
  BY <1>1, <1>5, <1>6, <1>9, <1>10, <1>16 DEF Placed
<1>18. QED
  BY <1>3, <1>11, <1>16, <1>17 DEF GamesTyped, Silent, Moved

\* Refunds and winnings leave the ledger and the balances in order.
LEMMA PaidInOrder ==
  ASSUME GamesTyped, NEW S, IsFiniteSet(S), NEW type, NEW amount \in Int, PaysEach(S, type, amount)
  PROVE  IsSeq(txns)' /\ Moved(-(amount * Cardinality(S)))
<1>1. PICK n \in Nat : n = Cardinality(S)
  BY FS_CardinalityType
<1>2. PICK k \in Int : k = amount * n
  BY <1>1
<1>3. bal'[EasyPool] = bal[EasyPool] - k /\ bal'[Treasury] = bal[Treasury]
  BY <1>1, <1>2 DEF PaysEach
<1>4. Moved(-k)
  BY <1>3 DEF Moved, GamesTyped, BalTyped
<1>5. QED
  BY <1>1, <1>2, <1>4 DEF PaysEach

LEMMA AnswerKeepsOrder ==
  ASSUME GamesTyped, Answer, CallsTyped'
  PROVE  GamesTyped'
<1>1. PICK W, L, R \in SUBSET DOMAIN tickets :
        /\ Judged(W, L, R)
        /\ \/ PaysEach(W, "et_payout", 2 * Stake)
           \/ PaysEach(R, "et_refund", Stake)
  BY DEF Answer
<1>2. IsFiniteSet(W) /\ IsFiniteSet(R) /\ Stake \in Int /\ 2 * Stake \in Int
  BY TicketsPay, EasyStakeAssumption
<1>3. IsSeq(txns)' /\ BalTyped'
  BY <1>1, <1>2, PaidInOrder DEF Moved
<1>4. Rows'
  <2>1. IsSeq(tickets)' /\ IsSeq(rounds)' /\ IsSeq(picks)'
    BY <1>1 DEF Judged, Answer, RoundsMove, GamesTyped, Rows, IsSeq
  <2>2. \A t \in DOMAIN tickets' : tickets'[t] \in TicketRow /\ tickets'[t].round \in DOMAIN rounds' \union {NoRound}
    BY <1>1 DEF Judged
  <2>3. (\A r \in DOMAIN rounds' : rounds'[r] \in RoundRow) /\ UNCHANGED picks
    BY DEF Answer, RoundsMove
  <2>4. QED
    BY <2>1, <2>2, <2>3 DEF GamesTyped, Rows
<1>5. QED
  BY <1>3, <1>4 DEF GamesTyped

\* A row of a ticket after its status, or its round, has changed.
LEMMA TicketChanged ==
  ASSUME NEW row \in TicketRow
  PROVE  /\ \A s \in {"pending", "won", "lost", "refunded"} :
              /\ [row EXCEPT !.status = s] \in TicketRow
              /\ [row EXCEPT !.status = s].status = s
              /\ [row EXCEPT !.status = s].round = row.round
              /\ [row EXCEPT !.status = s].pick = row.pick
         /\ \A r \in Nat :
              /\ [row EXCEPT !.round = r] \in TicketRow
              /\ [row EXCEPT !.round = r].status = row.status
              /\ [row EXCEPT !.round = r].round = r
              /\ [row EXCEPT !.round = r].pick = row.pick
BY DEF TicketRow

LEMMA RoundsStay ==
  ASSUME GamesTyped, UNCHANGED rounds
  PROVE  RoundsMove
BY DEF GamesTyped, Rows, RoundsMove, IsSeq

LEMMA TicketCancelled ==
  ASSUME GamesTyped, NEW t \in DOMAIN tickets, CancelTicket(t), UNCHANGED pickVars
  PROVE  GamesTyped' /\ Answer
<1>1. /\ UNCHANGED <<rounds, picks, plays, calls>>
      /\ tickets' = [tickets EXCEPT ![t].status = "refunded"]
      /\ t \in PendingTickets
      /\ PayTickets(Refund, {t})
  BY DEF CancelTicket, pickVars, Unbound, PendingTickets
<1>2. CallsTyped'
  BY <1>1, CallsStay
<1>3. PaysEach({t}, "et_refund", Stake)
  <2>1. {t} \in SUBSET DOMAIN tickets
    OBVIOUS
  <2>2. QED
    BY <1>1, <2>1, TicketsPay
<1>4. RoundsMove
  BY <1>1, RoundsStay
<1>5. PICK row : row = tickets[t]
  OBVIOUS
<1>6. IsSeq(tickets) /\ row \in TicketRow
  BY <1>5 DEF GamesTyped, Rows
<1>7. PICK new : new = [row EXCEPT !.status = "refunded"]
  OBVIOUS
<1>8. /\ new \in TicketRow /\ new.status = "refunded"
      /\ new.round = row.round /\ new.pick = row.pick
  BY <1>6, <1>7, TicketChanged
<1>9. tickets' = [tickets EXCEPT ![t] = new]
  BY <1>1, <1>5, <1>7
<1>10. /\ IsSeq(tickets)' /\ DOMAIN tickets' = DOMAIN tickets
       /\ tickets'[t] = new
       /\ \A u \in DOMAIN tickets \ {t} : tickets'[u] = tickets[u]
  BY <1>6, <1>9, ExceptFacts
<1>11. Judged({}, {}, {t})
  <2>1. ASSUME NEW u \in DOMAIN tickets
        PROVE  /\ tickets'[u] \in TicketRow /\ tickets'[u].round \in DOMAIN rounds' \union {NoRound}
               /\ tickets'[u].pick = tickets[u].pick
               /\ tickets'[u].status = CASE u \in {} -> "won" [] u \in {} -> "lost"
                                         [] u \in {t} -> "refunded" [] OTHER -> tickets[u].status
               /\ tickets'[u].round = tickets[u].round
    <3>1. tickets[u] \in TicketRow /\ tickets[u].round \in DOMAIN rounds' \union {NoRound}
      BY <1>1 DEF GamesTyped, Rows
    <3>2. CASE u = t
      BY <1>5, <1>8, <1>10, <3>1, <3>2
    <3>3. CASE u # t
      BY <1>10, <3>1, <3>3
    <3>4. QED
      BY <3>2, <3>3
  <2>2. QED
    BY <1>1, <1>10, <2>1 DEF Judged
<1>12. Answer
  BY <1>1, <1>3, <1>4, <1>11 DEF Answer, Verdict
<1>13. QED
  BY <1>2, <1>12, AnswerKeepsOrder

LEMMA RoundOpened ==
  ASSUME GamesTyped, NEW w \in Calls, OpenRound(w), UNCHANGED pickVars
  PROVE  GamesTyped' /\ Answer
<1>1. PICK call : call = calls[w]
  OBVIOUS
<1>2. PICK r : r = Len(rounds) + 1
  OBVIOUS
<1>3. PICK R : R = {t \in PendingTickets : tickets[t].round \in call.locks}
  OBVIOUS
<1>4. /\ UNCHANGED <<picks, plays>> /\ calls' = [calls EXCEPT ![w] = Idle]
      /\ call.stage = "opening"
      /\ PayTickets(Refund, R)
  BY <1>1, <1>3 DEF OpenRound, pickVars, Goto
<1>5. PICK new : new = [house |-> call.house, ext |-> call.ext, status |-> "entered", outcome |-> "none"]
  OBVIOUS
<1>6. PICK older : older = [q \in DOMAIN rounds |->
                              IF q \in call.locks THEN [rounds[q] EXCEPT !.status = "void"] ELSE rounds[q]]
  OBVIOUS
<1>7. rounds' = Append(older, new)
  BY <1>1, <1>5, <1>6 DEF OpenRound
<1>8. /\ call.house \in Houses /\ call.ext \in Exts \union {NoExt}
      /\ call.locks \subseteq DOMAIN rounds
      /\ \A q \in call.locks : rounds[q].status = "entered"
  BY <1>1, <1>4 DEF GamesTyped, CallsTyped, CallOk
<1>9. /\ IsSeq(rounds) /\ Len(rounds) \in Nat /\ DOMAIN rounds = 1 .. Len(rounds)
      /\ \A q \in DOMAIN rounds : rounds[q] \in RoundRow
  BY AppendFacts DEF GamesTyped, Rows, IsSeq
<1>10. PICK bound \in SUBSET Waiting(call.house) :
        /\ DOMAIN tickets' = DOMAIN tickets
        /\ tickets' = [t \in DOMAIN tickets |-> tickets'[t]]
        /\ \A t \in DOMAIN tickets :
             /\ t \in R => tickets'[t] = [tickets[t] EXCEPT !.status = "refunded"]
             /\ t \in bound \ R => tickets'[t] = [tickets[t] EXCEPT !.round = r]
             /\ t \notin R \union bound => tickets'[t] = tickets[t]
  <2>1. PICK bound \in SUBSET Waiting(calls[w].house) :
          tickets' = [t \in DOMAIN tickets |->
            CASE t \in {u \in PendingTickets : tickets[u].round \in calls[w].locks} ->
                   [tickets[t] EXCEPT !.status = "refunded"]
              [] t \in bound -> [tickets[t] EXCEPT !.round = Len(rounds) + 1]
              [] OTHER -> tickets[t]]
    BY Zenon DEF OpenRound
  <2>2. R = {u \in PendingTickets : tickets[u].round \in calls[w].locks}
    BY <1>1, <1>3
  <2>3. DOMAIN tickets' = DOMAIN tickets /\ tickets' = [t \in DOMAIN tickets |-> tickets'[t]]
    BY <2>1
  <2>4. R \intersect bound = {}
    <3>1. \A t \in R : tickets[t].round \in 1 .. Len(rounds)
      BY <1>3, <1>8, <1>9
    <3>2. \A t \in bound : tickets[t].round = 0
      BY DEF Waiting, Unbound, NoRound
    <3>3. QED
      BY <3>1, <3>2
  <2>5. ASSUME NEW t \in DOMAIN tickets
        PROVE  /\ t \in R => tickets'[t] = [tickets[t] EXCEPT !.status = "refunded"]
               /\ t \in bound \ R => tickets'[t] = [tickets[t] EXCEPT !.round = r]
               /\ t \notin R \union bound => tickets'[t] = tickets[t]
    <3>1. tickets'[t] = CASE t \in {u \in PendingTickets : tickets[u].round \in calls[w].locks} ->
                   [tickets[t] EXCEPT !.status = "refunded"]
              [] t \in bound -> [tickets[t] EXCEPT !.round = Len(rounds) + 1]
              [] OTHER -> tickets[t]
      BY <2>1, Zenon
    <3>2. PICK refunded, moved : /\ refunded = [tickets[t] EXCEPT !.status = "refunded"]
                                 /\ moved = [tickets[t] EXCEPT !.round = Len(rounds) + 1]
      OBVIOUS
    <3>3. tickets'[t] = CASE t \in R -> refunded [] t \in bound -> moved [] OTHER -> tickets[t]
      BY <2>2, <3>1, <3>2, Zenon
    <3>4. moved = [tickets[t] EXCEPT !.round = r]
      BY <1>2, <3>2, Zenon
    <3>5. /\ t \in R => tickets'[t] = refunded
          /\ t \in bound \ R => tickets'[t] = moved
          /\ t \notin R \union bound => tickets'[t] = tickets[t]
      <4>1. ASSUME t \in R PROVE tickets'[t] = refunded
        BY <2>4, <3>3, <4>1
      <4>2. ASSUME t \in bound \ R PROVE tickets'[t] = moved
        BY <3>3, <4>2
      <4>3. ASSUME t \notin R \union bound PROVE tickets'[t] = tickets[t]
        BY <3>3, <4>3
      <4>4. QED
        BY <4>1, <4>2, <4>3, Zenon
    <3>6. QED
      BY <3>2, <3>4, <3>5, Zenon
  <2>6. bound \in SUBSET Waiting(call.house)
    BY <1>1, <2>1
  <2>7. QED
    BY <2>3, <2>5, <2>6, Zenon
<1>11. IsSeq(older) /\ Len(older) = Len(rounds) /\ DOMAIN older = DOMAIN rounds
  <2>1. older = [q \in 1 .. Len(rounds) |-> older[q]]
    BY <1>6, <1>9
  <2>2. QED
    BY <1>9, <2>1, IntervalIsSeq
<1>12. \A q \in DOMAIN rounds : /\ older[q] \in RoundRow
                                /\ q \notin call.locks => older[q] = rounds[q]
  <2>1. ASSUME NEW q \in DOMAIN rounds
        PROVE  older[q] \in RoundRow /\ (q \notin call.locks => older[q] = rounds[q])
    <3>1. rounds[q] \in RoundRow
      BY <1>9
    <3>2. [rounds[q] EXCEPT !.status = "void"] \in RoundRow
      BY <3>1 DEF RoundRow
    <3>3. QED
      BY <1>6, <3>1, <3>2
  <2>2. QED
    BY <2>1
<1>13. Grown(older, rounds', new)
  BY <1>7, <1>11, AppendGrows
<1>14. new \in RoundRow
  BY <1>5, <1>8 DEF RoundRow
<1>15. /\ IsSeq(rounds)' /\ DOMAIN rounds' = DOMAIN rounds \union {r} /\ r \in Nat
       /\ \A q \in DOMAIN rounds : rounds'[q] = older[q]
       /\ rounds'[r] = new
  <2>1. /\ IsSeq(rounds)' /\ DOMAIN rounds' = 1 .. Len(older) + 1
        /\ \A q \in 1 .. Len(older) : rounds'[q] = older[q]
        /\ rounds'[Len(older) + 1] = new
    BY <1>7, <1>11, AppendFacts
  <2>2. QED
    BY <1>2, <1>9, <1>11, <2>1
<1>16. RoundsMove
  <2>1. \A q \in DOMAIN rounds' : rounds'[q] \in RoundRow
    BY <1>12, <1>14, <1>15
  <2>2. \A q \in DOMAIN rounds : rounds[q].status = "settled" => rounds'[q] = rounds[q]
    BY <1>8, <1>12, <1>15
  <2>3. QED
    BY <1>15, <2>1, <2>2 DEF RoundsMove
<1>17. R \subseteq PendingTickets /\ R \in SUBSET DOMAIN tickets
  BY <1>3 DEF PendingTickets
<1>18. PaysEach(R, "et_refund", Stake)
  BY <1>4, <1>17, TicketsPay
<1>19. Judged({}, {}, R)
  <2>1. IsSeq(tickets) /\ Len(tickets) \in Nat /\ DOMAIN tickets = 1 .. Len(tickets)
    BY AppendFacts DEF GamesTyped, Rows, IsSeq
  <2>2. IsSeq(tickets)' /\ DOMAIN tickets' = DOMAIN tickets
    <3>1. tickets' = [t \in 1 .. Len(tickets) |-> tickets'[t]]
      BY <1>10, <2>1
    <3>2. DOMAIN tickets' = DOMAIN tickets
      BY <1>10
    <3>3. \A f : f = tickets' => IsSeq(f)
      BY <2>1, <3>1, IntervalIsSeq
    <3>4. QED
      BY <3>2, <3>3
  <2>3. ASSUME NEW t \in DOMAIN tickets
        PROVE  /\ tickets'[t] \in TicketRow /\ tickets'[t].round \in DOMAIN rounds' \union {NoRound}
               /\ tickets'[t].pick = tickets[t].pick
               /\ tickets'[t].status = CASE t \in {} -> "won" [] t \in {} -> "lost"
                                         [] t \in R -> "refunded" [] OTHER -> tickets[t].status
               /\ tickets[t].status # "pending" => tickets'[t].round = tickets[t].round
    <3>1. tickets[t] \in TicketRow /\ tickets[t].round \in DOMAIN rounds' \union {NoRound}
      BY <1>15 DEF GamesTyped, Rows
    <3>2. PICK row \in TicketRow : row = tickets[t]
      BY <3>1
    <3>3. CASE t \in R
      <4>1. tickets'[t] = [tickets[t] EXCEPT !.status = "refunded"]
        BY <1>10, <3>3
      <4>2. PICK changed : changed = [row EXCEPT !.status = "refunded"]
        OBVIOUS
      <4>3. /\ changed \in TicketRow /\ changed.status = "refunded"
            /\ changed.round = row.round /\ changed.pick = row.pick
        BY <4>2, TicketChanged
      <4>4. QED
        BY <3>1, <3>2, <3>3, <4>1, <4>2, <4>3
    <3>4. CASE t \notin R /\ t \in bound
      <4>0. r \in Nat
        BY <1>15
      <4>1. tickets'[t] = [row EXCEPT !.round = r]
        BY <1>10, <3>2, <3>4
      <4>2. row.status = "pending"
        BY <3>2, <3>4 DEF Waiting, Unbound
      <4>3. PICK changed : changed = [row EXCEPT !.round = r]
        OBVIOUS
      <4>4. /\ changed \in TicketRow /\ changed.status = row.status
            /\ changed.round = r /\ changed.pick = row.pick
        <5>1. /\ [row EXCEPT !.round = r] \in TicketRow
              /\ [row EXCEPT !.round = r].status = row.status
              /\ [row EXCEPT !.round = r].round = r
              /\ [row EXCEPT !.round = r].pick = row.pick
          BY <4>0, TicketChanged
        <5>2. QED
          BY <4>3, <5>1, Zenon
      <4>5. QED
        BY <1>15, <3>1, <3>2, <3>4, <4>1, <4>2, <4>3, <4>4
    <3>5. CASE t \notin R /\ t \notin bound
      BY <1>10, <3>1, <3>5
    <3>6. QED
      BY <3>3, <3>4, <3>5
  <2>4. QED
    BY <1>17, <2>2, <2>3 DEF Judged
<1>20. Answer
  BY <1>4, <1>16, <1>17, <1>18, <1>19 DEF Answer, Verdict
<1>21. CallsTyped'
  <2>1. CallOk(Idle)' /\ Idle.stage # "opening"
    BY DEF CallOk, Idle
  <2>2. ASSUME NEW v \in Calls \ {w}, NEW c, c = calls[v]
        PROVE  CallOk(c)'
    <3>1. CallOk(c)
      BY <2>2 DEF GamesTyped, CallsTyped
    <3>2. c.stage = "opening" => c.locks \intersect call.locks = {}
      BY <1>1, <1>4, <2>2 DEF GamesTyped, CallsTyped, LocksApart
    <3>3. DOMAIN rounds \subseteq DOMAIN rounds'
      BY <1>15
    <3>4. c.stage = "opening" => \A q \in c.locks : rounds'[q].status = "entered"
      BY <1>12, <1>15, <3>1, <3>2 DEF CallOk
    <3>5. QED
      BY <3>1, <3>3, <3>4 DEF CallOk
  <2>3. QED
    BY <1>4, <2>1, <2>2, CallMoves
<1>22. QED
  BY <1>20, <1>21, AnswerKeepsOrder

\* The tickets of a round that is settled.
Fallen(W, M) ==
  tickets' = [t \in DOMAIN tickets |-> CASE t \in W -> [tickets[t] EXCEPT !.status = "won"]
                                         [] t \in M \ W -> [tickets[t] EXCEPT !.status = "lost"]
                                         [] OTHER -> tickets[t]]

LEMMA TicketsFall ==
  ASSUME GamesTyped, NEW W, NEW M, W \subseteq M, M \subseteq PendingTickets, Fallen(W, M),
         RoundsMove
  PROVE  Judged(W, M \ W, {}) /\ \A t \in DOMAIN tickets : tickets'[t].round = tickets[t].round
<1>1. IsSeq(tickets) /\ Len(tickets) \in Nat /\ DOMAIN tickets = 1 .. Len(tickets)
  BY AppendFacts DEF GamesTyped, Rows, IsSeq
<1>2. IsSeq(tickets)' /\ DOMAIN tickets' = DOMAIN tickets
  <2>1. tickets' = [t \in 1 .. Len(tickets) |-> tickets'[t]]
    BY <1>1 DEF Fallen
  <2>2. DOMAIN tickets' = DOMAIN tickets
    BY DEF Fallen
  <2>3. \A f : f = tickets' => IsSeq(f)
    BY <1>1, <2>1, IntervalIsSeq
  <2>4. QED
    BY <2>2, <2>3
<1>3. ASSUME NEW t \in DOMAIN tickets
      PROVE  /\ tickets'[t] \in TicketRow /\ tickets'[t].round \in DOMAIN rounds' \union {NoRound}
             /\ tickets'[t].pick = tickets[t].pick
             /\ tickets'[t].status = CASE t \in W -> "won" [] t \in M \ W -> "lost"
                                       [] t \in {} -> "refunded" [] OTHER -> tickets[t].status
             /\ tickets'[t].round = tickets[t].round
  <2>1. tickets[t] \in TicketRow /\ tickets[t].round \in DOMAIN rounds' \union {NoRound}
    BY DEF GamesTyped, Rows, RoundsMove
  <2>2. PICK row \in TicketRow : row = tickets[t]
    BY <2>1
  <2>3. CASE t \in W
    <3>1. tickets'[t] = [tickets[t] EXCEPT !.status = "won"]
      BY <2>3 DEF Fallen
    <3>2. PICK changed : changed = [row EXCEPT !.status = "won"]
      OBVIOUS
    <3>3. /\ changed \in TicketRow /\ changed.status = "won"
          /\ changed.round = row.round /\ changed.pick = row.pick
      BY <3>2, TicketChanged
    <3>4. QED
      BY <2>1, <2>2, <2>3, <3>1, <3>2, <3>3
  <2>4. CASE t \in M \ W
    <3>1. tickets'[t] = [tickets[t] EXCEPT !.status = "lost"]
      BY <2>4 DEF Fallen
    <3>2. PICK changed : changed = [row EXCEPT !.status = "lost"]
      OBVIOUS
    <3>3. /\ changed \in TicketRow /\ changed.status = "lost"
          /\ changed.round = row.round /\ changed.pick = row.pick
      BY <3>2, TicketChanged
    <3>4. QED
      BY <2>1, <2>2, <2>4, <3>1, <3>2, <3>3
  <2>5. CASE t \notin M
    <3>1. tickets'[t] = tickets[t]
      BY <2>5 DEF Fallen
    <3>2. QED
      BY <2>1, <2>5, <3>1
  <2>6. QED
    BY <2>3, <2>4, <2>5
<1>4. QED
  BY <1>2, <1>3 DEF Judged

LEMMA RoundSettled ==
  ASSUME GamesTyped, NEW w \in Calls, SettleRound(w), UNCHANGED pickVars
  PROVE  GamesTyped' /\ (Still \/ Answer)
<1>1. PICK call : call = calls[w]
  OBVIOUS
<1>2. /\ UNCHANGED <<picks, plays>> /\ calls' = [calls EXCEPT ![w] = Idle]
      /\ call.stage = "verdict" /\ call.round \notin LockedRounds
  BY <1>1 DEF SettleRound, pickVars, Goto
<1>3. CallOk(Idle) /\ Idle.stage # "opening"
  BY DEF CallOk, Idle
<1>4. call.round \in DOMAIN rounds /\ call.outcome \in Outcomes
  BY <1>1, <1>2 DEF GamesTyped, CallsTyped, CallOk
<1>5. CASE rounds[call.round].status = "settled"
  <2>1. UNCHANGED <<bal, txns, rounds, tickets>>
    BY <1>1, <1>5 DEF SettleRound
  <2>2. CallsTyped'
    BY <1>2, <1>3, <2>1, CallMovesOn
  <2>3. QED
    BY <1>2, <2>1, <2>2, ReadsOnly
<1>6. CASE rounds[call.round].status # "settled"
  <2>1. PICK M : M = {t \in PendingTickets : tickets[t].round = call.round}
    OBVIOUS
  <2>2. PICK W : W = {t \in M : tickets[t].pick = call.outcome}
    OBVIOUS
  <2>3. /\ PayTickets(Win, W)
        /\ rounds' = [rounds EXCEPT ![call.round].status = "settled",
                                    ![call.round].outcome = call.outcome]
        /\ Fallen(W, M)
    BY <1>1, <1>6, <2>1, <2>2 DEF SettleRound, Fallen
  <2>4. PICK r : r = call.round
    OBVIOUS
  <2>5. PICK row : row = rounds[r]
    OBVIOUS
  <2>6. IsSeq(rounds) /\ r \in DOMAIN rounds /\ row \in RoundRow
    BY <1>4, <2>4, <2>5 DEF GamesTyped, Rows
  <2>7. PICK closed : closed = [row EXCEPT !.status = "settled"]
    OBVIOUS
  <2>8. PICK done : done = [closed EXCEPT !.outcome = call.outcome]
    OBVIOUS
  <2>9. done \in RoundRow /\ done.status = "settled" /\ done.outcome = call.outcome
    <3>1. closed \in RoundRow /\ closed.status = "settled"
      BY <2>6, <2>7 DEF RoundRow
    <3>2. QED
      BY <1>4, <2>8, <3>1 DEF RoundRow
  <2>10. rounds' = [rounds EXCEPT ![r] = done]
    BY <2>3, <2>4, <2>5, <2>6, <2>7, <2>8
  <2>11. /\ IsSeq(rounds)' /\ DOMAIN rounds' = DOMAIN rounds
         /\ rounds'[r] = done
         /\ \A q \in DOMAIN rounds \ {r} : rounds'[q] = rounds[q]
    BY <2>6, <2>10, ExceptFacts
  <2>12. RoundsMove
    <3>1. \A q \in DOMAIN rounds' : rounds'[q] \in RoundRow
      BY <2>9, <2>11 DEF GamesTyped, Rows
    <3>2. \A q \in DOMAIN rounds : rounds[q].status = "settled" =>
            rounds'[q].status = "settled" /\ rounds'[q].outcome = rounds[q].outcome
      BY <1>6, <2>4, <2>11
    <3>3. QED
      BY <2>11, <3>1, <3>2 DEF RoundsMove
  <2>13. W \subseteq M /\ M \subseteq PendingTickets /\ PendingTickets \subseteq DOMAIN tickets
    BY <2>1, <2>2 DEF PendingTickets
  <2>14. /\ Judged(W, M \ W, {})
         /\ \A t \in DOMAIN tickets : tickets'[t].round = tickets[t].round
    BY <2>3, <2>12, <2>13, TicketsFall
  <2>15. Verdict(W, M \ W)
    <3>1. ASSUME NEW t \in M
          PROVE  /\ tickets'[t].round \in DOMAIN rounds'
                 /\ rounds'[tickets'[t].round].status = "settled"
                 /\ t \in W <=> tickets'[t].pick = rounds'[tickets'[t].round].outcome
      <4>1. t \in DOMAIN tickets /\ tickets[t].round = r
        BY <2>1, <2>4, <2>13
      <4>2. tickets'[t].round = r /\ tickets'[t].pick = tickets[t].pick
        BY <2>14, <4>1 DEF Judged
      <4>3. rounds'[tickets'[t].round] = done /\ tickets'[t].round \in DOMAIN rounds'
        BY <2>6, <2>11, <4>2
      <4>4. t \in W <=> tickets[t].pick = call.outcome
        BY <2>2
      <4>5. QED
        BY <2>9, <4>2, <4>3, <4>4
    <3>2. QED
      BY <2>13, <3>1 DEF Verdict
  <2>16. PaysEach(W, "et_payout", 2 * Stake)
    BY <2>3, <2>13, TicketsPay
  <2>17. Answer
    <3>1. W \in SUBSET DOMAIN tickets /\ M \ W \in SUBSET DOMAIN tickets
      BY <2>13
    <3>2. QED
      BY <1>2, <2>12, <2>14, <2>15, <2>16, <3>1 DEF Answer
  <2>18. CallsTyped'
    <3>1. CallOk(Idle)'
      BY DEF CallOk, Idle
    <3>2. ASSUME NEW v \in Calls \ {w}, NEW c, c = calls[v]
          PROVE  CallOk(c)'
      <4>1. CallOk(c)
        BY <3>2 DEF GamesTyped, CallsTyped
      <4>2. c.stage = "opening" => r \notin c.locks
        BY <1>2, <2>4, <3>2 DEF LockedRounds
      <4>3. c.stage = "opening" => \A q \in c.locks : rounds'[q].status = "entered"
        BY <2>11, <4>1, <4>2 DEF CallOk
      <4>4. QED
        BY <2>11, <4>1, <4>3 DEF CallOk
    <3>3. QED
      BY <1>2, <1>3, <3>1, <3>2, CallMoves
  <2>19. QED
    BY <2>17, <2>18, AnswerKeepsOrder
<1>7. QED
  BY <1>5, <1>6

\* Ticks that fail, a restart and the money of the pool touch no bet.
LEMMA KeepersMove ==
  ASSUME GamesTyped, UNCHANGED pickVars,
         \/ \E h \in Houses : TickDrop(h)
         \/ EasyRestart
         \/ EasyTopUp
         \/ EasyFund(Stake)
  PROVE  GamesTyped' /\ Still
<1>1. ASSUME NEW h \in Houses, TickDrop(h)
      PROVE  GamesTyped' /\ Still
  <2>1. UNCHANGED <<bal, txns, tickets, rounds, picks, calls, plays>>
    BY <1>1 DEF TickDrop, pickVars
  <2>2. QED
    BY <2>1, CallsStay, ReadsOnly
<1>2. ASSUME EasyRestart
      PROVE  GamesTyped' /\ Still
  <2>1. /\ UNCHANGED <<bal, txns, tickets, rounds, picks, plays>>
        /\ calls' = [w \in Calls |-> Idle]
    BY <1>2 DEF EasyRestart, pickVars
  <2>2. CallsTyped'
    <3>1. CallOk(Idle)'
      BY DEF CallOk, Idle
    <3>2. \A w \in Calls : \A c : c = calls'[w] => CallOk(c)'
      BY <2>1, <3>1
    <3>3. (\A w \in Calls : CallOk(calls[w]))'
      BY <3>2
    <3>4. LocksApart(calls)'
      BY <2>1 DEF LocksApart, Idle
    <3>5. QED
      BY <2>1, <3>3, <3>4 DEF CallsTyped, GamesTyped
  <2>3. QED
    BY <2>1, <2>2, ReadsOnly
<1>3. ASSUME NEW amount \in Int, EasyFund(amount)
      PROVE  GamesTyped' /\ Still
  <2>1. /\ UNCHANGED <<tickets, rounds, picks, calls, plays>>
        /\ Post("fund", "easytrade_pool", NoKey, Treasury, Credit(EasyPool, amount))
    BY <1>3 DEF EasyFund, easyVars, pickVars
  <2>2. IsSeq(txns)
    BY DEF GamesTyped
  <2>3. Posted1("fund", "easytrade_pool", Treasury, EasyPool, amount)
    BY <2>1, <2>2, PostPosts
  <2>4. Silent /\ Moved(0)
    <3>1. Treasury \in Accounts /\ EasyPool \in Accounts /\ "fund" \notin Payouts
      BY GamesAssumption DEF Payouts
    <3>2. QED
      BY <2>3, <3>1, PostingMoves
  <2>5. QED
    BY <2>1, <2>4, CallsStay, RowsStay DEF Still, GamesTyped, Silent, Moved
<1>4. ASSUME EasyTopUp
      PROVE  GamesTyped' /\ Still
  <2>1. EasyFund(EasyFloor - bal[EasyPool])
    BY <1>4 DEF EasyTopUp
  <2>2. PICK amount : amount = EasyFloor - bal[EasyPool]
    OBVIOUS
  <2>3. amount \in Int
    BY <2>2, GamesAssumption DEF GamesTyped, BalTyped
  <2>4. EasyFund(amount)
    BY <2>1, <2>2
  <2>5. QED
    BY <1>3, <2>3, <2>4
<1>5. Stake \in Int
  BY EasyStakeAssumption
<1>6. QED
  BY <1>1, <1>2, <1>3, <1>4, <1>5

------------------------------------------------------------------------------
(* The actions of Baby Pick.                                                 *)

LEMMA PlayMoves ==
  ASSUME GamesTyped, NEW w \in Plays, NEW new, plays' = [plays EXCEPT ![w] = new],
         UNCHANGED easyVars, new.stage \in {"guard", "place"} => new.user \in Players
  PROVE  CallsTyped'
<1>1. UNCHANGED <<calls, rounds>>
  BY DEF easyVars
<1>2. (\A v \in Calls : CallOk(calls[v]))'
  <2>1. \A v \in Calls : \A c : c = calls[v] => CallOk(c)'
    BY <1>1 DEF GamesTyped, CallsTyped, CallOk
  <2>2. QED
    BY <1>1, <2>1
<1>3. LocksApart(calls)'
  BY <1>1 DEF GamesTyped, CallsTyped, LocksApart
<1>4. plays' = [v \in Plays |-> plays'[v]]
  BY DEF GamesTyped, CallsTyped
<1>5. \A v \in Plays : plays'[v].stage \in {"guard", "place"} => plays'[v].user \in Players
  <2>1. plays'[w] = new /\ \A v \in Plays \ {w} : plays'[v] = plays[v]
    BY DEF GamesTyped, CallsTyped
  <2>2. QED
    BY <2>1 DEF GamesTyped, CallsTyped
<1>6. QED
  BY <1>1, <1>2, <1>3, <1>4, <1>5 DEF GamesTyped, CallsTyped

LEMMA PlaysRead ==
  ASSUME GamesTyped, NEW w \in Plays, UNCHANGED easyVars,
         \/ \E u \in Players : AskPick(w, u)
         \/ GuardPick(w)
         \/ AbandonPick(w)
  PROVE  GamesTyped' /\ Still
<1>1. UNCHANGED <<bal, txns, tickets, rounds, picks>>
  BY DEF AskPick, GuardPick, AbandonPick, easyVars
<1>2. PICK new : plays' = [plays EXCEPT ![w] = new] /\ (new.stage \in {"guard", "place"} => new.user \in Players)
  <2>1. ASSUME NEW u \in Players, AskPick(w, u)
        PROVE  \E new : plays' = [plays EXCEPT ![w] = new] /\ (new.stage \in {"guard", "place"} => new.user \in Players)
    <3>1. PICK new : new = [stage |-> "guard", user |-> u]
      OBVIOUS
    <3>2. new.user \in Players
      BY <3>1
    <3>3. QED
      BY <2>1, <3>1, <3>2 DEF AskPick, GotoPlay
  <2>2. ASSUME GuardPick(w)
        PROVE  \E new : plays' = [plays EXCEPT ![w] = new] /\ (new.stage \in {"guard", "place"} => new.user \in Players)
    <3>1. PICK new : new = [plays[w] EXCEPT !.stage = "place"]
      OBVIOUS
    <3>2. new.user = plays[w].user
      BY <3>1
    <3>3. plays[w].user \in Players
      BY <2>2 DEF GuardPick, GamesTyped, CallsTyped
    <3>4. QED
      BY <2>2, <3>1, <3>2, <3>3 DEF GuardPick, GotoPlay
  <2>3. ASSUME AbandonPick(w)
        PROVE  \E new : plays' = [plays EXCEPT ![w] = new] /\ (new.stage \in {"guard", "place"} => new.user \in Players)
    <3>1. NoPlay.stage = "idle"
      BY DEF NoPlay
    <3>2. QED
      BY <2>3, <3>1 DEF AbandonPick, GotoPlay
  <2>4. QED
    BY <2>1, <2>2, <2>3
<1>3. CallsTyped'
  BY <1>2, PlayMoves
<1>4. QED
  BY <1>1, <1>3, ReadsOnly

LEMMA PickRowsKept ==
  ASSUME GamesTyped, UNCHANGED easyVars, IsSeq(picks)', \A i \in DOMAIN picks' : picks'[i] \in PickRow
  PROVE  Rows'
BY DEF GamesTyped, Rows, easyVars, IsSeq

LEMMA PickPlaced ==
  ASSUME GamesTyped, NEW w \in Plays, NEW fate \in {"won", "lost"}, PlacePick(w, fate), UNCHANGED easyVars
  PROVE  GamesTyped' /\ Played
<1>1. PICK i, u : i = Len(picks) + 1 /\ u = plays[w].user
  OBVIOUS
<1>2. /\ plays[w].stage = "place" /\ plays' = [plays EXCEPT ![w] = NoPlay]
      /\ Post("bp_stake", i, <<"bp:stake", i>>, Available(u), Credit(EasyPool, Wager))
      /\ picks' = Append(picks, [user |-> u, fate |-> fate, status |-> "pending"])
  BY <1>1 DEF PlacePick, GotoPlay, PickPool, EasyPool
<1>3. u \in Players
  BY <1>1, <1>2 DEF GamesTyped, CallsTyped
<1>4. PICK row : row = [user |-> u, fate |-> fate, status |-> "pending"]
  OBVIOUS
<1>5. row \in PickRow /\ row.status = "pending"
  BY <1>3, <1>4 DEF PickRow
<1>6. Grown(picks, picks', row)
  BY <1>2, <1>4, AppendGrows DEF GamesTyped, Rows
<1>7. Rows'
  <2>1. IsSeq(picks)' /\ \A j \in DOMAIN picks' : picks'[j] \in PickRow
    BY <1>5, <1>6 DEF Grown, GamesTyped, Rows
  <2>2. QED
    BY <2>1, PickRowsKept
<1>8. CallsTyped'
  <2>1. NoPlay.stage = "idle"
    BY DEF NoPlay
  <2>2. QED
    BY <1>2, <2>1, PlayMoves
<1>9. Wager \in Int /\ EasyPool \in Accounts /\ Available(u) \in Accounts \ {EasyPool, Treasury}
  BY <1>3, GamesAssumption
<1>10. Posted1("bp_stake", i, Available(u), EasyPool, Wager)
  BY <1>2, <1>9, PostPosts DEF GamesTyped
<1>11. Silent /\ Moved(Wager)
  BY <1>9, <1>10, PostingMoves DEF Payouts
<1>12. UNCHANGED <<rounds, tickets>>
  BY DEF easyVars
<1>13. Played
  BY <1>5, <1>6, <1>11, <1>12 DEF Played
<1>14. QED
  BY <1>7, <1>8, <1>11, <1>13 DEF GamesTyped, Silent, Moved

LEMMA PickSettled ==
  ASSUME GamesTyped, NEW i \in DOMAIN picks, SettleQuick(i), UNCHANGED easyVars
  PROVE  GamesTyped' /\ Decided(i)
<1>1. UNCHANGED <<tickets, rounds, calls, plays>>
  BY DEF SettleQuick, easyVars
<1>2. i \in LivePicks /\ picks' = [picks EXCEPT ![i].status = picks[i].fate]
  BY DEF SettleQuick
<1>3. PICK row \in PickRow : row = picks[i]
  BY DEF GamesTyped, Rows
<1>4. PICK u, fate : u = row.user /\ fate = row.fate
  OBVIOUS
<1>5. u \in Players /\ fate \in {"won", "lost"}
  BY <1>4 DEF PickRow
<1>6. Rows'
  <2>1. PICK new : new = [row EXCEPT !.status = fate]
    OBVIOUS
  <2>2. new \in PickRow
    BY <1>5, <2>1 DEF PickRow
  <2>3. picks' = [picks EXCEPT ![i] = new]
    BY <1>2, <1>3, <1>4, <2>1
  <2>4. IsSeq(picks)' /\ \A j \in DOMAIN picks' : picks'[j] \in PickRow
    BY <2>2, <2>3, ExceptFacts DEF GamesTyped, Rows
  <2>5. QED
    BY <2>4, PickRowsKept
<1>7. CallsTyped'
  BY <1>1, CallsStay
<1>8. ASSUME fate = "lost"
      PROVE  Silent /\ Moved(0)
  <2>1. UNCHANGED <<bal, txns>>
    BY <1>3, <1>4, <1>8 DEF SettleQuick
  <2>2. QED
    BY <2>1, NothingMoves
<1>9. ASSUME fate # "lost"
      PROVE  /\ Moved(-(2 * Wager))
             /\ \E x : Grown(txns, txns', x) /\ x.type = "bp_payout" /\ x.ref = i
  <2>1. PICK amount \in Int : amount = 2 * Wager
    BY GamesAssumption
  <2>2. Post("bp_payout", i, <<"bp:payout", i>>, EasyPool, Credit(Available(u), amount))
    BY <1>3, <1>4, <1>9, <2>1 DEF SettleQuick, PickPool, EasyPool
  <2>3. EasyPool \in Accounts /\ Available(u) \in Accounts \ {EasyPool, Treasury}
    BY <1>5, GamesAssumption
  <2>4. Posted1("bp_payout", i, EasyPool, Available(u), amount)
    BY <2>2, PostPosts DEF GamesTyped
  <2>5. Moved(-amount)
    BY <2>3, <2>4, PostingMoves
  <2>6. QED
    BY <2>1, <2>4, <2>5 DEF Posted1
<1>10. IsSeq(txns)' /\ BalTyped'
  <2>1. CASE fate = "lost"
    BY <1>8, <2>1 DEF Silent, Moved
  <2>2. CASE fate # "lost"
    BY <1>9, <2>2 DEF Grown, Moved
  <2>3. QED
    BY <2>1, <2>2
<1>11. Decided(i)
  BY <1>1, <1>2, <1>3, <1>4, <1>5, <1>8, <1>9 DEF Decided
<1>12. QED
  BY <1>6, <1>7, <1>10, <1>11 DEF GamesTyped

------------------------------------------------------------------------------
(* Every step is one of these.                                               *)

LEMMA GamesStep ==
  ASSUME GamesTyped, [GamesNext]_gameVars
  PROVE  GamesTyped' /\ (Still \/ Placed \/ Answer \/ Played \/ \E i \in DOMAIN picks : Decided(i))
<1> DEFINE Good == GamesTyped' /\ (Still \/ Placed \/ Answer \/ Played \/ \E i \in DOMAIN picks : Decided(i))
<1>1. /\ GamesTyped' /\ Still => Good
      /\ GamesTyped' /\ Placed => Good
      /\ GamesTyped' /\ Answer => Good
      /\ GamesTyped' /\ Played => Good
      /\ \A i \in DOMAIN picks : GamesTyped' /\ Decided(i) => Good
  OBVIOUS
<1> HIDE DEF Good
<1>2. CASE UNCHANGED gameVars
  <2>1. UNCHANGED <<bal, txns, tickets, rounds, picks, calls, plays>>
    BY <1>2 DEF gameVars, easyVars, pickVars
  <2>2. GamesTyped' /\ Still
    BY <2>1, CallsStay, ReadsOnly
  <2>3. QED
    BY <1>1, <2>2 DEF Good
<1>3. ASSUME EasyNext, UNCHANGED pickVars
      PROVE  Good
  <2>1. ASSUME NEW w \in Calls, NEW h \in Houses,
               \/ \E u \in Users : AskBet(w, u, h)
               \/ \E ext \in Exts \union {NoExt} :
                    \/ StartEntry(w, h, ext, "webhook")
                    \/ \E outcome \in Outcomes : StartEvent(w, h, ext, outcome, "webhook")
                    \/ TickOpen(w, h, ext)
        PROVE  Good
    <3>1. ASSUME NEW u \in Users, AskBet(w, u, h)
          PROVE  Good
      BY <1>1, <1>3, <3>1, CallsRead
    <3>2. ASSUME NEW ext \in Exts \union {NoExt}, StartEntry(w, h, ext, "webhook")
          PROVE  Good
      BY <1>1, <1>3, <3>2, EntryStarts
    <3>3. ASSUME NEW ext \in Exts \union {NoExt}, NEW outcome \in Outcomes, StartEvent(w, h, ext, outcome, "webhook")
          PROVE  Good
      BY <1>1, <1>3, <3>3, CallsRead
    <3>4. ASSUME NEW ext \in Exts \union {NoExt}, TickOpen(w, h, ext)
          PROVE  Good
      <4>1. StartEntry(w, h, ext, "autopilot")
        BY <3>4 DEF TickOpen
      <4>2. QED
        BY <1>1, <1>3, <4>1, EntryStarts
    <3>5. QED
      BY <2>1, <3>1, <3>2, <3>3, <3>4
  <2>2. ASSUME NEW w \in Calls, NEW h \in Houses, TickEnd(w, h)
        PROVE  Good
    <3>1. PICK outcome \in Outcomes : StartEvent(w, h, active[h], outcome, "autopilot")
      BY <2>2 DEF TickEnd
    <3>2. PICK ext : ext = active[h]
      OBVIOUS
    <3>3. StartEvent(w, h, ext, outcome, "autopilot")
      BY <3>1, <3>2
    <3>4. QED
      BY <1>1, <1>3, <3>3, CallsRead
  <2>3. ASSUME NEW w \in Calls, EasyContinue(w)
        PROVE  Good
    <3>1. CASE GuardBet(w) \/ AbandonCall(w)
      BY <1>1, <1>3, <3>1, CallsRead
    <3>2. ASSUME NEW pick \in Outcomes, PlaceBet(w, pick)
          PROVE  Good
      BY <1>1, <1>3, <3>2, BetPlaced
    <3>3. CASE OpenRound(w)
      BY <1>1, <1>3, <3>3, RoundOpened
    <3>4. CASE SettleRound(w)
      BY <1>1, <1>3, <3>4, RoundSettled
    <3>5. QED
      BY <2>3, <3>1, <3>2, <3>3, <3>4 DEF EasyContinue
  <2>4. ASSUME NEW t \in DOMAIN tickets, CancelTicket(t)
        PROVE  Good
    BY <1>1, <1>3, <2>4, TicketCancelled
  <2>5. CASE (\E h \in Houses : TickDrop(h)) \/ EasyRestart \/ EasyTopUp \/ EasyFund(Stake)
    BY <1>1, <1>3, <2>5, KeepersMove
  <2>6. QED
    BY <1>3, <2>1, <2>2, <2>3, <2>4, <2>5 DEF EasyNext, SweepStale
<1>4. ASSUME PickNext, UNCHANGED easyVars
      PROVE  Good
  <2>1. ASSUME NEW w \in Plays, NEW u \in Players, AskPick(w, u)
        PROVE  Good
    BY <1>1, <1>4, <2>1, PlaysRead
  <2>2. ASSUME NEW w \in Plays, GuardPick(w) \/ AbandonPick(w)
        PROVE  Good
    BY <1>1, <1>4, <2>2, PlaysRead
  <2>3. ASSUME NEW w \in Plays, NEW fate \in {"won", "lost"}, PlacePick(w, fate)
        PROVE  Good
    BY <1>1, <1>4, <2>3, PickPlaced
  <2>4. ASSUME NEW i \in DOMAIN picks, SettleQuick(i)
        PROVE  Good
    BY <1>1, <1>4, <2>4, PickSettled
  <2>5. QED
    BY <1>4, <2>1, <2>2, <2>3, <2>4 DEF PickNext, PickContinue
<1>5. QED
  BY <1>2, <1>3, <1>4 DEF GamesNext, Good

LEMMA GamesStart ==
  ASSUME GamesInit
  PROVE  GamesTyped
<1>1. IsSeq(txns) /\ IsSeq(tickets) /\ IsSeq(rounds) /\ IsSeq(picks)
  BY DEF GamesInit, EasyInit, PickInit, IsSeq
<1>2. BalTyped
  BY GamesAssumption DEF GamesInit, BalTyped, EasyPool, Treasury, Available
<1>3. Rows
  BY <1>1 DEF Rows, GamesInit, EasyInit, PickInit
<1>4. CallsTyped
  BY DEF GamesInit, EasyInit, PickInit, CallsTyped, CallOk, LocksApart, Idle, NoPlay
<1>5. QED
  BY <1>1, <1>2, <1>3, <1>4 DEF GamesTyped

------------------------------------------------------------------------------
(* Payments and rows agree.                                                  *)

\* A ticket is paid for as its row says, and by one transaction.
TicketsPaid ==
  /\ \A x \in DOMAIN txns : txns[x].type \in {"et_payout", "et_refund"} =>
       /\ txns[x].ref \in DOMAIN tickets
       /\ txns[x].type = "et_payout" => tickets[txns[x].ref].status = "won" /\ txns[x].amount = 2 * Stake
       /\ txns[x].type = "et_refund" => tickets[txns[x].ref].status = "refunded" /\ txns[x].amount = Stake
  /\ \A x, y \in DOMAIN txns :
       /\ txns[x].type \in {"et_payout", "et_refund"} /\ txns[y].type \in {"et_payout", "et_refund"}
       /\ txns[x].ref = txns[y].ref
       => x = y
  /\ \A t \in DOMAIN tickets : tickets[t].status \in {"won", "refunded"} =>
       \E x \in DOMAIN txns : txns[x].type \in {"et_payout", "et_refund"} /\ txns[x].ref = t

PicksPaid ==
  /\ \A x \in DOMAIN txns : txns[x].type = "bp_payout" =>
       txns[x].ref \in DOMAIN picks /\ picks[txns[x].ref].status = "won"
  /\ \A x, y \in DOMAIN txns :
       txns[x].type = "bp_payout" /\ txns[y].type = "bp_payout" /\ txns[x].ref = txns[y].ref => x = y
  /\ \A i \in DOMAIN picks : picks[i].status = "won" =>
       \E x \in DOMAIN txns : txns[x].type = "bp_payout" /\ txns[x].ref = i

LEMMA TicketsPaidStep ==
  ASSUME GamesTyped, TicketsPaid,
         Still \/ Placed \/ Answer \/ Played \/ \E i \in DOMAIN picks : Decided(i)
  PROVE  TicketsPaid'
<1> DEFINE Pays == {"et_payout", "et_refund"}
<1>1. CASE Still \/ Played
  <2>1. UNCHANGED tickets /\ Silent
    BY <1>1 DEF Still, Played
  <2>2. QED
    BY <2>1 DEF Silent, Payouts, TicketsPaid
<1>2. CASE \E i \in DOMAIN picks : Decided(i)
  <2>1. /\ UNCHANGED tickets
        /\ DOMAIN txns \subseteq DOMAIN txns'
        /\ \A x \in DOMAIN txns : txns'[x] = txns[x]
        /\ \A x \in DOMAIN txns' \ DOMAIN txns : txns'[x].type \notin Pays
    BY <1>2 DEF Decided, Silent, Payouts, Grown
  <2>2. QED
    BY <2>1 DEF TicketsPaid
<1>3. CASE Placed
  <2>1. PICK row : row.status = "pending" /\ Grown(tickets, tickets', row)
    BY <1>3 DEF Placed
  <2>2. Silent
    BY <1>3 DEF Placed
  <2>3. /\ DOMAIN tickets \subseteq DOMAIN tickets'
        /\ \A t \in DOMAIN tickets : tickets'[t] = tickets[t]
        /\ \A t \in DOMAIN tickets' \ DOMAIN tickets : tickets'[t].status = "pending"
    BY <2>1 DEF Grown
  <2>4. QED
    BY <2>2, <2>3 DEF Silent, Payouts, TicketsPaid
<1>4. CASE Answer
  <2>1. PICK W, L, R \in SUBSET DOMAIN tickets :
          /\ Judged(W, L, R)
          /\ \/ R = {} /\ PaysEach(W, "et_payout", 2 * Stake)
             \/ W = {} /\ L = {} /\ PaysEach(R, "et_refund", Stake)
    BY <1>4 DEF Answer
  <2> DEFINE Paying(S, type, amount, status) ==
               /\ S \in SUBSET DOMAIN tickets /\ type \in Pays
               /\ PaysEach(S, type, amount)
               /\ type = "et_payout" => status = "won" /\ amount = 2 * Stake /\ W = S /\ R = {}
               /\ type = "et_refund" => status = "refunded" /\ amount = Stake /\ W = {} /\ L = {} /\ R = S
  <2>2. Paying(W, "et_payout", 2 * Stake, "won") \/ Paying(R, "et_refund", Stake, "refunded")
    BY <2>1
  <2> HIDE DEF Paying
  <2>3. PICK S, type, amount, status : Paying(S, type, amount, status)
    BY <2>2
  <2>4. /\ S \in SUBSET DOMAIN tickets /\ type \in Pays
        /\ PaysEach(S, type, amount)
        /\ type = "et_payout" => status = "won" /\ amount = 2 * Stake /\ W = S /\ R = {}
        /\ type = "et_refund" => status = "refunded" /\ amount = Stake /\ W = {} /\ L = {} /\ R = S
    BY <2>3 DEF Paying
  <2>5. /\ DOMAIN tickets' = DOMAIN tickets
        /\ \A t \in S : tickets[t].status = "pending" /\ tickets'[t].status = status
        /\ \A t \in DOMAIN tickets \ S : \/ tickets'[t].status = tickets[t].status
                                         \/ tickets[t].status = "pending" /\ tickets'[t].status = "lost"
    BY <2>1, <2>4 DEF Judged, PendingTickets
  <2>6. /\ DOMAIN txns \subseteq DOMAIN txns'
        /\ \A x \in DOMAIN txns : txns'[x] = txns[x]
        /\ \A x \in DOMAIN txns' \ DOMAIN txns :
             txns'[x].type = type /\ txns'[x].ref \in S /\ txns'[x].amount = amount
        /\ \A x, y \in DOMAIN txns' \ DOMAIN txns : txns'[x].ref = txns'[y].ref => x = y
        /\ \A t \in S : \E x \in DOMAIN txns' \ DOMAIN txns : txns'[x].ref = t
    BY <2>4 DEF PaysEach
  <2>7. \A x \in DOMAIN txns : txns[x].type \in Pays => txns[x].ref \notin S
    BY <2>5 DEF TicketsPaid
  <2>8. ASSUME NEW x \in DOMAIN txns', txns'[x].type \in Pays
        PROVE  /\ txns'[x].ref \in DOMAIN tickets'
               /\ txns'[x].type = "et_payout" => tickets'[txns'[x].ref].status = "won" /\ txns'[x].amount = 2 * Stake
               /\ txns'[x].type = "et_refund" => tickets'[txns'[x].ref].status = "refunded" /\ txns'[x].amount = Stake
    <3>1. CASE x \in DOMAIN txns
      <4>1. txns'[x] = txns[x] /\ txns[x].ref \in DOMAIN tickets \ S
        BY <2>6, <2>7, <2>8, <3>1 DEF TicketsPaid
      <4>2. tickets'[txns[x].ref].status = tickets[txns[x].ref].status
        BY <2>5, <2>8, <3>1, <4>1 DEF TicketsPaid
      <4>3. QED
        BY <2>5, <2>8, <3>1, <4>1, <4>2 DEF TicketsPaid
    <3>2. CASE x \notin DOMAIN txns
      BY <2>4, <2>5, <2>6, <3>2
    <3>3. QED
      BY <3>1, <3>2
  <2>9. ASSUME NEW x \in DOMAIN txns', NEW y \in DOMAIN txns', txns'[x].type \in Pays,
               txns'[y].type \in Pays, txns'[x].ref = txns'[y].ref
        PROVE  x = y
    <3>1. CASE x \in DOMAIN txns /\ y \in DOMAIN txns
      BY <2>6, <2>9, <3>1 DEF TicketsPaid
    <3>2. CASE x \notin DOMAIN txns /\ y \notin DOMAIN txns
      BY <2>6, <2>9, <3>2
    <3>3. CASE x \in DOMAIN txns /\ y \notin DOMAIN txns
      BY <2>6, <2>7, <2>9, <3>3
    <3>4. CASE x \notin DOMAIN txns /\ y \in DOMAIN txns
      BY <2>6, <2>7, <2>9, <3>4
    <3>5. QED
      BY <3>1, <3>2, <3>3, <3>4
  <2>10. ASSUME NEW t \in DOMAIN tickets', tickets'[t].status \in {"won", "refunded"}
        PROVE  \E x \in DOMAIN txns' : txns'[x].type \in Pays /\ txns'[x].ref = t
    <3>1. CASE t \in S
      BY <2>4, <2>6, <3>1
    <3>2. CASE t \notin S
      <4>1. t \in DOMAIN tickets /\ tickets[t].status \in {"won", "refunded"}
        BY <2>5, <2>10, <3>2
      <4>2. PICK x \in DOMAIN txns : txns[x].type \in Pays /\ txns[x].ref = t
        BY <4>1 DEF TicketsPaid
      <4>3. QED
        BY <2>6, <4>2
    <3>3. QED
      BY <3>1, <3>2
  <2>11. QED
    BY <2>8, <2>9, <2>10 DEF TicketsPaid
<1>5. QED
  BY <1>1, <1>2, <1>3, <1>4

LEMMA PicksPaidStep ==
  ASSUME GamesTyped, PicksPaid,
         Still \/ Placed \/ Answer \/ Played \/ \E i \in DOMAIN picks : Decided(i)
  PROVE  PicksPaid'
<1>1. CASE Still \/ Placed \/ Answer
  <2>1. /\ UNCHANGED picks
        /\ DOMAIN txns \subseteq DOMAIN txns'
        /\ \A x \in DOMAIN txns : txns'[x] = txns[x]
        /\ \A x \in DOMAIN txns' \ DOMAIN txns : txns'[x].type # "bp_payout"
    BY <1>1 DEF Still, Placed, Answer, Silent, Payouts, PaysEach
  <2>2. QED
    BY <2>1 DEF PicksPaid
<1>2. CASE Played
  <2>1. PICK row : row.status = "pending" /\ Grown(picks, picks', row)
    BY <1>2 DEF Played
  <2>2. Silent
    BY <1>2 DEF Played
  <2>3. /\ DOMAIN picks \subseteq DOMAIN picks'
        /\ \A t \in DOMAIN picks : picks'[t] = picks[t]
        /\ \A t \in DOMAIN picks' \ DOMAIN picks : picks'[t].status = "pending"
    BY <2>1 DEF Grown
  <2>4. QED
    BY <2>2, <2>3 DEF Silent, Payouts, PicksPaid
<1>3. ASSUME NEW i \in DOMAIN picks, Decided(i)
      PROVE  PicksPaid'
  <2>1. picks[i].status = "pending" /\ picks' = [picks EXCEPT ![i].status = picks[i].fate]
    BY <1>3 DEF Decided, LivePicks
  <2>2. IsSeq(picks) /\ picks[i] \in PickRow
    BY DEF GamesTyped, Rows
  <2>3. /\ DOMAIN picks' = DOMAIN picks
        /\ picks'[i].status = picks[i].fate
        /\ \A j \in DOMAIN picks \ {i} : picks'[j] = picks[j]
    BY <2>1, <2>2 DEF PickRow
  <2>4. \A x \in DOMAIN txns : txns[x].type = "bp_payout" => txns[x].ref # i
    BY <2>1 DEF PicksPaid
  <2>5. CASE picks[i].fate = "lost"
    <3>1. Silent
      BY <1>3, <2>5 DEF Decided
    <3>2. picks'[i].status = "lost"
      BY <2>3, <2>5
    <3>3. QED
      BY <2>3, <2>4, <3>1, <3>2 DEF Silent, Payouts, PicksPaid
  <2>6. CASE picks[i].fate # "lost"
    <3>1. picks'[i].status = "won" /\ \E x : Grown(txns, txns', x) /\ x.type = "bp_payout" /\ x.ref = i
      BY <1>3, <2>2, <2>3, <2>6 DEF Decided, PickRow
    <3>2. PICK n : /\ DOMAIN txns' = DOMAIN txns \union {n} /\ n \notin DOMAIN txns
                   /\ \A x \in DOMAIN txns : txns'[x] = txns[x]
                   /\ txns'[n].type = "bp_payout" /\ txns'[n].ref = i
      <4>1. PICK x : Grown(txns, txns', x) /\ x.type = "bp_payout" /\ x.ref = i
        BY <3>1
      <4>2. PICK n : n \in DOMAIN txns' /\ n \notin DOMAIN txns /\ txns'[n] = x /\ DOMAIN txns' = DOMAIN txns \union {n}
        BY <4>1 DEF Grown, GamesTyped, IsSeq
      <4>3. QED
        BY <4>1, <4>2 DEF Grown
    <3>3. QED
      BY <2>3, <2>4, <3>1, <3>2 DEF PicksPaid
  <2>7. QED
    BY <2>5, <2>6
<1>4. QED
  BY <1>1, <1>2, <1>3

------------------------------------------------------------------------------
(* Verdicts.                                                                 *)

Judgements ==
  \A t \in DOMAIN tickets : tickets[t].status \in {"won", "lost"} =>
    /\ tickets[t].round \in DOMAIN rounds
    /\ rounds[tickets[t].round].status = "settled"
    /\ tickets[t].status = "won" <=> tickets[t].pick = rounds[tickets[t].round].outcome

\* What a step may do to rounds and tickets that are done with.
Kept ==
  /\ \A r \in DOMAIN rounds : rounds[r].status = "settled" =>
       rounds'[r].status = "settled" /\ rounds'[r].outcome = rounds[r].outcome
  /\ \A t \in DOMAIN tickets : tickets[t].status # "pending" =>
       tickets'[t].status = tickets[t].status /\ tickets'[t].round = tickets[t].round

LEMMA StepKeeps ==
  ASSUME GamesTyped, Judgements,
         Still \/ Placed \/ Answer \/ Played \/ \E i \in DOMAIN picks : Decided(i)
  PROVE  Judgements' /\ Kept
<1>1. CASE Still \/ Played \/ \E i \in DOMAIN picks : Decided(i)
  <2>1. UNCHANGED <<tickets, rounds>>
    BY <1>1 DEF Still, Played, Decided
  <2>2. QED
    BY <2>1 DEF Judgements, Kept
<1>2. CASE Placed
  <2>1. PICK row : row.status = "pending" /\ Grown(tickets, tickets', row)
    BY <1>2 DEF Placed
  <2>2. /\ UNCHANGED rounds
        /\ DOMAIN tickets \subseteq DOMAIN tickets'
        /\ \A t \in DOMAIN tickets : tickets'[t] = tickets[t]
        /\ \A t \in DOMAIN tickets' \ DOMAIN tickets : tickets'[t].status = "pending"
    BY <1>2, <2>1 DEF Placed, Grown
  <2>3. QED
    BY <2>2 DEF Judgements, Kept
<1>3. CASE Answer
  <2>1. PICK W, L, R \in SUBSET DOMAIN tickets : Judged(W, L, R) /\ Verdict(W, L)
    BY <1>3 DEF Answer
  <2>2. RoundsMove
    BY <1>3 DEF Answer
  <2>3. ASSUME NEW t \in DOMAIN tickets'
        PROVE  /\ t \in DOMAIN tickets /\ tickets'[t].pick = tickets[t].pick
               /\ tickets'[t].status \in {"won", "lost"} =>
                    \/ t \in W \union L
                    \/ tickets[t].status \in {"won", "lost"}
               /\ tickets[t].status # "pending" =>
                    tickets'[t].status = tickets[t].status /\ tickets'[t].round = tickets[t].round
               /\ t \in W => tickets'[t].status = "won"
               /\ t \in L => tickets'[t].status = "lost"
    BY <2>1 DEF Judged, PendingTickets
  <2>4. Kept
    BY <2>1, <2>2, <2>3 DEF Kept, RoundsMove, Judged
  <2>5. ASSUME NEW t \in DOMAIN tickets', tickets'[t].status \in {"won", "lost"}
        PROVE  /\ tickets'[t].round \in DOMAIN rounds'
               /\ rounds'[tickets'[t].round].status = "settled"
               /\ tickets'[t].status = "won" <=> tickets'[t].pick = rounds'[tickets'[t].round].outcome
    <3>1. CASE t \in W \union L
      <4>1. tickets'[t].status = "won" <=> t \in W
        BY <2>1, <2>3, <3>1 DEF Judged
      <4>2. QED
        BY <2>1, <3>1, <4>1 DEF Verdict
    <3>2. CASE t \notin W \union L
      <4>1. /\ t \in DOMAIN tickets /\ tickets[t].status \in {"won", "lost"}
            /\ tickets'[t].status = tickets[t].status /\ tickets'[t].round = tickets[t].round
            /\ tickets'[t].pick = tickets[t].pick
        BY <2>3, <2>5, <3>2
      <4>2. PICK r : r = tickets[t].round
        OBVIOUS
      <4>3. /\ r \in DOMAIN rounds /\ rounds[r].status = "settled"
            /\ tickets[t].status = "won" <=> tickets[t].pick = rounds[r].outcome
        BY <4>1, <4>2 DEF Judgements
      <4>4. r \in DOMAIN rounds' /\ rounds'[r].status = "settled" /\ rounds'[r].outcome = rounds[r].outcome
        BY <2>2, <4>3 DEF RoundsMove
      <4>5. QED
        BY <4>1, <4>2, <4>3, <4>4
    <3>3. QED
      BY <3>1, <3>2
  <2>6. QED
    BY <2>4, <2>5 DEF Judgements
<1>4. QED
  BY <1>1, <1>2, <1>3

------------------------------------------------------------------------------
(* The money of the pool.                                                    *)

TicketsOf(status) == {t \in DOMAIN tickets : tickets[t].status = status}
PicksOf(status) == {i \in DOMAIN picks : picks[i].status = status}

\* How many open and lost bets there are more than won ones.
TicketNet == TicketsIn("pending") + TicketsIn("lost") - TicketsIn("won")
PickNet == PicksIn("pending") + PicksIn("lost") - PicksIn("won")

PoolBalanced ==
  bal[EasyPool] + bal[Treasury] = EasyBuffer + EasyReserve + Stake * TicketNet + Wager * PickNet

LEMMA Counts ==
  ASSUME GamesTyped, NEW status
  PROVE  /\ IsFiniteSet(TicketsOf(status)) /\ TicketsIn(status) = Cardinality(TicketsOf(status))
         /\ IsFiniteSet(PicksOf(status)) /\ PicksIn(status) = Cardinality(PicksOf(status))
         /\ TicketsIn(status) \in Nat /\ PicksIn(status) \in Nat
<1>1. IsFiniteSet(DOMAIN tickets) /\ IsFiniteSet(DOMAIN picks)
  BY SeqFinite DEF GamesTyped, Rows
<1>2. IsFiniteSet(TicketsOf(status)) /\ IsFiniteSet(PicksOf(status))
  BY <1>1, FS_Subset DEF TicketsOf, PicksOf
<1>3. QED
  BY <1>2, FS_CardinalityType DEF TicketsOf, PicksOf, TicketsIn, PicksIn

LEMMA CardMore ==
  ASSUME NEW S, NEW T, IsFiniteSet(S), IsFiniteSet(T), S \intersect T = {}
  PROVE  Cardinality(S \union T) = Cardinality(S) + Cardinality(T)
<1>1. Cardinality(S \union T) = Cardinality(S) + Cardinality(T) - 0
  BY FS_Union, FS_EmptySet
<1>2. Cardinality(S) \in Nat /\ Cardinality(T) \in Nat
  BY FS_CardinalityType
<1>3. QED
  BY <1>1, <1>2

LEMMA CardLess ==
  ASSUME NEW S, NEW T, IsFiniteSet(S), T \subseteq S
  PROVE  IsFiniteSet(T) /\ Cardinality(S \ T) = Cardinality(S) - Cardinality(T)
<1>1. IsFiniteSet(T)
  BY FS_Subset
<1>2. Cardinality(S \ T) = Cardinality(S) - Cardinality(S \intersect T)
  BY FS_Difference
<1>3. S \intersect T = T
  OBVIOUS
<1>4. QED
  BY ONLY <1>1, <1>2, <1>3

\* When bets are answered, each that is won counts two less, each refunded one.
LEMMA NetChanges ==
  ASSUME GamesTyped, NEW W \in SUBSET DOMAIN tickets, NEW L \in SUBSET DOMAIN tickets,
         NEW R \in SUBSET DOMAIN tickets, Judged(W, L, R), GamesTyped'
  PROVE  TicketNet' = TicketNet - 2 * Cardinality(W) - Cardinality(R)
<1>1. PICK P, Lo, Wo : P = TicketsOf("pending") /\ Lo = TicketsOf("lost") /\ Wo = TicketsOf("won")
  OBVIOUS
<1>2. PICK A : A = (W \union L) \union R
  OBVIOUS
<1>3. /\ A \subseteq P /\ W \intersect Wo = {} /\ L \intersect Lo = {}
      /\ W \intersect L = {} /\ (W \union L) \intersect R = {}
  BY <1>1, <1>2 DEF Judged, PendingTickets, TicketsOf
<1>4. /\ TicketsOf("pending")' = P \ A
      /\ TicketsOf("lost")' = Lo \union L
      /\ TicketsOf("won")' = Wo \union W
  <2>1. DOMAIN tickets' = DOMAIN tickets
    BY DEF Judged
  <2>2. ASSUME NEW t \in DOMAIN tickets
        PROVE  /\ tickets'[t].status = "pending" <=> t \in P \ A
               /\ tickets'[t].status = "lost" <=> t \in Lo \union L
               /\ tickets'[t].status = "won" <=> t \in Wo \union W
    <3>1. tickets'[t].status = CASE t \in W -> "won" [] t \in L -> "lost" [] t \in R -> "refunded"
                                 [] OTHER -> tickets[t].status
      BY DEF Judged
    <3>2. /\ t \in P <=> tickets[t].status = "pending"
          /\ t \in Lo <=> tickets[t].status = "lost"
          /\ t \in Wo <=> tickets[t].status = "won"
      BY <1>1 DEF TicketsOf
    <3>3. CASE t \in W
      BY <1>2, <1>3, <3>1, <3>2, <3>3
    <3>4. CASE t \in L
      BY <1>2, <1>3, <3>1, <3>2, <3>4
    <3>5. CASE t \in R
      BY <1>2, <1>3, <3>1, <3>2, <3>5
    <3>6. CASE t \notin A
      BY <1>2, <1>3, <3>1, <3>2, <3>6
    <3>7. QED
      BY <1>2, <3>3, <3>4, <3>5, <3>6
  <2>3. P \subseteq DOMAIN tickets /\ Lo \union L \subseteq DOMAIN tickets /\ Wo \union W \subseteq DOMAIN tickets
    BY <1>1 DEF TicketsOf
  <2>4. QED
    BY <2>1, <2>2, <2>3 DEF TicketsOf
<1>5. IsFiniteSet(P) /\ IsFiniteSet(Lo) /\ IsFiniteSet(Wo)
  BY <1>1, Counts
<1>6. PICK w, l, r : w = Cardinality(W) /\ l = Cardinality(L) /\ r = Cardinality(R)
  OBVIOUS
<1>7. /\ IsFiniteSet(W) /\ IsFiniteSet(L) /\ IsFiniteSet(R) /\ IsFiniteSet(A)
      /\ w \in Nat /\ l \in Nat /\ r \in Nat
  <2>1. IsFiniteSet(W) /\ IsFiniteSet(L) /\ IsFiniteSet(R) /\ IsFiniteSet(A)
    <3>1. W \subseteq P /\ L \subseteq P /\ R \subseteq P
      BY <1>2, <1>3
    <3>2. QED
      BY <1>3, <1>5, <3>1, CardLess
  <2>2. QED
    BY <1>6, <2>1, FS_CardinalityType
<1>8. Cardinality(A) = w + l + r
  <2>1. Cardinality(W \union L) = w + l /\ IsFiniteSet(W \union L)
    BY <1>3, <1>6, <1>7, CardMore, FS_Union
  <2>2. QED
    BY <1>2, <1>3, <1>6, <1>7, <2>1, CardMore
<1>9. PICK p, lo, wo : p = Cardinality(P) /\ lo = Cardinality(Lo) /\ wo = Cardinality(Wo)
  OBVIOUS
<1>10. p \in Nat /\ lo \in Nat /\ wo \in Nat
  BY <1>5, <1>9, FS_CardinalityType
<1>11. TicketsIn("pending") = p /\ TicketsIn("lost") = lo /\ TicketsIn("won") = wo
  BY <1>1, <1>9, Counts
<1>12. /\ TicketsIn("pending")' = p - (w + l + r)
       /\ TicketsIn("lost")' = lo + l
       /\ TicketsIn("won")' = wo + w
  <2>1. /\ TicketsIn("pending")' = Cardinality(P \ A)
        /\ TicketsIn("lost")' = Cardinality(Lo \union L)
        /\ TicketsIn("won")' = Cardinality(Wo \union W)
    BY <1>4 DEF TicketsIn, TicketsOf
  <2>2. Cardinality(P \ A) = p - (w + l + r)
    BY <1>3, <1>5, <1>8, <1>9, CardLess
  <2>3. Cardinality(Lo \union L) = lo + l
    BY <1>3, <1>5, <1>6, <1>7, <1>9, CardMore
  <2>4. Cardinality(Wo \union W) = wo + w
    BY <1>3, <1>5, <1>6, <1>7, <1>9, CardMore
  <2>5. QED
    BY <2>1, <2>2, <2>3, <2>4
<1>13. TicketNet = p + lo - wo /\ TicketNet' = p - (w + l + r) + (lo + l) - (wo + w)
  BY <1>11, <1>12 DEF TicketNet
<1>14. TicketNet' = TicketNet - 2 * w - r
  BY <1>7, <1>10, <1>13
<1>15. QED
  BY <1>6, <1>14

LEMMA NetNumbers ==
  ASSUME GamesTyped
  PROVE  TicketNet \in Int /\ PickNet \in Int
<1>1. /\ TicketsIn("pending") \in Nat /\ TicketsIn("lost") \in Nat /\ TicketsIn("won") \in Nat
      /\ PicksIn("pending") \in Nat /\ PicksIn("lost") \in Nat /\ PicksIn("won") \in Nat
  BY Counts
<1>2. QED
  BY <1>1 DEF TicketNet, PickNet

\* A new row that is open counts one more.
Having(f, s) == {t \in DOMAIN f : f[t].status = s}

LEMMA RowAdded ==
  ASSUME NEW f, NEW g, NEW row, IsSeq(f), Grown(f, g, row), row.status = "pending", NEW s
  PROVE  Cardinality(Having(g, s)) = Cardinality(Having(f, s)) + (IF s = "pending" THEN 1 ELSE 0)
<1>1. PICK n : /\ n \notin DOMAIN f /\ DOMAIN g = DOMAIN f \union {n} /\ g[n] = row
               /\ \A t \in DOMAIN f : g[t] = f[t]
  BY DEF Grown
<1>2. PICK S : S = Having(f, s)
  OBVIOUS
<1>3. IsFiniteSet(S) /\ n \notin S
  BY <1>1, <1>2, SeqFinite, FS_Subset DEF Having
<1>4. Cardinality(S) \in Nat
  BY <1>3, FS_CardinalityType
<1>5. CASE s = "pending"
  <2>1. Having(g, s) = S \union {n}
    BY <1>1, <1>2, <1>5 DEF Having
  <2>2. Cardinality(S \union {n}) = Cardinality(S) + 1
    BY <1>3, FS_AddElement
  <2>3. QED
    BY <1>2, <1>5, <2>1, <2>2
<1>6. CASE s # "pending"
  <2>1. Having(g, s) = S
    BY <1>1, <1>2, <1>6 DEF Having
  <2>2. QED
    BY <1>2, <1>4, <1>6, <2>1
<1>7. QED
  BY <1>5, <1>6

LEMMA TicketAdded ==
  ASSUME GamesTyped, GamesTyped', NEW row, Grown(tickets, tickets', row), row.status = "pending"
  PROVE  TicketNet' = TicketNet + 1
<1>1. IsSeq(tickets)
  BY DEF GamesTyped, Rows
<1>2. PICK f, g : f = tickets /\ g = tickets'
  OBVIOUS
<1>3. \A s : Cardinality(Having(g, s)) = Cardinality(Having(f, s)) + (IF s = "pending" THEN 1 ELSE 0)
  <2>1. IsSeq(f) /\ Grown(f, g, row) /\ row.status = "pending"
    BY <1>1, <1>2
  <2>2. QED
    BY <2>1, RowAdded
<1>4. /\ TicketsIn("pending")' = TicketsIn("pending") + 1
      /\ TicketsIn("lost")' = TicketsIn("lost") + 0
      /\ TicketsIn("won")' = TicketsIn("won") + 0
  <2>1. /\ TicketsIn("pending") = Cardinality(Having(f, "pending"))
        /\ TicketsIn("lost") = Cardinality(Having(f, "lost"))
        /\ TicketsIn("won") = Cardinality(Having(f, "won"))
    BY <1>2 DEF TicketsIn, Having
  <2>2. /\ TicketsIn("pending")' = Cardinality(Having(g, "pending"))
        /\ TicketsIn("lost")' = Cardinality(Having(g, "lost"))
        /\ TicketsIn("won")' = Cardinality(Having(g, "won"))
    BY <1>2 DEF TicketsIn, Having
  <2>3. QED
    BY <1>3, <2>1, <2>2
<1>5. TicketsIn("pending") \in Nat /\ TicketsIn("lost") \in Nat /\ TicketsIn("won") \in Nat
  BY Counts
<1>6. QED
  BY <1>4, <1>5 DEF TicketNet

LEMMA PickAdded ==
  ASSUME GamesTyped, GamesTyped', NEW row, Grown(picks, picks', row), row.status = "pending"
  PROVE  PickNet' = PickNet + 1
<1>1. IsSeq(picks)
  BY DEF GamesTyped, Rows
<1>2. PICK f, g : f = picks /\ g = picks'
  OBVIOUS
<1>3. \A s : Cardinality(Having(g, s)) = Cardinality(Having(f, s)) + (IF s = "pending" THEN 1 ELSE 0)
  <2>1. IsSeq(f) /\ Grown(f, g, row) /\ row.status = "pending"
    BY <1>1, <1>2
  <2>2. QED
    BY <2>1, RowAdded
<1>4. /\ PicksIn("pending")' = PicksIn("pending") + 1
      /\ PicksIn("lost")' = PicksIn("lost") + 0
      /\ PicksIn("won")' = PicksIn("won") + 0
  <2>1. /\ PicksIn("pending") = Cardinality(Having(f, "pending"))
        /\ PicksIn("lost") = Cardinality(Having(f, "lost"))
        /\ PicksIn("won") = Cardinality(Having(f, "won"))
    BY <1>2 DEF PicksIn, Having
  <2>2. /\ PicksIn("pending")' = Cardinality(Having(g, "pending"))
        /\ PicksIn("lost")' = Cardinality(Having(g, "lost"))
        /\ PicksIn("won")' = Cardinality(Having(g, "won"))
    BY <1>2 DEF PicksIn, Having
  <2>3. QED
    BY <1>3, <2>1, <2>2
<1>5. PicksIn("pending") \in Nat /\ PicksIn("lost") \in Nat /\ PicksIn("won") \in Nat
  BY Counts
<1>6. QED
  BY <1>4, <1>5 DEF PickNet

\* A pick that is decided counts the same when it is lost, else two less.
LEMMA PickAnswered ==
  ASSUME GamesTyped, NEW i \in DOMAIN picks, Decided(i)
  PROVE  /\ picks[i].fate = "lost" => PickNet' = PickNet
         /\ picks[i].fate # "lost" => PickNet' = PickNet - 2
<1>1. PICK P, L, W : P = PicksOf("pending") /\ L = PicksOf("lost") /\ W = PicksOf("won")
  OBVIOUS
<1>2. i \in P /\ i \notin L /\ i \notin W
  BY <1>1 DEF Decided, LivePicks, PicksOf
<1>3. IsSeq(picks) /\ picks[i] \in PickRow
  BY DEF GamesTyped, Rows
<1>4. /\ DOMAIN picks' = DOMAIN picks
      /\ picks'[i].status = picks[i].fate /\ picks[i].fate \in {"won", "lost"}
      /\ \A j \in DOMAIN picks \ {i} : picks'[j] = picks[j]
  BY <1>3 DEF Decided, PickRow
<1>5. /\ IsFiniteSet(P) /\ IsFiniteSet(L) /\ IsFiniteSet(W)
      /\ Cardinality(P) \in Nat /\ Cardinality(L) \in Nat /\ Cardinality(W) \in Nat
      /\ PicksIn("pending") = Cardinality(P) /\ PicksIn("lost") = Cardinality(L) /\ PicksIn("won") = Cardinality(W)
  BY <1>1, Counts
<1>6. PicksIn("pending")' = Cardinality(P) - 1
  <2>1. PicksOf("pending")' = P \ {i}
    BY <1>1, <1>4 DEF PicksOf
  <2>2. QED
    BY <1>2, <1>5, <2>1, FS_RemoveElement DEF PicksIn, PicksOf
<1>7. CASE picks[i].fate = "lost"
  <2>1. PicksOf("lost")' = L \union {i} /\ PicksOf("won")' = W
    BY <1>1, <1>2, <1>4, <1>7 DEF PicksOf
  <2>2. PicksIn("lost")' = Cardinality(L) + 1 /\ PicksIn("won")' = Cardinality(W)
    BY <1>2, <1>5, <2>1, FS_AddElement DEF PicksIn, PicksOf
  <2>3. QED
    BY <1>5, <1>6, <1>7, <2>2 DEF PickNet
<1>8. CASE picks[i].fate # "lost"
  <2>1. PicksOf("lost")' = L /\ PicksOf("won")' = W \union {i}
    BY <1>1, <1>2, <1>4, <1>8 DEF PicksOf
  <2>2. PicksIn("lost")' = Cardinality(L) /\ PicksIn("won")' = Cardinality(W) + 1
    BY <1>2, <1>5, <2>1, FS_AddElement DEF PicksIn, PicksOf
  <2>3. QED
    BY <1>5, <1>6, <1>8, <2>2 DEF PickNet
<1>9. QED
  BY <1>7, <1>8

LEMMA PoolStep ==
  ASSUME GamesTyped, GamesTyped', PoolBalanced,
         Still \/ Placed \/ Answer \/ Played \/ \E i \in DOMAIN picks : Decided(i)
  PROVE  PoolBalanced'
<1>1. PICK S \in Int, G \in Int : S = Stake /\ G = Wager
  BY EasyStakeAssumption, GamesAssumption
<1>2. PICK n \in Int, m \in Int, k \in Int :
        /\ n = TicketNet /\ m = PickNet
        /\ k = EasyBuffer + EasyReserve
  BY NetNumbers, GamesAssumption
<1>3. PICK b : b = bal[EasyPool] + bal[Treasury]
  OBVIOUS
<1>4. b = k + S * n + G * m
  BY <1>1, <1>2, <1>3 DEF PoolBalanced
<1>5. ASSUME NEW d \in Int, Moved(d), NEW n1 \in Int, NEW m1 \in Int, TicketNet' = n1, PickNet' = m1,
             b + d = k + S * n1 + G * m1
      PROVE  PoolBalanced'
  <2>1. bal'[EasyPool] + bal'[Treasury] = b + d
    BY <1>3, <1>5 DEF Moved
  <2>2. QED
    BY <1>1, <1>2, <1>5, <2>1 DEF PoolBalanced
<1>6. b \in Int
  BY <1>1, <1>4
<1>7. UNCHANGED picks => PickNet' = m
  BY <1>2 DEF PickNet, PicksIn
<1>8. UNCHANGED tickets => TicketNet' = n
  BY <1>2 DEF TicketNet, TicketsIn
<1>9. CASE Still
  <2>1. Moved(0) /\ TicketNet' = n /\ PickNet' = m
    BY <1>7, <1>8, <1>9 DEF Still
  <2>2. b + 0 = k + S * n + G * m
    BY <1>4, <1>6
  <2>3. QED
    BY <1>5, <2>1, <2>2
<1>10. CASE Placed
  <2>1. TicketNet' = n + 1 /\ PickNet' = m /\ Moved(S)
    BY <1>1, <1>2, <1>7, <1>10, TicketAdded DEF Placed
  <2>2. S * (n + 1) = S * n + S
    OBVIOUS
  <2>3. b + S = k + S * (n + 1) + G * m
    BY <1>4, <2>2
  <2>4. QED
    BY <1>5, <2>1, <2>3
<1>11. CASE Played
  <2>1. TicketNet' = n /\ PickNet' = m + 1 /\ Moved(G)
    BY <1>1, <1>2, <1>8, <1>11, PickAdded DEF Played
  <2>2. G * (m + 1) = G * m + G
    OBVIOUS
  <2>3. b + G = k + S * n + G * (m + 1)
    BY <1>4, <2>2
  <2>4. QED
    BY <1>5, <2>1, <2>3
<1>12. ASSUME NEW i \in DOMAIN picks, Decided(i)
       PROVE  PoolBalanced'
  <2>1. TicketNet' = n
    BY <1>8, <1>12 DEF Decided
  <2>2. CASE picks[i].fate = "lost"
    <3>1. Moved(0) /\ PickNet' = m
      BY <1>2, <1>12, <2>2, PickAnswered DEF Decided
    <3>2. b + 0 = k + S * n + G * m
      BY <1>4, <1>6
    <3>3. QED
      BY <1>5, <2>1, <3>1, <3>2
  <2>3. CASE picks[i].fate # "lost"
    <3>1. Moved(-(2 * G)) /\ PickNet' = m - 2
      BY <1>1, <1>2, <1>12, <2>3, PickAnswered DEF Decided
    <3>2. G * (m - 2) = G * m - 2 * G
      OBVIOUS
    <3>3. b + (-(2 * G)) = k + S * n + G * (m - 2)
      BY <1>4, <3>2
    <3>4. QED
      BY <1>5, <2>1, <3>1, <3>3
  <2>4. QED
    BY <2>2, <2>3
<1>13. CASE Answer
  <2>1. PICK W, L, R \in SUBSET DOMAIN tickets :
          /\ Judged(W, L, R)
          /\ \/ R = {} /\ PaysEach(W, "et_payout", 2 * Stake)
             \/ W = {} /\ L = {} /\ PaysEach(R, "et_refund", Stake)
    BY <1>13 DEF Answer
  <2>2. PickNet' = m
    BY <1>7, <1>13 DEF Answer
  <2>3. IsFiniteSet(DOMAIN tickets)
    BY SeqFinite DEF GamesTyped, Rows
  <2>4. PICK w \in Nat, r \in Nat : w = Cardinality(W) /\ r = Cardinality(R)
    BY <2>3, FS_Subset, FS_CardinalityType
  <2>5. TicketNet' = n - 2 * w - r
    BY <1>2, <2>1, <2>4, NetChanges
  <2>6. CASE R = {} /\ PaysEach(W, "et_payout", 2 * Stake)
    <3>1. IsFiniteSet(W) /\ 2 * S \in Int
      BY <2>3, FS_Subset
    <3>2. Moved(-((2 * S) * w))
      BY <1>1, <2>4, <2>6, <3>1, PaidInOrder
    <3>3. r = 0
      BY <2>4, <2>6, FS_EmptySet
    <3>4. S * (n - 2 * w) = S * n - (2 * S) * w
      OBVIOUS
    <3>5. PICK d \in Int : d = -((2 * S) * w)
      OBVIOUS
    <3>6. b + d = k + S * (n - 2 * w) + G * m
      BY <1>4, <3>4, <3>5
    <3>7. TicketNet' = n - 2 * w
      BY <2>5, <3>3
    <3>8. QED
      BY <1>5, <2>2, <3>2, <3>5, <3>6, <3>7
  <2>7. CASE W = {} /\ PaysEach(R, "et_refund", Stake)
    <3>1. IsFiniteSet(R)
      BY <2>3, FS_Subset
    <3>2. Moved(-(S * r))
      BY <1>1, <2>4, <2>7, <3>1, PaidInOrder
    <3>3. w = 0
      BY <2>4, <2>7, FS_EmptySet
    <3>4. S * (n - r) = S * n - S * r
      OBVIOUS
    <3>5. PICK d \in Int : d = -(S * r)
      OBVIOUS
    <3>6. b + d = k + S * (n - r) + G * m
      BY <1>4, <3>4, <3>5
    <3>7. TicketNet' = n - r
      BY <2>5, <3>3
    <3>8. QED
      BY <1>5, <2>2, <3>2, <3>5, <3>6, <3>7
  <2>8. QED
    BY <2>1, <2>6, <2>7
<1>14. QED
  BY <1>9, <1>10, <1>11, <1>12, <1>13

------------------------------------------------------------------------------
GamesInv == GamesTyped /\ TicketsPaid /\ PicksPaid /\ Judgements /\ PoolBalanced

LEMMA GamesInitInv == ASSUME GamesInit PROVE GamesInv
<1>1. /\ txns = <<>> /\ tickets = <<>> /\ picks = <<>>
      /\ bal[EasyPool] = EasyBuffer /\ bal[Treasury] = EasyReserve
  BY GamesAssumption DEF GamesInit, EasyInit, PickInit, EasyPool, Treasury, Available
<1>2. GamesTyped
  BY GamesStart
<1>3. DOMAIN tickets = {} /\ DOMAIN picks = {} /\ DOMAIN txns = {}
  BY <1>1
<1>4. TicketsPaid /\ PicksPaid /\ Judgements
  BY <1>3 DEF TicketsPaid, PicksPaid, Judgements
<1>5. TicketNet = 0 /\ PickNet = 0
  <2>1. \A s : TicketsIn(s) = 0 /\ PicksIn(s) = 0
    <3>1. \A s : {t \in DOMAIN tickets : tickets[t].status = s} = {} /\ {i \in DOMAIN picks : picks[i].status = s} = {}
      BY <1>3
    <3>2. QED
      BY <3>1, FS_EmptySet DEF TicketsIn, PicksIn
  <2>2. QED
    BY <2>1 DEF TicketNet, PickNet
<1>6. PoolBalanced
  <2>1. Stake \in Int /\ Wager \in Int /\ EasyBuffer \in Int /\ EasyReserve \in Int
    BY EasyStakeAssumption, GamesAssumption
  <2>2. Stake * 0 = 0 /\ Wager * 0 = 0
    BY <2>1
  <2>3. QED
    BY <1>1, <1>5, <2>1, <2>2 DEF PoolBalanced
<1>7. QED
  BY <1>2, <1>4, <1>6 DEF GamesInv

LEMMA GamesNextInv ==
  ASSUME GamesInv, [GamesNext]_gameVars
  PROVE  GamesInv' /\ Kept
<1>1. GamesTyped' /\ (Still \/ Placed \/ Answer \/ Played \/ \E i \in DOMAIN picks : Decided(i))
  BY GamesStep DEF GamesInv
<1>2. TicketsPaid'
  BY <1>1, TicketsPaidStep DEF GamesInv
<1>3. PicksPaid'
  BY <1>1, PicksPaidStep DEF GamesInv
<1>4. Judgements' /\ Kept
  BY <1>1, StepKeeps DEF GamesInv
<1>5. PoolBalanced'
  BY <1>1, PoolStep DEF GamesInv
<1>6. QED
  BY <1>1, <1>2, <1>3, <1>4, <1>5 DEF GamesInv

\* The invariant says what the runs check.
LEMMA GamesInvMeans ==
  ASSUME GamesInv
  PROVE  PaidOnce /\ VerdictsAgree /\ PoolAccounted
<1>1. TicketPaidOnce
  <2>1. ASSUME NEW t \in DOMAIN tickets
        PROVE  /\ Cardinality(TicketPayments(t)) <= 1
               /\ {txns[x].amount : x \in TicketPayments(t)} =
                    CASE tickets[t].status = "won" -> {2 * Stake}
                      [] tickets[t].status = "refunded" -> {Stake}
                      [] OTHER -> {}
    <3>1. \A x, y \in TicketPayments(t) : x = y
      BY DEF TicketPayments, GamesInv, TicketsPaid
    <3>2. Cardinality(TicketPayments(t)) <= 1
      BY <3>1, AtMostOne
    <3>3. \A x \in TicketPayments(t) : /\ tickets[t].status \in {"won", "refunded"}
                                       /\ tickets[t].status = "won" => txns[x].amount = 2 * Stake
                                       /\ tickets[t].status = "refunded" => txns[x].amount = Stake
      BY DEF TicketPayments, GamesInv, TicketsPaid
    <3>4. tickets[t].status \in {"won", "refunded"} => TicketPayments(t) # {}
      BY DEF TicketPayments, GamesInv, TicketsPaid
    <3>5. QED
      BY <3>2, <3>3, <3>4
  <2>2. QED
    BY <2>1 DEF TicketPaidOnce
<1>2. PickPaidOnce
  <2>1. ASSUME NEW i \in DOMAIN picks
        PROVE  Cardinality(PickPayments(i)) = IF picks[i].status = "won" THEN 1 ELSE 0
    <3>1. \A x, y \in PickPayments(i) : x = y
      BY DEF PickPayments, GamesInv, PicksPaid
    <3>2. PickPayments(i) # {} <=> picks[i].status = "won"
      BY DEF PickPayments, GamesInv, PicksPaid
    <3>3. QED
      BY <3>1, <3>2, AtMostOne
  <2>2. QED
    BY <2>1 DEF PickPaidOnce
<1>3. VerdictsAgree
  BY DEF GamesInv, Judgements, VerdictsAgree
<1>4. PoolAccounted
  <2>1. PICK p \in Nat, l \in Nat, w \in Nat : p = TicketsIn("pending") /\ l = TicketsIn("lost") /\ w = TicketsIn("won")
    BY Counts DEF GamesInv
  <2>2. PICK q \in Nat, h \in Nat, v \in Nat : q = PicksIn("pending") /\ h = PicksIn("lost") /\ v = PicksIn("won")
    BY Counts DEF GamesInv
  <2>3. PICK S \in Int, G \in Int : S = Stake /\ G = Wager
    BY EasyStakeAssumption, GamesAssumption
  <2>4. Staked = S * p + G * q /\ Earned = S * (l - w) + G * (h - v)
    BY <2>1, <2>2, <2>3 DEF Staked, Earned
  <2>5. S * (p + l - w) = S * p + S * (l - w) /\ G * (q + h - v) = G * q + G * (h - v)
    OBVIOUS
  <2>6. PICK k \in Int : k = EasyBuffer + EasyReserve
    BY GamesAssumption
  <2>7. bal[EasyPool] + bal[Treasury] = k + S * (p + l - w) + G * (q + h - v)
    BY <2>1, <2>2, <2>3, <2>6 DEF GamesInv, PoolBalanced, TicketNet, PickNet
  <2>8. PICK sp \in Int, sl \in Int, gq \in Int, gh \in Int :
          sp = S * p /\ sl = S * (l - w) /\ gq = G * q /\ gh = G * (h - v)
    OBVIOUS
  <2>9. k + S * (p + l - w) + G * (q + h - v) = k + (sp + gq) + (sl + gh)
    BY <2>5, <2>8
  <2>10. QED
    BY <2>4, <2>6, <2>7, <2>8, <2>9 DEF PoolAccounted
<1>5. QED
  BY <1>1, <1>2, <1>3, <1>4 DEF PaidOnce

\* A verdict, a superseding entry, a cancellation, the sweeper, polls and keepers:
\* whichever of them reach a ticket or a pick, and in whatever order, it is paid
\* once, as its row says (easytrade.js, babypick.js).
THEOREM BetsArePaidOnce == GamesSpec => []PaidOnce
<1>1. GamesInit => GamesInv
  BY GamesInitInv
<1>2. GamesInv /\ [GamesNext]_gameVars => GamesInv'
  BY GamesNextInv
<1>3. GamesInv => PaidOnce
  BY GamesInvMeans
<1>4. QED
  BY <1>1, <1>2, <1>3, PTL DEF GamesSpec

\* All who bet on one round are judged by the one verdict its row keeps, however
\* many terminal events arrive (easytrade.js, settleRound).
THEOREM RoundsHaveOneVerdict == GamesSpec => []VerdictsAgree
<1>1. GamesInit => GamesInv
  BY GamesInitInv
<1>2. GamesInv /\ [GamesNext]_gameVars => GamesInv'
  BY GamesNextInv
<1>3. GamesInv => VerdictsAgree
  BY GamesInvMeans
<1>4. QED
  BY <1>1, <1>2, <1>3, PTL DEF GamesSpec

\* The pool that both games share holds what it was given and what was staked and
\* lost, less what was won: no call of one game moves money of the other.
THEOREM PoolStaysAccounted == GamesSpec => []PoolAccounted
<1>1. GamesInit => GamesInv
  BY GamesInitInv
<1>2. GamesInv /\ [GamesNext]_gameVars => GamesInv'
  BY GamesNextInv
<1>3. GamesInv => PoolAccounted
  BY GamesInvMeans
<1>4. QED
  BY <1>1, <1>2, <1>3, PTL DEF GamesSpec

\* No step takes a settled round, or a ticket that has been answered, back.
THEOREM AnswersStand == GamesSpec => Answered
<1>1. GamesInit => GamesInv
  BY GamesInitInv
<1>2. GamesInv /\ [GamesNext]_gameVars => GamesInv'
  BY GamesNextInv
<1>3. GamesInv /\ [GamesNext]_gameVars =>
        [/\ \A r \in DOMAIN rounds : rounds[r].status = "settled" =>
              rounds'[r].status = "settled" /\ rounds'[r].outcome = rounds[r].outcome
         /\ \A t \in DOMAIN tickets : tickets[t].status # "pending" =>
              tickets'[t].status = tickets[t].status /\ tickets'[t].round = tickets[t].round]_easyVars
  BY GamesNextInv DEF Kept
<1>4. QED
  BY <1>1, <1>2, <1>3, PTL DEF GamesSpec, Answered
==============================================================================
