------------------------- MODULE QuantOption_proofs -------------------------
(***************************************************************************)
(* Proofs about QuantOption: a position is paid once, and no open position *)
(* waits for a verdict that has been given.                                *)
(***************************************************************************)
EXTENDS QuantOption, CommonTheorems

\* What a posting adds to the ledger.
LEMMA PostingGrows ==
  ASSUME IsSeq(txns), NEW type, NEW ref, NEW key, NEW from, NEW to, NEW amount \in Int,
         Post(type, ref, key, from, Credit(to, amount))
  PROVE  \E x : /\ Grown(txns, txns', x)
                /\ x.type = type /\ x.ref = ref /\ x.amount = amount
<1> DEFINE x == [type |-> type, ref |-> ref, key |-> key, amount |-> Total(Credit(to, amount))]
<1>1. Total(Credit(to, amount)) = amount
  <2>1. Credit(to, amount) = [a \in {to} |-> amount]
    BY DEF Credit
  <2>2. \A f : Total(f) = SumFunctionOnSet(f, DOMAIN f)
    BY DEF Total, SumFunction
  <2>3. QED
    BY <2>1, <2>2, SumOfSingle
<1>2. txns' = Append(txns, x)
  BY DEF Post
<1>3. x.type = type /\ x.ref = ref /\ x.amount = amount
  BY <1>1
<1> HIDE DEF x
<1>4. Grown(txns, txns', x)
  BY <1>2, AppendGrows
<1>5. QED
  BY <1>3, <1>4

\* What a position can be settled with.
LEMMA Amounts ==
  /\ \A outcome \in {"win", "lose", "void", "draw"} :
       SettleAmount(outcome) \in Nat /\ StatusOf(outcome) # "open"
  /\ CashOutCredits \subseteq Nat
<1>1. Stake \in Nat
  BY StakeAssumption
<1>2. Share(Stake, 1500) \in Nat /\ Share(Stake, 1500) <= Stake
  BY <1>1 DEF Share
<1>3. Profit(Stake) \in Nat
  BY <1>1, <1>2 DEF Profit
<1>4. QED
  BY <1>1, <1>3 DEF SettleAmount, StatusOf, CashOutCredits

------------------------------------------------------------------------------
(* How the steps touch the positions and the ledger.                         *)

RowOk(row) ==
  /\ {"user", "signal", "limit", "fate", "status", "payout"} \subseteq DOMAIN row
  /\ row.signal \in Signals \union {NoSignal}
  /\ row.signal = NoSignal => row.fate \in {"win", "lose", "void"}
  /\ row.payout \in Nat
  /\ row.status = "open" => row.payout = 0

\* Rows that differ in their settlement and their time limit only.
Alike(r, q) ==
  DOMAIN r = DOMAIN q /\ r.user = q.user /\ r.signal = q.signal /\ r.fate = q.fate

SameRows == IsSeq(positions)' /\ DOMAIN positions' = DOMAIN positions

\* Transactions that pay no position.
NoPayout == UNCHANGED txns \/ \E x : x.type # "payout" /\ Grown(txns, txns', x)

\* The ledger gets one payout of a credit for each position of a set.
PaysEach(P, credit) ==
  /\ IsSeq(txns)' /\ DOMAIN txns \subseteq DOMAIN txns'
  /\ \A t \in DOMAIN txns : txns'[t] = txns[t]
  /\ \A t \in DOMAIN txns' \ DOMAIN txns :
       txns'[t].type = "payout" /\ txns'[t].ref \in P /\ txns'[t].amount = credit
  /\ \A t, u \in DOMAIN txns' \ DOMAIN txns : txns'[t].ref = txns'[u].ref => t = u
  /\ \A p \in P : \E t \in DOMAIN txns' \ DOMAIN txns : txns'[t].ref = p

Quiet ==
  /\ SameRows /\ NoPayout
  /\ \A p \in DOMAIN positions : /\ Alike(positions'[p], positions[p])
                                 /\ positions'[p].status = positions[p].status
                                 /\ positions'[p].payout = positions[p].payout

Opened ==
  \E row : /\ RowOk(row) /\ row.status = "open"
           /\ positions' = Append(positions, row)
           /\ NoPayout

Settled(P, credit, status) ==
  /\ SameRows /\ P \subseteq OpenPositions /\ credit \in Nat /\ status # "open"
  /\ \A p \in DOMAIN positions \ P : positions'[p] = positions[p]
  /\ \A p \in P : /\ Alike(positions'[p], positions[p])
                  /\ positions'[p].status = status /\ positions'[p].payout = credit
  /\ IF credit = 0 THEN UNCHANGED txns ELSE PaysEach(P, credit)

\* A payout belongs to a settled position, which has no other, and says its amount.
PayInv ==
  /\ IsSeq(txns) /\ IsSeq(positions)
  /\ \A p \in DOMAIN positions : RowOk(positions[p])
  /\ \A t \in DOMAIN txns : txns[t].type = "payout" =>
       /\ txns[t].ref \in DOMAIN positions
       /\ positions[txns[t].ref].status # "open"
       /\ txns[t].amount = positions[txns[t].ref].payout /\ txns[t].amount > 0
  /\ \A t, u \in DOMAIN txns :
       txns[t].type = "payout" /\ txns[u].type = "payout" /\ txns[t].ref = txns[u].ref => t = u
  /\ \A p \in DOMAIN positions : positions[p].payout > 0 =>
       \E t \in DOMAIN txns : txns[t].type = "payout" /\ txns[t].ref = p

\* One position is settled by one posting.
LEMMA PaySettles ==
  ASSUME PayInv, NEW p \in OpenPositions, NEW credit \in Nat, NEW status, status # "open", NEW key,
         Pay(p, credit, status, key)
  PROVE  Settled({p}, credit, status)
<1>1. IsSeq(positions) /\ IsSeq(txns) /\ p \in DOMAIN positions /\ RowOk(positions[p])
  BY DEF PayInv, OpenPositions
<1> DEFINE row == [positions[p] EXCEPT !.status = status, !.payout = credit]
<1>2. Alike(row, positions[p]) /\ row.status = status /\ row.payout = credit
  BY <1>1 DEF RowOk, Alike
<1>3. positions' = [positions EXCEPT ![p] = row]
  BY <1>1 DEF Pay
<1> HIDE DEF row
<1>4. /\ SameRows
      /\ \A q \in DOMAIN positions \ {p} : positions'[q] = positions[q]
      /\ positions'[p] = row
  BY <1>1, <1>3, ExceptFacts DEF SameRows
<1>5. CASE credit = 0
  BY <1>2, <1>4, <1>5 DEF Settled, Pay, Ledger
<1>6. CASE credit # 0
  <2>1. PICK type, from, to : /\ type = "payout"
                              /\ Post(type, p, key, from, Credit(to, credit))
    BY <1>6 DEF Pay
  <2>2. credit \in Int
    OBVIOUS
  <2>3. PICK x : /\ Grown(txns, txns', x)
                 /\ x.type = type /\ x.ref = p /\ x.amount = credit
    BY <1>1, <2>1, <2>2, PostingGrows
  <2>4. PaysEach({p}, credit)
    BY <2>1, <2>3 DEF PaysEach, Grown
  <2>5. QED
    BY <1>2, <1>4, <1>6, <2>4 DEF Settled
<1>7. QED
  BY <1>5, <1>6

\* All open positions of a signal are settled by one list of postings.
LEMMA VerdictSettles ==
  ASSUME PayInv, NEW s, NEW outcome \in {"win", "lose"}, SettleSignal(s, outcome)
  PROVE  Settled({p \in OpenPositions : positions[p].signal = s}, SettleAmount(outcome), StatusOf(outcome))
<1> DEFINE P == {p \in OpenPositions : positions[p].signal = s}
           n == Cardinality(P)
           credit == SettleAmount(outcome)
           status == StatusOf(outcome)
<1>1. /\ IsSeq(positions) /\ IsSeq(txns) /\ P \subseteq OpenPositions /\ P \subseteq DOMAIN positions
      /\ \A p \in P : RowOk(positions[p])
  BY DEF PayInv, OpenPositions
<1>2. credit \in Nat /\ status # "open"
  BY Amounts
<1>3. IsFiniteSet(P)
  <2>1. IsFiniteSet(DOMAIN positions)
    BY <1>1, SeqFinite
  <2>2. QED
    BY <1>1, <2>1, FS_Subset
<1>4. PICK bound : bound = SetToSeq(P)
  OBVIOUS
<1>5. /\ n \in Nat /\ bound \in [1 .. n -> P]
      /\ \A i, j \in DOMAIN bound : bound[i] = bound[j] => i = j
      /\ \A p \in P : \E i \in DOMAIN bound : bound[i] = p
  <2> HIDE DEF P
  <2>1. bound \in [1 .. n -> P] /\ IsInjective(bound)
    BY <1>3, <1>4, Enumeration DEF SetToSeq
  <2>2. QED
    BY <1>3, <2>1, Enumeration DEF IsInjective
<1> DEFINE ps == [i \in DOMAIN bound |->
                    [type |-> "payout", ref |-> bound[i], key |-> PayKey(outcome, bound[i]),
                     to |-> Available(positions[bound[i]].user), amount |-> credit]]
<1>6. /\ credit = 0 => UNCHANGED txns
      /\ credit # 0 => PostEach(QuantPool, ps)
      /\ positions' = [p \in DOMAIN positions |->
           IF \E i \in DOMAIN bound : bound[i] = p
           THEN [positions[p] EXCEPT !.status = status, !.payout = credit]
           ELSE positions[p]]
  BY <1>4 DEF SettleSignal, Ledger
<1>7. positions' = [p \in DOMAIN positions |->
           IF p \in P THEN [positions[p] EXCEPT !.status = status, !.payout = credit]
           ELSE positions[p]]
  <2> HIDE DEF P, credit, status
  <2>1. \A p \in DOMAIN positions : (\E i \in DOMAIN bound : bound[i] = p) <=> p \in P
    BY <1>5
  <2>2. QED
    BY <1>6, <2>1
<1>8. \A p \in P : /\ Alike([positions[p] EXCEPT !.status = status, !.payout = credit], positions[p])
                   /\ [positions[p] EXCEPT !.status = status, !.payout = credit].status = status
                   /\ [positions[p] EXCEPT !.status = status, !.payout = credit].payout = credit
  BY <1>1 DEF RowOk, Alike
<1>9. /\ DOMAIN positions' = DOMAIN positions
      /\ \A p \in DOMAIN positions \ P : positions'[p] = positions[p]
      /\ \A p \in P : /\ Alike(positions'[p], positions[p])
                      /\ positions'[p].status = status /\ positions'[p].payout = credit
  <2> HIDE DEF P, credit, status
  <2>1. QED
    BY <1>1, <1>7, <1>8
<1>10. IsSeq(positions)'
  <2>1. PICK m \in Nat : m = Len(positions) /\ DOMAIN positions = 1 .. m
    BY <1>1 DEF IsSeq
  <2>2. PICK new : new = positions'
    OBVIOUS
  <2>3. new = [i \in 1 .. m |-> new[i]]
    BY <1>9, <1>7, <2>1, <2>2
  <2>4. QED
    BY <2>2, <2>3, IntervalIsSeq
<1>11. ASSUME credit # 0
       PROVE  PaysEach(P, credit)
  <2> DEFINE us == [i \in DOMAIN ps |-> [type |-> ps[i].type, ref |-> ps[i].ref,
                                         key |-> ps[i].key, amount |-> ps[i].amount]]
  <2>1. txns' = txns \o us
    BY <1>6, <1>11 DEF PostEach
  <2>2. /\ DOMAIN us = 1 .. n
        /\ \A i \in 1 .. n : us[i].type = "payout" /\ us[i].ref = bound[i] /\ us[i].amount = credit
    BY <1>5
  <2> HIDE DEF us, credit, P
  <2>3. IsSeq(us)
    <3>1. us = [i \in 1 .. n |-> us[i]]
      BY <1>5, <2>2 DEF us
    <3>2. QED
      BY <1>5, <3>1, IntervalIsSeq
  <2>4. Joined(txns, us, txns')
    BY <1>1, <2>1, <2>3, ConcatJoins
  <2>5. Len(us) = n /\ Len(txns) \in Nat /\ DOMAIN txns = 1 .. Len(txns)
    BY <1>1, <1>5, <2>2, <2>3 DEF IsSeq
  <2>6. PICK m \in Nat : m = Len(txns)
    BY <2>5
  <2>7. /\ IsSeq(txns)' /\ DOMAIN txns = 1 .. m /\ DOMAIN txns' = 1 .. m + n
        /\ \A t \in DOMAIN txns : txns'[t] = txns[t]
        /\ \A i \in 1 .. n : txns'[m + i] = us[i]
    BY <2>2, <2>4, <2>5, <2>6 DEF Joined
  <2>8. \A t \in DOMAIN txns' \ DOMAIN txns :
          /\ t - m \in 1 .. n /\ txns'[t] = us[t - m]
          /\ txns'[t].type = "payout" /\ txns'[t].ref = bound[t - m] /\ txns'[t].amount = credit
    <3>1. ASSUME NEW t \in DOMAIN txns' \ DOMAIN txns
          PROVE  t - m \in 1 .. n /\ txns'[t] = us[t - m]
      <4>1. t \in Int /\ t - m \in 1 .. n /\ m + (t - m) = t
        BY <1>5, <2>7
      <4>2. QED
        BY <2>7, <4>1
    <3>2. QED
      BY <2>2, <3>1
  <2>9. \A t, u \in DOMAIN txns' \ DOMAIN txns : txns'[t].ref = txns'[u].ref => t = u
    <3>1. ASSUME NEW t \in DOMAIN txns' \ DOMAIN txns, NEW u \in DOMAIN txns' \ DOMAIN txns,
                 txns'[t].ref = txns'[u].ref
          PROVE  t = u
      <4>1. bound[t - m] = bound[u - m] /\ t - m \in DOMAIN bound /\ u - m \in DOMAIN bound
        BY <1>5, <2>8, <3>1
      <4>2. t - m = u - m
        BY <1>5, <4>1
      <4>3. t \in Int /\ u \in Int
        BY <1>5, <2>7
      <4>4. QED
        BY <4>2, <4>3
    <3>2. QED
      BY <3>1
  <2>10. \A p \in P : \E t \in DOMAIN txns' \ DOMAIN txns : txns'[t].ref = p
    <3>1. ASSUME NEW p \in P
          PROVE  \E t \in DOMAIN txns' \ DOMAIN txns : txns'[t].ref = p
      <4>1. PICK i \in 1 .. n : bound[i] = p
        BY <1>5
      <4>2. m + i \in DOMAIN txns' \ DOMAIN txns
        BY <1>5, <2>7
      <4>3. QED
        BY <2>2, <2>7, <4>1, <4>2
    <3>2. QED
      BY <3>1
  <2>11. \A t \in DOMAIN txns' \ DOMAIN txns : txns'[t].ref \in P
    BY <1>5, <2>8
  <2>12. DOMAIN txns \subseteq DOMAIN txns'
    BY <1>5, <2>7
  <2>13. QED
    BY <2>7, <2>8, <2>9, <2>10, <2>11, <2>12 DEF PaysEach
<1>12. CASE credit = 0
  <2>1. UNCHANGED txns
    BY <1>6, <1>12
  <2> HIDE DEF P, credit, status
  <2>2. Settled(P, credit, status)
    BY <1>1, <1>2, <1>9, <1>10, <1>12, <2>1 DEF Settled, SameRows
  <2>3. QED
    BY <2>2 DEF P, credit, status
<1>13. CASE credit # 0
  <2> HIDE DEF P, credit, status
  <2>1. Settled(P, credit, status)
    BY <1>1, <1>2, <1>9, <1>10, <1>11, <1>13 DEF Settled, SameRows
  <2>2. QED
    BY <2>1 DEF P, credit, status
<1>14. QED
  BY <1>12, <1>13

\* However positions are settled, each is paid once.
LEMMA SettledStep ==
  ASSUME PayInv, NEW P, NEW credit, NEW status, Settled(P, credit, status)
  PROVE  PayInv'
<1>1. /\ IsSeq(positions)' /\ DOMAIN positions' = DOMAIN positions
      /\ P \subseteq DOMAIN positions /\ credit \in Nat /\ status # "open"
      /\ \A p \in P : positions[p].status = "open" /\ positions[p].payout = 0
  BY DEF Settled, SameRows, OpenPositions, PayInv, RowOk
<1>2. \A p \in DOMAIN positions \ P : positions'[p] = positions[p]
  BY DEF Settled
<1>3. \A p \in P : /\ Alike(positions'[p], positions[p])
                   /\ positions'[p].status = status /\ positions'[p].payout = credit
  BY DEF Settled
<1>4. \A p \in DOMAIN positions' : RowOk(positions'[p])
  BY <1>1, <1>2, <1>3 DEF PayInv, RowOk, Alike
<1>5. \A t \in DOMAIN txns : txns[t].type = "payout" =>
        txns[t].ref \in DOMAIN positions \ P /\ positions'[txns[t].ref] = positions[txns[t].ref]
  BY <1>1, <1>2 DEF PayInv
<1>6. CASE credit = 0
  <2>1. UNCHANGED txns
    BY <1>6 DEF Settled
  <2>2. \A p \in DOMAIN positions' : positions'[p].payout > 0 => p \in DOMAIN positions \ P
    BY <1>1, <1>3, <1>6
  <2>3. QED
    BY <1>1, <1>2, <1>4, <1>5, <2>1, <2>2 DEF PayInv
<1>7. CASE credit # 0
  <2>1. PaysEach(P, credit)
    BY <1>7 DEF Settled
  <2> DEFINE new == DOMAIN txns' \ DOMAIN txns
  <2>2. /\ IsSeq(txns)' /\ DOMAIN txns \subseteq DOMAIN txns'
        /\ \A t \in DOMAIN txns : txns'[t] = txns[t]
        /\ \A t \in new : txns'[t].type = "payout" /\ txns'[t].ref \in P /\ txns'[t].amount = credit
        /\ \A t, u \in new : txns'[t].ref = txns'[u].ref => t = u
        /\ \A p \in P : \E t \in new : txns'[t].ref = p
    BY <2>1 DEF PaysEach
  <2>3. \A t \in DOMAIN txns' : t \in DOMAIN txns \/ t \in new
    OBVIOUS
  <2> HIDE DEF new
  <2>4. \A t \in DOMAIN txns' : txns'[t].type = "payout" =>
          /\ txns'[t].ref \in DOMAIN positions'
          /\ positions'[txns'[t].ref].status # "open"
          /\ txns'[t].amount = positions'[txns'[t].ref].payout /\ txns'[t].amount > 0
    <3>1. \A t \in DOMAIN txns : txns[t].type = "payout" =>
            /\ txns[t].ref \in DOMAIN positions'
            /\ positions'[txns[t].ref].status # "open"
            /\ txns[t].amount = positions'[txns[t].ref].payout /\ txns[t].amount > 0
      BY <1>1, <1>5 DEF PayInv
    <3>2. \A t \in new :
            /\ txns'[t].ref \in DOMAIN positions'
            /\ positions'[txns'[t].ref].status # "open"
            /\ txns'[t].amount = positions'[txns'[t].ref].payout /\ txns'[t].amount > 0
      BY <1>1, <1>3, <1>7, <2>2
    <3>3. QED
      BY <2>2, <2>3, <3>1, <3>2
  <2>5. \A t, u \in DOMAIN txns' :
          txns'[t].type = "payout" /\ txns'[u].type = "payout" /\ txns'[t].ref = txns'[u].ref => t = u
    BY <1>5, <2>2, <2>3 DEF PayInv
  <2>6. \A p \in DOMAIN positions' : positions'[p].payout > 0 =>
          \E t \in DOMAIN txns' : txns'[t].type = "payout" /\ txns'[t].ref = p
    <3>1. \A p \in P : \E t \in DOMAIN txns' : txns'[t].type = "payout" /\ txns'[t].ref = p
      BY <2>2 DEF new
    <3>2. \A p \in DOMAIN positions \ P : positions'[p].payout > 0 =>
            \E t \in DOMAIN txns' : txns'[t].type = "payout" /\ txns'[t].ref = p
      BY <1>2, <2>2 DEF PayInv
    <3>3. QED
      BY <1>1, <3>1, <3>2
  <2>7. QED
    BY <1>1, <1>4, <2>2, <2>4, <2>5, <2>6 DEF PayInv
<1>8. QED
  BY <1>6, <1>7

\* Transactions that pay nothing change nothing about what is paid.
LEMMA NoPayoutFacts ==
  ASSUME PayInv, NoPayout
  PROVE  /\ IsSeq(txns)' /\ DOMAIN txns \subseteq DOMAIN txns'
         /\ \A t \in DOMAIN txns : txns'[t] = txns[t]
         /\ \A t \in DOMAIN txns' : txns'[t].type = "payout" => t \in DOMAIN txns
<1>1. CASE UNCHANGED txns
  BY <1>1 DEF PayInv
<1>2. CASE \E x : x.type # "payout" /\ Grown(txns, txns', x)
  BY <1>2 DEF Grown
<1>3. QED
  BY <1>1, <1>2 DEF NoPayout

LEMMA QuietStep == ASSUME PayInv, Quiet PROVE PayInv'
<1>1. /\ SameRows /\ NoPayout
      /\ \A p \in DOMAIN positions : /\ Alike(positions'[p], positions[p])
                                     /\ positions'[p].status = positions[p].status
                                     /\ positions'[p].payout = positions[p].payout
  BY DEF Quiet
<1>2. \A p \in DOMAIN positions' : RowOk(positions'[p])
  BY <1>1 DEF PayInv, RowOk, Alike, SameRows
<1>3. QED
  BY <1>1, <1>2, NoPayoutFacts DEF PayInv, SameRows

LEMMA OpenedStep == ASSUME PayInv, Opened PROVE PayInv'
<1>1. PICK row : /\ RowOk(row) /\ row.status = "open"
                 /\ positions' = Append(positions, row)
                 /\ NoPayout
  BY DEF Opened
<1>2. PICK n : n = Len(positions) + 1
  OBVIOUS
<1>3. /\ IsSeq(positions)' /\ DOMAIN positions' = DOMAIN positions \union {n} /\ n \notin DOMAIN positions
      /\ \A p \in DOMAIN positions : positions'[p] = positions[p]
      /\ positions'[n] = row
  BY <1>1, <1>2, AppendGrows DEF Grown, PayInv
<1>4. ~(positions'[n].payout > 0)
  BY <1>1, <1>3 DEF RowOk
<1>5. QED
  BY <1>1, <1>3, <1>4, NoPayoutFacts DEF PayInv

------------------------------------------------------------------------------
(* How the steps touch the signals and the calls.                            *)

Call(c) ==
  /\ {"stage", "user", "signal"} \subseteq DOMAIN c
  /\ c.stage \in {"checking", "placing", "invalidating"}
  /\ c.signal \in Signals \union {NoSignal}

\* A user's second position on a signal.
Doubled(c, p) == positions[p].user = c.user /\ positions[p].signal = c.signal

\* Calls on a signal hold its row, one at a time, and the signal is live; a call
\* that is about to place a position does not place a second one.
WaitInv ==
  /\ signals = [s \in Signals |-> signals[s]]
  /\ opening = [w \in Sessions |-> opening[w]]
  /\ \A w \in Sessions : opening[w] = Idle \/ Call(opening[w])
  /\ \A w \in Sessions : opening[w] # Idle /\ opening[w].signal # NoSignal =>
       /\ signals[opening[w].signal] = "live"
       /\ \A v \in Sessions : opening[v] # Idle /\ opening[v].signal = opening[w].signal => v = w
       /\ opening[w].stage = "placing" => \A p \in OpenPositions : ~Doubled(opening[w], p)
  /\ OpenAwaitsVerdict

\* A call goes on, or ends.
CallNext(c, d) ==
  \/ d = Idle
  \/ /\ c = Idle /\ Call(d) /\ d.stage = "checking"
     /\ d.signal # NoSignal => ~RowLocked(d.signal) /\ signals[d.signal] = "live"
  \/ /\ c # Idle /\ Call(d) /\ d.user = c.user /\ d.signal = c.signal
     /\ d.stage = "placing" /\ d.signal # NoSignal => \A p \in OpenPositions : ~Doubled(d, p)

Called ==
  /\ UNCHANGED <<txns, positions, signals>>
  /\ \/ \E w \in Sessions : \E d : CallNext(opening[w], d) /\ opening' = [opening EXCEPT ![w] = d]
     \/ opening' = [w \in Sessions |-> Idle]

Placed ==
  \E w \in Sessions : \E row :
    /\ opening[w].stage = "placing" /\ row.user = opening[w].user /\ row.signal = opening[w].signal
    /\ RowOk(row) /\ row.status = "open"
    /\ positions' = Append(positions, row) /\ NoPayout
    /\ opening' = [opening EXCEPT ![w] = Idle] /\ UNCHANGED signals

\* An event marks a signal, whose row no call holds, live or closed.
Marked ==
  \E s \in Signals, to \in {"live", "closed"} :
    /\ ~RowLocked(s) /\ signals' = [signals EXCEPT ![s] = to]
    /\ UNCHANGED <<txns, positions, opening>>

Verdict ==
  \E s \in Signals : \E to, credit, status :
    /\ ~RowLocked(s) /\ signals' = [signals EXCEPT ![s] = to]
    /\ Settled({p \in OpenPositions : positions[p].signal = s}, credit, status)
    /\ UNCHANGED opening

Alone ==
  /\ UNCHANGED <<signals, opening>>
  /\ Quiet \/ \E P, credit, status : Settled(P, credit, status)

LEMMA Steps ==
  ASSUME PayInv, WaitInv, [Next]_vars
  PROVE  Called \/ Placed \/ Marked \/ Verdict \/ Alone
<1>0. /\ IsSeq(positions) /\ IsSeq(txns)
      /\ \A p \in DOMAIN positions : RowOk(positions[p])
      /\ \A w \in Sessions : opening[w] = Idle \/ Call(opening[w])
  BY DEF PayInv, WaitInv
<1>1. \A w \in Sessions : opening[w].stage \in {"checking", "placing"} =>
        opening[w] # Idle /\ Call(opening[w])
  BY <1>0 DEF Idle
<1>2. ASSUME NEW w \in Sessions, NEW user \in Users, StartQuick(w, user)
      PROVE  Called
  <2> DEFINE d == [stage |-> "checking", user |-> user, signal |-> NoSignal]
  <2>1. Call(d) /\ d.stage = "checking" /\ d.signal = NoSignal
    BY DEF Call
  <2>2. opening[w] = Idle /\ opening' = [opening EXCEPT ![w] = d] /\ UNCHANGED <<txns, positions, signals>>
    BY <1>2 DEF StartQuick, Goto, Ledger
  <2> HIDE DEF d
  <2>3. QED
    BY <2>1, <2>2 DEF Called, CallNext
<1>3. ASSUME NEW w \in Sessions, NEW user \in Users, NEW s \in Signals, LockSignal(w, user, s)
      PROVE  Called
  <2> DEFINE d == [stage |-> "checking", user |-> user, signal |-> s]
  <2>1. Call(d) /\ d.stage = "checking" /\ d.signal = s
    BY DEF Call
  <2>2. /\ opening[w] = Idle /\ opening' = [opening EXCEPT ![w] = d] /\ UNCHANGED <<txns, positions, signals>>
        /\ ~RowLocked(s) /\ signals[s] = "live"
    BY <1>3 DEF LockSignal, Goto, Ledger
  <2> HIDE DEF d
  <2>3. QED
    BY <2>1, <2>2 DEF Called, CallNext
<1>4. ASSUME NEW w \in Sessions, NEW stage \in {"placing", "invalidating"},
             opening[w].stage = "checking",
             opening' = [opening EXCEPT ![w] = [opening[w] EXCEPT !.stage = stage]],
             stage = "placing" /\ opening[w].signal # NoSignal =>
               \A p \in OpenPositions : ~Doubled(opening[w], p),
             UNCHANGED <<txns, positions, signals>>
      PROVE  Called
  <2> DEFINE d == [opening[w] EXCEPT !.stage = stage]
  <2>1. opening[w] # Idle /\ Call(opening[w])
    BY <1>1, <1>4
  <2>2. Call(d) /\ d.stage = stage /\ d.user = opening[w].user /\ d.signal = opening[w].signal
    BY <2>1 DEF Call
  <2>3. opening' = [opening EXCEPT ![w] = d]
    BY <1>4
  <2> HIDE DEF d
  <2>4. \A p \in OpenPositions : Doubled(d, p) => Doubled(opening[w], p)
    BY <2>2 DEF Doubled
  <2>5. CallNext(opening[w], d)
    BY <1>4, <2>1, <2>2, <2>4 DEF CallNext
  <2>6. QED
    BY <1>4, <2>3, <2>5 DEF Called
<1>5. ASSUME NEW w \in Sessions, NEW limit \in {"none", "running"}, NEW fate \in Fates, Place(w, limit, fate)
      PROVE  Placed
  <2> DEFINE c == opening[w]
             row == [user |-> c.user, signal |-> c.signal, limit |-> limit, fate |-> fate,
                     status |-> "open", payout |-> 0]
  <2>1. Call(c)
    BY <1>1, <1>5 DEF Place
  <2>2. c.signal = NoSignal => fate \in {"win", "lose", "void"}
    BY <1>5 DEF Place
  <2>3. /\ RowOk(row) /\ row.status = "open" /\ row.user = c.user /\ row.signal = c.signal
    BY <2>1, <2>2 DEF RowOk, Call
  <2>4. /\ c.stage = "placing" /\ positions' = Append(positions, row)
        /\ opening' = [opening EXCEPT ![w] = Idle] /\ UNCHANGED signals
    BY <1>5 DEF Place, Goto
  <2>5. PICK p, type, key, from, to : type = "stake" /\ Post(type, p, key, from, Credit(to, Stake))
    BY <1>5 DEF Place
  <2>6. Stake \in Int
    BY StakeAssumption
  <2>7. PICK x : Grown(txns, txns', x) /\ x.type = type
    BY <1>0, <2>5, <2>6, PostingGrows
  <2>8. NoPayout
    BY <2>5, <2>7 DEF NoPayout
  <2> HIDE DEF row, c
  <2>9. QED
    BY <2>3, <2>4, <2>8 DEF Placed, c
<1>6. ASSUME NEW w \in Sessions, Continue(w)
      PROVE  Called \/ Placed
  <2>1. CASE FindInvalid(w)
    BY <1>4, <2>1 DEF FindInvalid, Goto, Ledger
  <2>2. CASE CheckExposure(w)
    BY <1>4, <2>2 DEF CheckExposure, Goto, Ledger, Doubled
  <2>3. CASE Abandon(w)
    BY <2>3 DEF Abandon, Goto, Ledger, Called, CallNext
  <2>4. QED
    BY <1>5, <1>6, <2>1, <2>2, <2>3 DEF Continue
<1>7. CASE Restart
  BY <1>7 DEF Restart, Called, Ledger
<1>8. ASSUME NEW p \in DOMAIN positions, Elapse(p)
      PROVE  Alone
  <2> DEFINE row == [positions[p] EXCEPT !.limit = "over"]
  <2>1. positions' = [positions EXCEPT ![p] = row] /\ UNCHANGED <<txns, signals, opening>>
    BY <1>8 DEF Elapse, Ledger
  <2>2. Alike(row, positions[p]) /\ row.status = positions[p].status /\ row.payout = positions[p].payout
    BY <1>0 DEF RowOk, Alike
  <2> HIDE DEF row
  <2>3. /\ SameRows
        /\ \A q \in DOMAIN positions \ {p} : positions'[q] = positions[q]
        /\ positions'[p] = row
    BY <1>0, <2>1, ExceptFacts DEF SameRows
  <2>4. QED
    BY <2>1, <2>2, <2>3 DEF Alone, Quiet, NoPayout, Alike
<1>9. ASSUME NEW p \in OpenPositions, NEW credit \in Nat, NEW status, status # "open", NEW key,
             Pay(p, credit, status, key), UNCHANGED <<signals, opening>>
      PROVE  Alone
  BY <1>9, PaySettles DEF Alone
<1>10. ASSUME NEW p \in DOMAIN positions, Resolve(p)
       PROVE  Alone
  <2>1. p \in OpenPositions /\ positions[p].fate \in {"win", "lose", "void"}
    BY <1>0, <1>10 DEF Resolve, RowOk
  <2>2. PICK outcome \in {"win", "lose", "void"} : outcome = positions[p].fate
    BY <2>1
  <2>3. Pay(p, SettleAmount(outcome), StatusOf(outcome), PayKey(outcome, p)) /\ UNCHANGED <<signals, opening>>
    BY <1>10, <2>2 DEF Resolve
  <2>4. QED
    BY <1>9, <2>1, <2>3, Amounts
<1>11. ASSUME NEW p \in DOMAIN positions, CashOut(p) \/ CashOutSignal(p)
       PROVE  Alone
  <2>1. p \in OpenPositions /\ UNCHANGED <<signals, opening>>
    BY <1>11 DEF CashOut, CashOutSignal
  <2>2. PICK credit, key : credit \in CashOutCredits /\ CashOutAt(p, credit, key)
    BY <1>11 DEF CashOut, CashOutSignal
  <2>3. PICK status : status # "open" /\ Pay(p, credit, status, key)
    BY <2>2 DEF CashOutAt
  <2>4. credit \in Nat
    BY <2>2, Amounts
  <2>5. QED
    BY <1>9, <2>1, <2>3, <2>4
<1>12. ASSUME NEW p \in DOMAIN positions, RefundExpired(p)
       PROVE  Alone
  BY <1>9, <1>12, Amounts DEF RefundExpired, StatusOf
<1>13. ASSUME NEW s \in Signals, EntryEvent(s) \/ SweepDead(s)
       PROVE  Marked
  BY <1>13 DEF EntryEvent, SweepDead, Marked, Ledger
<1>14. ASSUME NEW s \in Signals, PriceMoves(s)
       PROVE  Alone
  BY <1>0, <1>14 DEF PriceMoves, Alone, Quiet, SameRows, NoPayout, Ledger, Alike
<1>15. ASSUME NEW s \in Signals, NEW outcome \in {"win", "lose"}, SettleSignal(s, outcome)
       PROVE  Verdict
  <2>1. /\ ~RowLocked(s) /\ UNCHANGED opening
        /\ \E to : signals' = [signals EXCEPT ![s] = to]
    BY <1>15 DEF SettleSignal
  <2>2. \E credit, status : Settled({p \in OpenPositions : positions[p].signal = s}, credit, status)
    BY <1>15, VerdictSettles
  <2>3. QED
    BY <2>1, <2>2 DEF Verdict
<1>16. ASSUME UNCHANGED <<positions, signals, opening>>, NoPayout
       PROVE  Alone
  BY <1>0, <1>16 DEF Alone, Quiet, SameRows, Alike
<1>17. ASSUME NEW type, NEW ref, NEW key, NEW from, NEW credits, type # "payout",
              Post(type, ref, key, from, credits)
       PROVE  NoPayout
  <2> DEFINE x == [type |-> type, ref |-> ref, key |-> key, amount |-> Total(credits)]
  <2>1. txns' = Append(txns, x) /\ x.type = type
    BY <1>17 DEF Post
  <2> HIDE DEF x
  <2>2. Grown(txns, txns', x)
    BY <1>0, <2>1, AppendGrows
  <2>3. QED
    BY <1>17, <2>1, <2>2 DEF NoPayout
<1>18. ASSUME TopUp \/ \E amount \in Grants : FundPool(amount)
       PROVE  Alone
  <2>1. \E type, ref, key, from, credits : type # "payout" /\ Post(type, ref, key, from, credits)
    BY <1>18 DEF TopUp, FundPool
  <2>2. UNCHANGED <<positions, signals, opening>>
    BY <1>18 DEF TopUp, FundPool
  <2>3. QED
    BY <1>16, <1>17, <2>1, <2>2
<1>19. CASE UNCHANGED vars
  BY <1>16, <1>19 DEF vars, NoPayout
<1>20. QED
  BY <1>2, <1>3, <1>6, <1>7, <1>8, <1>10, <1>11, <1>12, <1>13, <1>14, <1>15, <1>18, <1>19 DEF Next

\* Settlements and the like only take positions away from the open ones.
LEMMA OpenShrinks ==
  ASSUME PayInv, Quiet \/ \E P, credit, status : Settled(P, credit, status)
  PROVE  \A p \in OpenPositions' :
           /\ p \in OpenPositions
           /\ positions'[p].user = positions[p].user /\ positions'[p].signal = positions[p].signal
<1>1. CASE Quiet
  BY <1>1 DEF Quiet, SameRows, Alike, OpenPositions
<1>2. CASE \E P, credit, status : Settled(P, credit, status)
  BY <1>2 DEF Settled, SameRows, Alike, OpenPositions
<1>3. QED
  BY <1>1, <1>2

\* No call and no signal is left with a position it should not have.
LEMMA WaitStep == ASSUME PayInv, WaitInv, [Next]_vars PROVE WaitInv'
<1>1. CASE Alone
  <2>1. UNCHANGED <<signals, opening>>
    BY <1>1 DEF Alone
  <2>2. \A p \in OpenPositions' :
          /\ p \in OpenPositions
          /\ positions'[p].user = positions[p].user /\ positions'[p].signal = positions[p].signal
    BY <1>1, OpenShrinks DEF Alone
  <2>3. QED
    BY <2>1, <2>2 DEF WaitInv, OpenAwaitsVerdict, Doubled
<1>2. CASE Verdict
  <2>1. PICK s, to, credit, status :
          /\ s \in Signals
          /\ ~RowLocked(s) /\ signals' = [signals EXCEPT ![s] = to]
          /\ Settled({p \in OpenPositions : positions[p].signal = s}, credit, status)
          /\ UNCHANGED opening
    BY <1>2 DEF Verdict
  <2>2. \A p \in OpenPositions' :
          /\ p \in OpenPositions
          /\ positions'[p].user = positions[p].user /\ positions'[p].signal = positions[p].signal
    BY <2>1, OpenShrinks
  <2>3. \A p \in OpenPositions' : positions'[p].signal # s
    <3>1. ASSUME NEW p \in OpenPositions', positions'[p].signal = s PROVE FALSE
      <4>1. p \in {q \in OpenPositions : positions[q].signal = s}
        BY <2>2, <3>1
      <4>2. positions'[p].status # "open"
        BY <2>1, <4>1 DEF Settled
      <4>3. QED
        BY <4>2 DEF OpenPositions
    <3>2. QED
      BY <3>1
  <2>4. \A w \in Sessions : opening[w] # Idle => opening[w].signal # s
    BY <2>1 DEF RowLocked
  <2>5. /\ signals' = [t \in Signals |-> signals'[t]]
        /\ \A t : t # s => signals'[t] = signals[t]
    <3>1. signals = [t \in Signals |-> signals[t]]
      BY DEF WaitInv
    <3>2. QED
      BY <2>1, <3>1
  <2>6. OpenAwaitsVerdict'
    BY <2>2, <2>3, <2>5 DEF WaitInv, OpenAwaitsVerdict
  <2>7. QED
    BY <2>1, <2>2, <2>4, <2>5, <2>6 DEF WaitInv, Doubled
<1>3. CASE Marked
  <2>1. PICK s \in Signals, to \in {"live", "closed"} :
          /\ ~RowLocked(s) /\ signals' = [signals EXCEPT ![s] = to]
          /\ UNCHANGED <<txns, positions, opening>>
    BY <1>3 DEF Marked
  <2>2. \A w \in Sessions : opening[w] # Idle => opening[w].signal # s
    BY <2>1 DEF RowLocked
  <2>3. signals = [t \in Signals |-> signals[t]]
    BY DEF WaitInv
  <2>4. signals' = [t \in Signals |-> signals'[t]] /\ signals'[s] = to /\ \A t : t # s => signals'[t] = signals[t]
    BY <2>1, <2>3
  <2>5. OpenAwaitsVerdict'
    BY <2>1, <2>4 DEF WaitInv, OpenAwaitsVerdict, OpenPositions
  <2>6. QED
    BY <2>1, <2>2, <2>4, <2>5 DEF WaitInv, Doubled, OpenPositions
<1>4. CASE Called
  <2>1. UNCHANGED <<txns, positions, signals>> /\ OpenPositions' = OpenPositions
    BY <1>4 DEF Called, OpenPositions
  <2>2. OpenAwaitsVerdict'
    BY <2>1 DEF WaitInv, OpenAwaitsVerdict
  <2>3. CASE opening' = [w \in Sessions |-> Idle]
    BY <2>1, <2>2, <2>3 DEF WaitInv
  <2>4. ASSUME NEW w \in Sessions, NEW d, CallNext(opening[w], d), opening' = [opening EXCEPT ![w] = d]
        PROVE  WaitInv'
    <3>1. opening = [v \in Sessions |-> opening[v]]
      BY DEF WaitInv
    <3>2. /\ opening' = [v \in Sessions |-> opening'[v]] /\ opening'[w] = d
          /\ \A v \in Sessions \ {w} : opening'[v] = opening[v]
      BY <2>4, <3>1
    <3>3. d = Idle \/ Call(d)
      BY <2>4 DEF CallNext
    <3>4. d # Idle /\ d.signal # NoSignal =>
            /\ signals[d.signal] = "live"
            /\ \A v \in Sessions \ {w} : opening[v] # Idle => opening[v].signal # d.signal
            /\ d.stage = "placing" => \A p \in OpenPositions : ~Doubled(d, p)
      <4>1. CASE opening[w] = Idle
        BY <2>4, <4>1 DEF CallNext, RowLocked
      <4>2. CASE opening[w] # Idle
        BY <2>4, <4>2 DEF CallNext, WaitInv
      <4>3. QED
        BY <4>1, <4>2
    <3>5. \A v \in Sessions : opening'[v] = Idle \/ Call(opening'[v])
      BY <3>2, <3>3 DEF WaitInv
    <3>6. \A v \in Sessions : opening'[v] # Idle /\ opening'[v].signal # NoSignal =>
            /\ signals'[opening'[v].signal] = "live"
            /\ \A u \in Sessions : opening'[u] # Idle /\ opening'[u].signal = opening'[v].signal => u = v
            /\ opening'[v].stage = "placing" => \A p \in OpenPositions' : ~Doubled(opening'[v], p)
      <4>1. \A v \in Sessions \ {w} : opening[v] # Idle /\ opening[v].signal # NoSignal =>
              /\ signals[opening[v].signal] = "live"
              /\ \A u \in Sessions \ {w} : opening[u] # Idle /\ opening[u].signal = opening[v].signal => u = v
              /\ opening[v].stage = "placing" => \A p \in OpenPositions : ~Doubled(opening[v], p)
        BY DEF WaitInv
      <4>2. ASSUME NEW v \in Sessions, opening'[v] # Idle, opening'[v].signal # NoSignal
            PROVE  /\ signals'[opening'[v].signal] = "live"
                   /\ \A u \in Sessions : opening'[u] # Idle /\ opening'[u].signal = opening'[v].signal => u = v
                   /\ opening'[v].stage = "placing" => \A p \in OpenPositions : ~Doubled(opening'[v], p)
        <5>1. CASE v = w
          <6>1. opening'[v] = d
            BY <3>2, <5>1
          <6>2. \A u \in Sessions \ {w} : opening'[u] # Idle => opening'[u].signal # d.signal
            BY <3>2, <3>4, <4>2, <6>1
          <6>3. QED
            BY <2>1, <3>4, <4>2, <5>1, <6>1, <6>2
        <5>2. CASE v # w
          <6>1. v \in Sessions \ {w} /\ opening'[v] = opening[v]
            BY <3>2, <5>2
          <6>2. \A u \in Sessions \ {w} : opening'[u] # Idle /\ opening'[u].signal = opening'[v].signal => u = v
            BY <3>2, <4>1, <4>2, <6>1
          <6>3. opening'[w] # Idle => opening'[w].signal # opening'[v].signal
            BY <3>2, <3>4, <4>2, <6>1
          <6>4. QED
            BY <2>1, <4>1, <4>2, <6>1, <6>2, <6>3
        <5>3. QED
          BY <5>1, <5>2
      <4>3. QED
        BY <2>1, <4>2
    <3>7. QED
      BY <2>1, <2>2, <3>2, <3>5, <3>6 DEF WaitInv, Doubled
  <2>5. QED
    BY <1>4, <2>3, <2>4 DEF Called
<1>5. CASE Placed
  <2>1. PICK w, row :
          /\ w \in Sessions
          /\ opening[w].stage = "placing" /\ row.user = opening[w].user /\ row.signal = opening[w].signal
          /\ RowOk(row) /\ row.status = "open"
          /\ positions' = Append(positions, row) /\ NoPayout
          /\ opening' = [opening EXCEPT ![w] = Idle] /\ UNCHANGED signals
    BY <1>5 DEF Placed
  <2>2. PICK n : n = Len(positions) + 1
    OBVIOUS
  <2>3. /\ DOMAIN positions' = DOMAIN positions \union {n} /\ n \notin DOMAIN positions
        /\ \A p \in DOMAIN positions : positions'[p] = positions[p]
        /\ positions'[n] = row
    BY <2>1, <2>2, AppendGrows DEF Grown, PayInv
  <2>4. /\ OpenPositions' = OpenPositions \union {n} /\ n \notin OpenPositions
        /\ \A p \in OpenPositions : positions'[p] = positions[p]
    BY <2>1, <2>3 DEF OpenPositions
  <2>5. opening[w] # Idle
    BY <2>1 DEF Idle
  <2>6. opening = [v \in Sessions |-> opening[v]]
    BY DEF WaitInv
  <2>7. /\ opening' = [v \in Sessions |-> opening'[v]] /\ opening'[w] = Idle
        /\ \A v \in Sessions \ {w} : opening'[v] = opening[v]
    BY <2>1, <2>6
  <2>8. OpenAwaitsVerdict'
    <3>1. row.signal # NoSignal =>
            signals[row.signal] = "live" /\ \A p \in OpenPositions : ~Doubled(opening[w], p)
      BY <2>1, <2>5 DEF WaitInv
    <3>2. row.signal # NoSignal =>
            \A p \in OpenPositions : positions[p].signal = row.signal => positions[p].user # row.user
      BY <2>1, <3>1 DEF Doubled
    <3>3. QED
      <4>1. \A p \in OpenPositions : positions[p].signal # NoSignal =>
              /\ signals[positions[p].signal] \in {"live", "closed"}
              /\ \A q \in OpenPositions \ {p} :
                   positions[q].signal = positions[p].signal => positions[q].user # positions[p].user
        BY DEF WaitInv, OpenAwaitsVerdict
      <4>2. \A p \in OpenPositions' : \/ p = n /\ positions'[p] = row
                                      \/ p \in OpenPositions /\ p # n /\ positions'[p] = positions[p]
        BY <2>3, <2>4
      <4>3. \A p \in OpenPositions' : positions'[p].signal # NoSignal =>
              signals[positions'[p].signal] \in {"live", "closed"}
        BY <3>1, <4>1, <4>2
      <4>4. ASSUME NEW p \in OpenPositions', NEW q \in OpenPositions' \ {p},
                   positions'[p].signal # NoSignal, positions'[q].signal = positions'[p].signal
            PROVE  positions'[q].user # positions'[p].user
        BY <3>2, <4>1, <4>2, <4>4
      <4>5. QED
        BY <2>1, <4>3, <4>4 DEF OpenAwaitsVerdict
  <2>9. \A v \in Sessions : opening'[v] # Idle /\ opening'[v].signal # NoSignal =>
          /\ v # w /\ opening'[v] = opening[v]
          /\ opening[v].signal # row.signal
    BY <2>1, <2>5, <2>7 DEF WaitInv
  <2>10. \A v \in Sessions : opening'[v] # Idle /\ opening'[v].signal # NoSignal =>
           /\ signals'[opening'[v].signal] = "live"
           /\ \A u \in Sessions : opening'[u] # Idle /\ opening'[u].signal = opening'[v].signal => u = v
           /\ opening'[v].stage = "placing" => \A p \in OpenPositions' :
                ~(positions'[p].user = opening'[v].user /\ positions'[p].signal = opening'[v].signal)
    <3>1. \A v \in Sessions : opening[v] # Idle /\ opening[v].signal # NoSignal =>
           /\ signals[opening[v].signal] = "live"
           /\ \A u \in Sessions : opening[u] # Idle /\ opening[u].signal = opening[v].signal => u = v
           /\ opening[v].stage = "placing" => \A p \in OpenPositions :
                ~(positions[p].user = opening[v].user /\ positions[p].signal = opening[v].signal)
      BY DEF WaitInv, Doubled
    <3>2. ASSUME NEW v \in Sessions, opening'[v] # Idle, opening'[v].signal # NoSignal
          PROVE  /\ v # w /\ opening'[v] = opening[v]
                 /\ signals'[opening'[v].signal] = "live"
                 /\ \A u \in Sessions : opening'[u] # Idle /\ opening'[u].signal = opening'[v].signal => u = v
      <4>1. v # w /\ opening'[v] = opening[v]
        BY <2>9, <3>2
      <4>2. \A u \in Sessions : opening'[u] # Idle => opening'[u] = opening[u]
        BY <2>7
      <4>3. QED
        BY <2>1, <3>1, <3>2, <4>1, <4>2
    <3>3. ASSUME NEW v \in Sessions, opening'[v] # Idle, opening'[v].signal # NoSignal,
                 opening'[v].stage = "placing", NEW p \in OpenPositions'
          PROVE  ~(positions'[p].user = opening'[v].user /\ positions'[p].signal = opening'[v].signal)
      <4>1. opening'[v] = opening[v]
        BY <2>9, <3>3
      <4>2. CASE p = n
        BY <2>1, <2>3, <2>9, <3>3, <4>1, <4>2
      <4>3. CASE p \in OpenPositions
        BY <2>4, <3>1, <3>3, <4>1, <4>3
      <4>4. QED
        BY <2>4, <4>2, <4>3
    <3>4. QED
      BY <3>2, <3>3
  <2>11. \A v \in Sessions : opening'[v] = Idle \/ Call(opening'[v])
    BY <2>7 DEF WaitInv
  <2>12. QED
    BY <2>1, <2>7, <2>8, <2>10, <2>11 DEF WaitInv, Doubled
<1>6. QED
  BY <1>1, <1>2, <1>3, <1>4, <1>5, Steps

LEMMA PayStep == ASSUME PayInv, WaitInv, [Next]_vars PROVE PayInv'
<1>1. CASE UNCHANGED <<txns, positions>>
  BY <1>1 DEF PayInv
<1>2. CASE Placed
  BY <1>2, OpenedStep DEF Placed, Opened
<1>3. CASE Verdict
  BY <1>3, SettledStep DEF Verdict
<1>4. CASE Alone
  BY <1>4, SettledStep, QuietStep DEF Alone
<1>5. QED
  BY <1>1, <1>2, <1>3, <1>4, Steps DEF Called, Marked

LEMMA QuantInvariant == Spec => [](PayInv /\ WaitInv)
<1>1. Init => PayInv /\ WaitInv
  BY DEF Init, PayInv, WaitInv, IsSeq, OpenAwaitsVerdict, OpenPositions
<1>2. PayInv /\ WaitInv /\ [Next]_vars => PayInv' /\ WaitInv'
  BY PayStep, WaitStep
<1>3. QED
  BY <1>1, <1>2, PTL DEF Spec

\* Whatever resolves it, cashes it out, refunds it or gives the verdict, however
\* often and in whatever order: a position is paid once at most, and its row says
\* what it was paid.
THEOREM PositionsArePaidOnce == Spec => []PositionPaidOnce
<1>1. PayInv => PositionPaidOnce
  <2> SUFFICES ASSUME PayInv, NEW p \in DOMAIN positions
               PROVE  /\ Cardinality(Payouts(p)) <= 1
                      /\ (\E t \in Payouts(p) : txns[t].amount = positions[p].payout)
                           <=> positions[p].payout > 0
    BY DEF PositionPaidOnce
  <2>1. \A t, u \in Payouts(p) : t = u
    BY DEF PayInv, Payouts
  <2>2. Cardinality(Payouts(p)) <= 1
    BY <2>1, AtMostOne
  <2>3. \A t \in Payouts(p) : txns[t].amount = positions[p].payout /\ positions[p].payout > 0
    BY DEF PayInv, Payouts
  <2>4. positions[p].payout > 0 => Payouts(p) # {}
    BY DEF PayInv, Payouts
  <2>5. QED
    BY <2>2, <2>3, <2>4
<1>2. QED
  BY <1>1, QuantInvariant, PTL

\* However entries, verdicts, calls and keepers interleave, an open position on a
\* signal has a verdict to wait for, and is its user's only one there.
THEOREM OpenPositionsAwaitVerdicts == Spec => []OpenAwaitsVerdict
<1>1. WaitInv => OpenAwaitsVerdict
  BY DEF WaitInv
<1>2. QED
  BY <1>1, QuantInvariant, PTL
==============================================================================
