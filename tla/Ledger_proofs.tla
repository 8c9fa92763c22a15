---------------------------- MODULE Ledger_proofs ----------------------------
(***************************************************************************)
(* Proofs about Ledger, for any number of sessions, wallets and keys.      *)
(***************************************************************************)
EXTENDS Ledger, CommonTheorems

\* The movement lists that the ledger builds itself are movement lists.
LEMMA IssueType ==
  ASSUME NEW amount \in MintAmounts
  PROVE  Issue(amount) \in Seq(Movement)
BY LedgerAssumption DEF Issue, Movement, Wallets, Kinds, Genesis, Treasury

LEMMA MirrorType ==
  ASSUME NEW es \in Seq(Entry)
  PROVE  Mirror(es) \in Seq(Movement)
<1>1. /\ Len(es) \in Nat
      /\ \A i \in 1 .. Len(es) : [wallet |-> es[i].wallet, kind |-> es[i].kind,
                                   delta |-> -es[i].delta] \in Movement
  <2>1. \A i \in 1 .. Len(es) : es[i] \in Entry
    OBVIOUS
  <2>2. QED
    BY <2>1 DEF Entry, Movement
<1>2. Mirror(es) = [i \in 1 .. Len(es) |-> [wallet |-> es[i].wallet, kind |-> es[i].kind,
                                            delta |-> -es[i].delta]]
  BY DEF Mirror
<1>3. QED
  BY <1>1, <1>2

\* A call needs the locks of wallets.
LEMMA NeededType ==
  ASSUME TypeOK, NEW s \in Sessions
  PROVE  Needed(s) \subseteq Wallets
<1>1. job[s].movs \in Seq(Movement)
  BY DEF TypeOK, Job
<1>2. \A i \in DOMAIN job[s].movs : job[s].movs[i] \in Movement
  BY <1>1
<1>3. QED
  BY <1>2 DEF Needed, Movement

\* The movement a session applies next, and the balance that it makes.
LEMMA NextMovementType ==
  ASSUME TypeOK, NEW s \in Sessions, Len(mine[s]) < Len(job[s].movs)
  PROVE  /\ Next1(s) \in Movement
         /\ NextCell(s) \in Cells
         /\ NewBalance(s) \in Int
<1>1. job[s].movs \in Seq(Movement) /\ mine[s] \in Seq(Entry)
  BY DEF TypeOK, Job
<1>2. Len(mine[s]) + 1 \in 1 .. Len(job[s].movs)
  BY <1>1
<1>3. Next1(s) \in Movement
  BY <1>1, <1>2 DEF Next1
<1>4. NextCell(s) \in Cells
  BY <1>3 DEF NextCell, Cells, Movement
<1>5. work[s][NextCell(s)] \in Int
  BY <1>4 DEF TypeOK
<1>6. QED
  BY <1>3, <1>4, <1>5 DEF NewBalance, Movement

\* A session starts without a call, on balances of the right type.
LEMMA NoJobType == NoJob \in Job /\ Fresh \in [Cells -> Int]
BY DEF NoJob, NewJob, Job, Fresh

\* A session that stops leaves its own variables well typed.
LEMMA EndType ==
  ASSUME TypeOK, NEW s \in Sessions, NEW result \in Outcomes, End(s, result)
  PROVE  /\ pc' \in [Sessions -> Labels]
         /\ job' \in [Sessions -> Job]
         /\ held' \in [Sessions -> SUBSET Wallets]
         /\ work' \in [Sessions -> [Cells -> Int]]
         /\ mine' \in [Sessions -> Seq(Entry)]
         /\ outcome' \in [Sessions -> Outcomes]
BY NoJobType DEF End, TypeOK, Labels

\* A roll back leaves every variable in its type.
LEMMA RollbackType ==
  ASSUME TypeOK, NEW s \in Sessions, NEW result \in Outcomes, Rollback(s, result)
  PROVE  TypeOK'
BY EndType DEF Rollback, database, TypeOK

\* So does a step that only goes on.
LEMMA GotoType ==
  ASSUME TypeOK, NEW s \in Sessions, NEW label \in Labels, Goto(s, label)
  PROVE  TypeOK'
BY DEF Goto, TypeOK

\* So does the start of a call.
LEMMA StartType ==
  ASSUME TypeOK, NEW s \in Sessions, NEW j \in Job, NEW label \in Labels,
         Start(s, j, label)
  PROVE  TypeOK'
BY DEF Start, TypeOK, Outcomes

\* What a session commits is a transaction.
LEMMA NewTxnType ==
  ASSUME TypeOK, NEW s \in Sessions
  PROVE  NewTxn(s) \in Txn
BY DEF TypeOK, NewTxn, Txn, Job

\* The step after BEGIN has a label.
LEMMA AfterBeginType == \A key : AfterBegin(key) \in Labels
BY DEF AfterBegin, Labels

\* Every step of the ledger keeps every variable in its type.
LEMMA TypeStep == TypeOK /\ [Next]_vars => TypeOK'
<1> SUFFICES ASSUME TypeOK, [Next]_vars PROVE TypeOK'
  OBVIOUS
<1>1. ASSUME NEW s \in Sessions, PostTransaction(s) PROVE TypeOK'
  <2>1. PICK ms \in Postings, key \in Keys \union {NoKey} :
          Start(s, NewJob("post", key, ms, 0), AfterBegin(key))
    BY <1>1 DEF PostTransaction
  <2>2. NewJob("post", key, ms, 0) \in Job
    BY LedgerAssumption DEF NewJob, Job
  <2>3. QED
    BY <2>1, <2>2, StartType, AfterBeginType
<1>2. ASSUME NEW s \in Sessions, Mint(s) PROVE TypeOK'
  <2>1. PICK amount \in MintAmounts, key \in Keys \union {NoKey} :
          Start(s, NewJob("mint", key, Issue(amount), 0), "cap")
    BY <1>2 DEF Mint
  <2>2. NewJob("mint", key, Issue(amount), 0) \in Job
    BY IssueType DEF NewJob, Job
  <2>3. QED
    BY <2>1, <2>2, StartType DEF Labels
<1>3. ASSUME NEW s \in Sessions, ReverseTransaction(s) PROVE TypeOK'
  <2>1. PICK t \in 1 .. Len(txns) + 1 :
          Start(s, NewJob("reverse", NoKey, <<>>, t), "target")
    BY <1>3 DEF ReverseTransaction
  <2>2. t \in Nat
    BY DEF TypeOK
  <2>3. NewJob("reverse", NoKey, <<>>, t) \in Job
    BY <2>2 DEF NewJob, Job
  <2>4. QED
    BY <2>1, <2>3, StartType DEF Labels
<1>4. ASSUME NEW s \in Sessions, CheckCap(s) PROVE TypeOK'
  BY <1>4, RollbackType, GotoType, AfterBeginType DEF CheckCap, Outcomes
<1>5. ASSUME NEW s \in Sessions, LockTarget(s) PROVE TypeOK'
  <2>1. txns[job[s].target].entries \in Seq(Entry)
    <3>1. txns[job[s].target] \in Txn
      BY <1>5 DEF LockTarget, TypeOK
    <3>2. QED
      BY <3>1 DEF Txn
  <2>2. NewJob("reverse", NoKey, Mirror(txns[job[s].target].entries), job[s].target) \in Job
    BY <2>1, MirrorType DEF NewJob, Job, TypeOK
  <2>3. QED
    BY <1>5, <2>2 DEF LockTarget, TypeOK, Labels
<1>6. ASSUME NEW s \in Sessions, CheckKey(s) PROVE TypeOK'
  BY <1>6, RollbackType, GotoType DEF CheckKey, Outcomes, Labels
<1>7. ASSUME NEW s \in Sessions, InsertTxn(s) PROVE TypeOK'
  BY <1>7, RollbackType, GotoType DEF InsertTxn, Outcomes, Labels
<1>8. ASSUME NEW s \in Sessions, LockNext(s) PROVE TypeOK'
  <2>1. PICK w \in Needed(s) \ held[s] :
          /\ held' = [held EXCEPT ![s] = @ \union {w}]
          /\ work' = [work EXCEPT ![s] =
               [c \in Cells |-> IF c[1] = w THEN bal[c] ELSE @[c]]]
          /\ pc' = [pc EXCEPT ![s] =
               IF Needed(s) \subseteq held[s] \union {w} THEN "apply" ELSE "lock"]
    BY <1>8 DEF LockNext, TakeRow
  <2>2. w \in Wallets
    BY NeededType
  <2>3. QED
    BY <1>8, <2>1, <2>2 DEF LockNext, TakeRow, TypeOK, Labels
<1>9. ASSUME NEW s \in Sessions, ApplyMovement(s) PROVE TypeOK'
  <2>1. /\ Next1(s) \in Movement /\ NextCell(s) \in Cells /\ NewBalance(s) \in Int
    BY <1>9, NextMovementType DEF ApplyMovement, WriteEntry
  <2>2. [wallet |-> Next1(s).wallet, kind |-> Next1(s).kind,
         delta |-> Next1(s).delta, after |-> NewBalance(s)] \in Entry
    BY <2>1 DEF Entry, Movement
  <2>3. mine' \in [Sessions -> Seq(Entry)]
    BY <1>9, <2>2 DEF ApplyMovement, WriteEntry, TypeOK
  <2>4. work' \in [Sessions -> [Cells -> Int]]
    BY <1>9, <2>1 DEF ApplyMovement, WriteEntry, TypeOK
  <2>5. QED
    BY <1>9, <2>3, <2>4 DEF ApplyMovement, WriteEntry, TypeOK
<1>10. ASSUME NEW s \in Sessions, RejectFrozen(s) PROVE TypeOK'
  BY <1>10, RollbackType DEF RejectFrozen, Outcomes
<1>11. ASSUME NEW s \in Sessions, RejectOverdraft(s) PROVE TypeOK'
  BY <1>11, RollbackType DEF RejectOverdraft, Outcomes
<1>12. ASSUME NEW s \in Sessions, Commit(s) PROVE TypeOK'
  <2>1. bal' \in [Cells -> Int]
    BY <1>12 DEF Commit, TypeOK
  <2>2. txns' \in Seq(Txn)
    <3> DEFINE before == [t \in DOMAIN txns |->
                 IF t = job[s].target THEN [txns[t] EXCEPT !.status = "reversed"]
                                      ELSE txns[t]]
    <3>1. \A t \in 1 .. Len(txns) : txns[t] \in Txn
      BY DEF TypeOK
    <3>2. \A t \in 1 .. Len(txns) : [txns[t] EXCEPT !.status = "reversed"] \in Txn
      BY <3>1 DEF Txn
    <3>3. before \in Seq(Txn)
      <4>1. DOMAIN txns = 1 .. Len(txns) /\ Len(txns) \in Nat
        BY DEF TypeOK
      <4>2. QED
        BY <3>1, <3>2, <4>1
    <3>4. txns' = Append(before, NewTxn(s))
      BY <1>12 DEF Commit
    <3> HIDE DEF before
    <3>5. QED
      BY <3>3, <3>4, NewTxnType
  <2>3. QED
    BY <1>12, <2>1, <2>2, EndType DEF Commit, TypeOK, Outcomes
<1>13. ASSUME NEW s \in Sessions, Crash(s) PROVE TypeOK'
  BY <1>13, RollbackType DEF Crash, Outcomes
<1>14. ASSUME NEW f \in Freezes, SetWalletStatus(f[1], f[2]) PROVE TypeOK'
  BY <1>14, LedgerAssumption DEF SetWalletStatus, TypeOK, session
<1>15. ASSUME NEW t \in DOMAIN txns, FlagForReview(t) PROVE TypeOK'
  <2>1. txns[t] \in Txn
    BY DEF TypeOK
  <2>2. [txns[t] EXCEPT !.status = "under_review"] \in Txn
    BY <2>1 DEF Txn
  <2>3. txns' \in Seq(Txn)
    BY <1>15, <2>2 DEF FlagForReview, TypeOK
  <2>4. QED
    BY <1>15, <2>3 DEF FlagForReview, TypeOK, session
<1>16. CASE UNCHANGED vars
  BY <1>16 DEF vars, TypeOK
<1>17. ASSUME NEW s \in Sessions, RejectMissing(s) \/ RejectReversed(s) PROVE TypeOK'
  BY <1>17, RollbackType DEF RejectMissing, RejectReversed, Outcomes
<1>18. QED
  BY <1>17, <1>1, <1>2, <1>3, <1>4, <1>5, <1>6, <1>7, <1>8, <1>9, <1>10, <1>11, <1>12,
     <1>13, <1>14, <1>15, <1>16 DEF Next, Step

\* Every reachable state is well typed.
THEOREM TypeCorrect == Spec => []TypeOK
<1>1. Init => TypeOK
  BY NoJobType DEF Init, TypeOK, Statuses, Labels, Outcomes, Txn
<1>2. QED
  BY <1>1, TypeStep, PTL DEF Spec

------------------------------------------------------------------------------
(* The kinds of step.  Most actions only start a call, end one without a     *)
(* trace, or let it advance; the proofs below need to look into five.        *)

Advance(s) == /\ pc[s] \in {"cap", "key"}
              /\ \E label \in {"key", "insert"} : Goto(s, label)

Reserve(s) == /\ pc[s] = "insert" /\ Goto(s, "lock")
              /\ job[s].key \notin CommittedKeys
              /\ job[s].key # NoKey =>
                   \A o \in Sessions : ~(InsertedKey(o) /\ job[o].key = job[s].key)

\* What callers ask for: a list of theirs, an issue, or a reversal without a key.
Asked(j) == /\ j.op = "post" => j.movs \in Postings
            /\ j.op = "mint" => \E amount \in MintAmounts : j.movs = Issue(amount)
            /\ j.op = "reverse" => j.key = NoKey

Begin(s) == \E j \in Job, label \in {"key", "insert", "cap", "target"} :
              /\ Start(s, j, label)
              /\ Asked(j)
              /\ j.op = "reverse" => label = "target" /\ j.target # 0
              /\ j.op # "reverse" => label # "target" /\ j.target = 0

\* The kinds of step there are, by what the invariants can tell apart.
LEMMA StepCases ==
  ASSUME TypeOK, [Next]_vars
  PROVE  \/ \E s \in Sessions :
              \/ Begin(s) \/ (\E reason \in Outcomes : Rollback(s, reason))
              \/ Advance(s) \/ Reserve(s) \/ LockTarget(s) \/ LockNext(s)
              \/ ApplyMovement(s) \/ Commit(s)
         \/ \E f \in Freezes : SetWalletStatus(f[1], f[2])
         \/ \E t \in DOMAIN txns : FlagForReview(t)
         \/ UNCHANGED vars
<1>1. ASSUME NEW s \in Sessions, PostTransaction(s) PROVE Begin(s)
  <2>1. PICK ms \in Postings, key \in Keys \union {NoKey} :
          Start(s, NewJob("post", key, ms, 0), AfterBegin(key))
    BY <1>1 DEF PostTransaction
  <2>2. NewJob("post", key, ms, 0) \in Job
    BY LedgerAssumption DEF NewJob, Job
  <2>3. QED
    BY <2>1, <2>2 DEF Begin, Asked, AfterBegin, NewJob
<1>2. ASSUME NEW s \in Sessions, Mint(s) PROVE Begin(s)
  <2>1. PICK amount \in MintAmounts, key \in Keys \union {NoKey} :
          Start(s, NewJob("mint", key, Issue(amount), 0), "cap")
    BY <1>2 DEF Mint
  <2>2. NewJob("mint", key, Issue(amount), 0) \in Job
    BY IssueType DEF NewJob, Job
  <2>3. QED
    BY <2>1, <2>2 DEF Begin, Asked, NewJob
<1>3. ASSUME NEW s \in Sessions, ReverseTransaction(s) PROVE Begin(s)
  <2>1. PICK t \in 1 .. Len(txns) + 1 :
          Start(s, NewJob("reverse", NoKey, <<>>, t), "target")
    BY <1>3 DEF ReverseTransaction
  <2>2. NewJob("reverse", NoKey, <<>>, t) \in Job
    BY DEF TypeOK, NewJob, Job
  <2>3. QED
    BY <2>1, <2>2 DEF Begin, Asked, NewJob
<1>4. ASSUME NEW s \in Sessions, CheckCap(s) \/ CheckKey(s)
      PROVE  Advance(s) \/ \E reason \in Outcomes : Rollback(s, reason)
  BY <1>4 DEF CheckCap, CheckKey, Advance, AfterBegin, Outcomes
<1>5. ASSUME NEW s \in Sessions, InsertTxn(s)
      PROVE  Reserve(s) \/ \E reason \in Outcomes : Rollback(s, reason)
  BY <1>5 DEF InsertTxn, Reserve, Outcomes
<1>6. ASSUME NEW s \in Sessions,
             \/ RejectMissing(s) \/ RejectReversed(s) \/ RejectFrozen(s)
             \/ RejectOverdraft(s) \/ Crash(s)
      PROVE  \E reason \in Outcomes : Rollback(s, reason)
  BY <1>6 DEF RejectMissing, RejectReversed, RejectFrozen, RejectOverdraft, Crash, Outcomes
<1>7. QED
  BY <1>1, <1>2, <1>3, <1>4, <1>5, <1>6 DEF Next, Step

------------------------------------------------------------------------------
(* How the history grows.                                                    *)

\* A COMMIT appends one transaction, and of the others it touches only the
\* status of the one that is reversed.
LEMMA CommitTxns ==
  ASSUME TypeOK, NEW s \in Sessions, Commit(s)
  PROVE  /\ DOMAIN txns = 1 .. Len(txns) /\ Len(txns) \in Nat
         /\ Len(txns') = Len(txns) + 1 /\ DOMAIN txns' = 1 .. Len(txns) + 1
         /\ txns'[Len(txns) + 1] = NewTxn(s)
         /\ \A t \in DOMAIN txns :
              /\ txns'[t].key = txns[t].key /\ txns'[t].entries = txns[t].entries
              /\ txns'[t].reverses = txns[t].reverses
              /\ txns'[t].status = IF t = job[s].target THEN "reversed" ELSE txns[t].status
<1> DEFINE before == [t \in DOMAIN txns |->
             IF t = job[s].target THEN [txns[t] EXCEPT !.status = "reversed"]
                                  ELSE txns[t]]
<1>1. DOMAIN txns = 1 .. Len(txns) /\ Len(txns) \in Nat
  BY DEF TypeOK
<1>2. \A t \in 1 .. Len(txns) : txns[t] \in Txn
  BY DEF TypeOK
<1>3. \A t \in 1 .. Len(txns) :
        /\ before[t].key = txns[t].key /\ before[t].entries = txns[t].entries
        /\ before[t].reverses = txns[t].reverses
        /\ before[t].status = IF t = job[s].target THEN "reversed" ELSE txns[t].status
  BY <1>1, <1>2 DEF Txn
<1>4. before \in Seq(Txn) /\ Len(before) = Len(txns)
  <2>1. \A t \in 1 .. Len(txns) : [txns[t] EXCEPT !.status = "reversed"] \in Txn
    BY <1>2 DEF Txn
  <2>2. QED
    BY <1>1, <1>2, <2>1
<1>5. txns' = Append(before, NewTxn(s))
  BY DEF Commit
<1> HIDE DEF before
<1>6. QED
  BY <1>1, <1>3, <1>4, <1>5

\* A review changes one status, of a completed transaction.
LEMMA FlagTxns ==
  ASSUME TypeOK, NEW t \in DOMAIN txns, FlagForReview(t)
  PROVE  /\ Len(txns') = Len(txns) /\ DOMAIN txns' = DOMAIN txns
         /\ \A u \in DOMAIN txns :
              /\ txns'[u].key = txns[u].key /\ txns'[u].entries = txns[u].entries
              /\ txns'[u].reverses = txns[u].reverses
              /\ txns'[u].status = IF u = t THEN "under_review" ELSE txns[u].status
         /\ txns[t].status = "completed"
<1>1. \A u \in DOMAIN txns : txns[u] \in Txn
  BY DEF TypeOK
<1>2. QED
  BY <1>1 DEF FlagForReview, Txn, TypeOK

\* What is committed stays as it is.
LEMMA AppendStep ==
  TypeOK /\ [Next]_vars =>
    /\ Len(txns) <= Len(txns')
    /\ \A t \in DOMAIN txns :
         /\ txns'[t].key = txns[t].key /\ txns'[t].entries = txns[t].entries
         /\ txns'[t].reverses = txns[t].reverses
         /\ txns[t].status = "reversed" => txns'[t].status = "reversed"
<1> SUFFICES ASSUME TypeOK, [Next]_vars
             PROVE  /\ Len(txns) <= Len(txns')
                    /\ \A t \in DOMAIN txns :
                         /\ txns'[t].key = txns[t].key /\ txns'[t].entries = txns[t].entries
                         /\ txns'[t].reverses = txns[t].reverses
                         /\ txns[t].status = "reversed" => txns'[t].status = "reversed"
  OBVIOUS
<1>1. Len(txns) \in Nat
  BY DEF TypeOK
<1>2. CASE txns' = txns
  BY <1>1, <1>2
<1>4. CASE \E s \in Sessions : Commit(s)
  BY <1>1, <1>4, CommitTxns
<1>5. CASE \E t \in DOMAIN txns : FlagForReview(t)
  BY <1>1, <1>5, FlagTxns
<1>6. QED
  BY <1>2, <1>4, <1>5, StepCases
     DEF Begin, Start, Rollback, database, Advance, Reserve, Goto, LockTarget, LockNext, TakeRow,
         ApplyMovement, WriteEntry, SetWalletStatus, session, vars

\* History is append-only in every behaviour.
THEOREM HistoryIsAppendOnly == Spec => AppendOnly
BY TypeCorrect, AppendStep, PTL DEF Spec, AppendOnly

------------------------------------------------------------------------------
(* Non-negative balances.                                                    *)

\* The working balances of every session respect the trigger too, so that a
\* COMMIT cannot break it.
NonNegativeInv == NonNegative /\ \A s \in Sessions, c \in Cells : ~Overdrawn(c, work[s][c])

\* No step overdraws a wallet.
LEMMA NonNegativeStep == TypeOK /\ NonNegativeInv /\ [Next]_vars => NonNegativeInv'
<1> SUFFICES ASSUME TypeOK, NonNegativeInv, [Next]_vars PROVE NonNegativeInv'
  OBVIOUS
<1>a. \A c : ~Overdrawn(c, 0)
  BY DEF Overdrawn
<1>1. ASSUME NEW s \in Sessions, Begin(s) \/ Advance(s) \/ Reserve(s) \/ LockTarget(s)
      PROVE  NonNegativeInv'
  BY <1>1 DEF Begin, Start, Advance, Reserve, Goto, LockTarget, NonNegativeInv,
              NonNegative, Overdrawn
<1>2. ASSUME NEW s \in Sessions, NEW reason \in Outcomes, Rollback(s, reason)
      PROVE  NonNegativeInv'
  <2>1. bal' = bal /\ work' = [work EXCEPT ![s] = Fresh]
    BY <1>2 DEF Rollback, End, database
  <2>2. QED
    BY <1>a, <2>1 DEF NonNegativeInv, NonNegative, Overdrawn, TypeOK, Fresh
<1>3. ASSUME NEW s \in Sessions, LockNext(s) PROVE NonNegativeInv'
  <2>1. PICK w \in Wallets : /\ bal' = bal
          /\ work' = [work EXCEPT ![s] =
               [c \in Cells |-> IF c[1] = w THEN bal[c] ELSE @[c]]]
    BY <1>3, NeededType DEF LockNext, TakeRow
  <2>2. QED
    BY <2>1 DEF NonNegativeInv, NonNegative, Overdrawn, TypeOK
<1>4. ASSUME NEW s \in Sessions, ApplyMovement(s) PROVE NonNegativeInv'
  <2>1. /\ bal' = bal /\ ~Overdrawn(NextCell(s), NewBalance(s))
        /\ work' = [work EXCEPT ![s][NextCell(s)] = NewBalance(s)]
    BY <1>4 DEF ApplyMovement, WriteEntry
  <2>2. QED
    BY <2>1 DEF NonNegativeInv, NonNegative, Overdrawn, TypeOK
<1>5. ASSUME NEW s \in Sessions, Commit(s) PROVE NonNegativeInv'
  <2>1. /\ bal' = [c \in Cells |-> IF c[1] \in held[s] THEN work[s][c] ELSE bal[c]]
        /\ work' = [work EXCEPT ![s] = Fresh]
    BY <1>5 DEF Commit, End
  <2>2. QED
    BY <1>a, <2>1 DEF NonNegativeInv, NonNegative, Overdrawn, TypeOK, Fresh
<1>6. ASSUME \/ \E f \in Freezes : SetWalletStatus(f[1], f[2])
             \/ \E t \in DOMAIN txns : FlagForReview(t)
             \/ UNCHANGED vars
      PROVE  NonNegativeInv'
  BY <1>6 DEF SetWalletStatus, FlagForReview, session, vars, NonNegativeInv,
              NonNegative, Overdrawn
<1>7. QED
  BY <1>1, <1>2, <1>3, <1>4, <1>5, <1>6, StepCases

\* However calls interleave, no wallet is ever overdrawn.
THEOREM NeverOverdrawn == Spec => []NonNegative
<1>1. Init => NonNegativeInv
  BY DEF Init, NonNegativeInv, NonNegative, Overdrawn, Fresh
<1>2. NonNegativeInv => NonNegative
  BY DEF NonNegativeInv
<1>3. QED
  BY <1>1, <1>2, TypeCorrect, NonNegativeStep, PTL DEF Spec

------------------------------------------------------------------------------
(* Idempotency keys.                                                         *)

\* The unique index covers open transactions: a key that a session has
\* inserted is neither committed nor inserted by another.
KeysInv ==
  /\ UniqueKeys
  /\ \A s \in Sessions : InsertedKey(s) /\ job[s].key # NoKey =>
       /\ job[s].key \notin CommittedKeys
       /\ \A o \in Sessions \ {s} : InsertedKey(o) => job[o].key # job[s].key

\* A step that commits nothing and reserves nothing keeps the keys unique.
LEMMA KeysKept ==
  ASSUME KeysInv, NEW s \in Sessions, DOMAIN txns' = DOMAIN txns,
         \A t \in DOMAIN txns : txns'[t].key = txns[t].key,
         \A o \in Sessions \ {s} : pc'[o] = pc[o] /\ job'[o] = job[o],
         pc'[s] \in {"lock", "apply"} => InsertedKey(s) /\ job'[s] = job[s]
  PROVE  KeysInv'
BY DEF KeysInv, UniqueKeys, InsertedKey, CommittedKeys

\* An INSERT waits for the keys that are reserved, so no two sessions ever
\* hold one key, nor a committed one.
LEMMA KeysStep == TypeOK /\ KeysInv /\ [Next]_vars => KeysInv'
<1> SUFFICES ASSUME TypeOK, KeysInv, [Next]_vars PROVE KeysInv'
  OBVIOUS
<1>1. ASSUME NEW s \in Sessions, Begin(s) \/ Advance(s) \/ LockTarget(s) PROVE KeysInv'
  <2>1. /\ txns' = txns /\ pc'[s] \notin {"lock", "apply"}
        /\ \A o \in Sessions \ {s} : pc'[o] = pc[o] /\ job'[o] = job[o]
    BY <1>1 DEF Begin, Start, Advance, Goto, LockTarget, TypeOK
  <2>2. QED
    BY <2>1, KeysKept
<1>2. ASSUME NEW s \in Sessions, NEW reason \in Outcomes, Rollback(s, reason) PROVE KeysInv'
  <2>1. /\ txns' = txns /\ pc'[s] \notin {"lock", "apply"}
        /\ \A o \in Sessions \ {s} : pc'[o] = pc[o] /\ job'[o] = job[o]
    BY <1>2 DEF Rollback, End, database, TypeOK
  <2>2. QED
    BY <2>1, KeysKept
<1>3. ASSUME NEW s \in Sessions, Reserve(s) PROVE KeysInv'
  <2>1. txns' = txns /\ job' = job /\ pc' = [pc EXCEPT ![s] = "lock"]
    BY <1>3 DEF Reserve, Goto
  <2>2. QED
    BY <1>3, <2>1 DEF Reserve, KeysInv, UniqueKeys, InsertedKey, CommittedKeys, TypeOK
<1>4. ASSUME NEW s \in Sessions, LockNext(s) \/ ApplyMovement(s) PROVE KeysInv'
  <2>1. /\ txns' = txns /\ job' = job /\ InsertedKey(s)
        /\ \A o \in Sessions \ {s} : pc'[o] = pc[o]
    BY <1>4 DEF LockNext, TakeRow, ApplyMovement, WriteEntry, InsertedKey, TypeOK
  <2>2. QED
    BY <2>1, KeysKept
<1>5. ASSUME NEW s \in Sessions, Commit(s) PROVE KeysInv'
  <2> DEFINE n == Len(txns) + 1
  <2>1. /\ InsertedKey(s)
        /\ pc' = [pc EXCEPT ![s] = "idle"] /\ job' = [job EXCEPT ![s] = NoJob]
    BY <1>5 DEF Commit, End, InsertedKey
  <2>2. /\ DOMAIN txns = 1 .. Len(txns) /\ DOMAIN txns' = 1 .. n /\ Len(txns) \in Nat
        /\ txns'[n] = NewTxn(s)
        /\ \A t \in DOMAIN txns : txns'[t].key = txns[t].key
    BY <1>5, CommitTxns
  <2>3. txns'[n].key = job[s].key
    BY <2>2 DEF NewTxn
  <2>4. CommittedKeys' = CommittedKeys \union ({job[s].key} \ {NoKey})
    BY <2>2, <2>3 DEF CommittedKeys
  <2>5. UniqueKeys'
    BY <2>1, <2>2, <2>3 DEF KeysInv, UniqueKeys, CommittedKeys
  <2>6. ASSUME NEW o \in Sessions, InsertedKey(o)', (job[o].key # NoKey)'
        PROVE  /\ (job[o].key \notin CommittedKeys)'
               /\ \A r \in Sessions \ {o} : InsertedKey(r)' => (job[r].key # job[o].key)'
    BY <2>1, <2>4, <2>6 DEF KeysInv, InsertedKey, TypeOK
  <2>7. QED
    BY <2>5, <2>6 DEF KeysInv
<1>6. ASSUME NEW t \in DOMAIN txns, FlagForReview(t) PROVE KeysInv'
  <2>1. /\ DOMAIN txns' = DOMAIN txns /\ UNCHANGED session
        /\ \A u \in DOMAIN txns : txns'[u].key = txns[u].key
    BY <1>6, FlagTxns DEF FlagForReview
  <2>2. QED
    BY <2>1 DEF session, KeysInv, UniqueKeys, InsertedKey, CommittedKeys
<1>7. ASSUME \/ \E f \in Freezes : SetWalletStatus(f[1], f[2])
             \/ UNCHANGED vars
      PROVE  KeysInv'
  BY <1>7 DEF SetWalletStatus, session, vars, KeysInv, UniqueKeys, InsertedKey, CommittedKeys
<1>8. QED
  BY <1>1, <1>2, <1>3, <1>4, <1>5, <1>6, <1>7, StepCases

\* An idempotency key belongs to one transaction at most.
THEOREM KeysMoveMoneyOnce == Spec => []UniqueKeys
<1>1. Init => KeysInv
  BY DEF Init, KeysInv, UniqueKeys, InsertedKey, CommittedKeys
<1>2. KeysInv => UniqueKeys
  BY DEF KeysInv
<1>3. QED
  BY <1>1, <1>2, TypeCorrect, KeysStep, PTL DEF Spec

------------------------------------------------------------------------------
(* Row locks.                                                                *)

\* Rows are locked in the order of their ids, by the session that needs them,
\* until its transaction ends; it writes entries once it has them all.
LocksInv ==
  /\ LockOrder
  /\ \A s \in Sessions :
       /\ pc[s] \notin {"lock", "apply"} => held[s] = {}
       /\ pc[s] = "apply" => Needed(s) \subseteq held[s]
       /\ pc[s] # "apply" => mine[s] = <<>>

\* Steps outside of the locking phase keep the order.
LEMMA LocksKept ==
  ASSUME LocksInv, NEW s \in Sessions, held' = [held EXCEPT ![s] = {}],
         held \in [Sessions -> SUBSET Wallets],
         mine' = [mine EXCEPT ![s] = <<>>], mine \in [Sessions -> Seq(Entry)],
         \A o \in Sessions \ {s} : pc'[o] = pc[o] /\ job'[o] = job[o],
         pc'[s] # "apply"
  PROVE  LocksInv'
<1>1. /\ held'[s] = {} /\ mine'[s] = <<>>
      /\ \A o \in Sessions \ {s} : /\ held'[o] = held[o] /\ mine'[o] = mine[o]
                                   /\ Needed(o)' = Needed(o)
  BY DEF Needed
<1>2. LockOrder'
  BY <1>1 DEF LocksInv, LockOrder
<1>3. QED
  BY <1>1, <1>2 DEF LocksInv

\* Every step keeps the order in which rows are locked.
LEMMA LocksStep == TypeOK /\ LocksInv /\ [Next]_vars => LocksInv'
<1> SUFFICES ASSUME TypeOK, LocksInv, [Next]_vars PROVE LocksInv'
  OBVIOUS
<1>1. ASSUME NEW s \in Sessions,
             Begin(s) \/ Advance(s) \/ Reserve(s) \/ LockTarget(s)
      PROVE  LocksInv'
  <2>1. /\ pc[s] \notin {"lock", "apply"} /\ pc'[s] # "apply"
        /\ held' = held /\ mine' = mine
        /\ \A o \in Sessions \ {s} : pc'[o] = pc[o] /\ job'[o] = job[o]
    BY <1>1 DEF Begin, Start, Advance, Reserve, Goto, LockTarget, TypeOK
  <2>2. held[s] = {} /\ mine[s] = <<>>
    BY <2>1 DEF LocksInv
  <2>3. held' = [held EXCEPT ![s] = {}] /\ mine' = [mine EXCEPT ![s] = <<>>]
    BY <2>1, <2>2 DEF TypeOK
  <2>4. QED
    BY <2>1, <2>3, LocksKept DEF TypeOK
<1>2. ASSUME NEW s \in Sessions, NEW result \in Outcomes, End(s, result) PROVE LocksInv'
  <2>1. /\ pc'[s] # "apply"
        /\ held' = [held EXCEPT ![s] = {}] /\ mine' = [mine EXCEPT ![s] = <<>>]
        /\ \A o \in Sessions \ {s} : pc'[o] = pc[o] /\ job'[o] = job[o]
    BY <1>2 DEF End, TypeOK
  <2>2. QED
    BY <2>1, LocksKept DEF TypeOK
<1>3. ASSUME NEW s \in Sessions, LockNext(s) PROVE LocksInv'
  <2>1. PICK w \in Needed(s) \ held[s] :
          /\ \A v \in Needed(s) \ held[s] : w <= v
          /\ \A o \in Sessions : w \notin held[o]
          /\ held' = [held EXCEPT ![s] = @ \union {w}]
          /\ pc' = [pc EXCEPT ![s] =
               IF Needed(s) \subseteq held[s] \union {w} THEN "apply" ELSE "lock"]
    BY <1>3 DEF LockNext, TakeRow
  <2>2. job' = job /\ mine' = mine /\ pc[s] = "lock" /\ \A o \in Sessions : Needed(o)' = Needed(o)
    BY <1>3 DEF LockNext, TakeRow, Needed
  <2>3. \A o \in Sessions : held[o] \subseteq Wallets /\ Needed(o) \subseteq Wallets
    BY NeededType DEF TypeOK
  <2>4. LockOrder'
    <3>1. \A o, r \in Sessions : o # r => held'[o] \intersect held'[r] = {}
      BY <2>1 DEF LocksInv, LockOrder, TypeOK
    <3>2. \A v \in held[s] \union {w}, x \in Needed(s) \ (held[s] \union {w}) : v < x
      BY <2>1, <2>2, <2>3 DEF LocksInv, LockOrder, Wallets
    <3>3. ASSUME NEW o \in Sessions, pc'[o] = "lock"
          PROVE  \A v \in held'[o], x \in Needed(o)' \ held'[o] : v < x
      BY <2>1, <2>2, <3>2, <3>3 DEF LocksInv, LockOrder, TypeOK
    <3>4. QED
      BY <3>1, <3>3 DEF LockOrder
  <2>5. QED
    BY <2>1, <2>2, <2>4 DEF LocksInv, TypeOK
<1>4. ASSUME NEW s \in Sessions, ApplyMovement(s) PROVE LocksInv'
  BY <1>4 DEF ApplyMovement, WriteEntry, LocksInv, LockOrder, Needed, TypeOK
<1>5. ASSUME \/ \E f \in Freezes : SetWalletStatus(f[1], f[2])
             \/ \E t \in DOMAIN txns : FlagForReview(t)
             \/ UNCHANGED vars
      PROVE  LocksInv'
  BY <1>5 DEF SetWalletStatus, FlagForReview, session, vars, LocksInv, LockOrder, Needed
<1>6. QED
  BY <1>1, <1>2, <1>3, <1>4, <1>5, StepCases DEF Rollback, Commit, Outcomes

\* Sessions exclude each other from wallet rows, and wait in id order.
THEOREM LocksAreOrdered == Spec => []LockOrder
<1>1. Init => LocksInv
  BY DEF Init, LocksInv, LockOrder
<1>2. LocksInv => LockOrder
  BY DEF LocksInv
<1>3. QED
  BY <1>1, <1>2, TypeCorrect, LocksStep, PTL DEF Spec

------------------------------------------------------------------------------
(* Isolation: what an open transaction has worked out fits what is committed.*)

On(e, c) == e.wallet = c[1] /\ e.kind = c[2]

\* The working balance of a locked wallet is the committed one, or the
\* balance_after of the session's last entry on it.
WorkOK(s) ==
  \A c \in Cells : c[1] \in held[s] =>
    \/ work[s][c] = bal[c] /\ \A i \in DOMAIN mine[s] : ~On(mine[s][i], c)
    \/ \E i \in DOMAIN mine[s] :
         /\ On(mine[s][i], c) /\ mine[s][i].after = work[s][c]
         /\ \A j \in DOMAIN mine[s] : On(mine[s][j], c) => j <= i

\* Each uncommitted entry continues the session's entry before it on its
\* cell, or the committed balance.
ChainOK(s) ==
  \A i \in DOMAIN mine[s], c \in Cells : On(mine[s][i], c) =>
    \/ /\ mine[s][i].after = bal[c] + mine[s][i].delta
       /\ \A j \in DOMAIN mine[s] : On(mine[s][j], c) => i <= j
    \/ \E j \in DOMAIN mine[s] :
         /\ On(mine[s][j], c) /\ j < i
         /\ mine[s][i].after = mine[s][j].after + mine[s][i].delta
         /\ \A k \in DOMAIN mine[s] : On(mine[s][k], c) => k <= j \/ i <= k

\* Sessions write where they hold the lock; without allowFrozen, to active
\* wallets only.
WritesOK(s) ==
  \A i \in DOMAIN mine[s] :
    /\ mine[s][i].wallet \in held[s]
    /\ ~AllowFrozen(s) => wstatus[mine[s][i].wallet] = "active"

IsolationInv == \A s \in Sessions : WorkOK(s) /\ ChainOK(s) /\ WritesOK(s)

\* A session that has written nothing and locked nothing is isolated.
LEMMA IdleIsolated ==
  ASSUME NEW s \in Sessions, mine[s] = <<>>, held[s] = {}
  PROVE  WorkOK(s) /\ ChainOK(s) /\ WritesOK(s)
BY DEF WorkOK, ChainOK, WritesOK

\* Nothing that a session relies on changes unless it holds the lock itself.
LEMMA IsolationKept ==
  ASSUME NEW s \in Sessions, WorkOK(s), ChainOK(s), WritesOK(s),
         mine'[s] = mine[s], held'[s] = held[s], work'[s] = work[s], job'[s] = job[s],
         \A c \in Cells : c[1] \in held[s] => bal'[c] = bal[c],
         \A w \in held[s] : wstatus'[w] = wstatus[w]
  PROVE  WorkOK(s)' /\ ChainOK(s)' /\ WritesOK(s)'
<1>1. WorkOK(s)'
  BY DEF WorkOK
<1>2. ChainOK(s)'
  BY DEF ChainOK, WritesOK, On
<1>3. WritesOK(s)'
  BY DEF WritesOK, AllowFrozen
<1>4. QED
  BY <1>1, <1>2, <1>3

\* A new entry continues the chain of its cell.
LEMMA ApplyIsolated ==
  ASSUME TypeOK, LocksInv, IsolationInv, NEW s \in Sessions, ApplyMovement(s)
  PROVE  WorkOK(s)' /\ ChainOK(s)' /\ WritesOK(s)'
<1> DEFINE n == Len(mine[s]) + 1
           e == mine'[s][n]
<1>1. /\ Next1(s) \in Movement /\ NextCell(s) \in Cells /\ NewBalance(s) \in Int
      /\ mine[s] \in Seq(Entry) /\ Len(mine[s]) \in Nat /\ DOMAIN mine[s] = 1 .. Len(mine[s])
  BY NextMovementType DEF ApplyMovement, WriteEntry, TypeOK
<1>2. /\ DOMAIN mine'[s] = 1 .. n
      /\ \A i \in DOMAIN mine[s] : mine'[s][i] = mine[s][i]
      /\ e.after = NewBalance(s) /\ e.delta = Next1(s).delta
      /\ e.wallet = NextCell(s)[1] /\ e.kind = NextCell(s)[2]
  BY <1>1 DEF ApplyMovement, WriteEntry, TypeOK, NextCell
<1>3. /\ work'[s][NextCell(s)] = NewBalance(s)
      /\ \A c \in Cells : c # NextCell(s) => work'[s][c] = work[s][c]
      /\ UNCHANGED <<bal, wstatus, held, job>>
  BY <1>1 DEF ApplyMovement, WriteEntry, TypeOK
<1>4. \A c \in Cells : On(e, c) <=> c = NextCell(s)
  BY <1>1, <1>2 DEF On, Cells
<1>5. Next1(s).wallet \in held[s]
  BY <1>1 DEF ApplyMovement, WriteEntry, LocksInv, Needed, Next1, TypeOK, Job
<1>6. NextCell(s)[1] \in held[s]
  BY <1>5 DEF NextCell
<1> HIDE DEF n, e
<1>7. n = Len(mine[s]) + 1 /\ e = mine'[s][n] /\ n \notin DOMAIN mine[s]
  BY <1>1 DEF n, e
<1>8. WorkOK(s)'
  <2> SUFFICES ASSUME NEW c \in Cells, c[1] \in held[s]
               PROVE  \/ work'[s][c] = bal[c] /\ \A i \in DOMAIN mine'[s] : ~On(mine'[s][i], c)
                      \/ \E i \in DOMAIN mine'[s] :
                           /\ On(mine'[s][i], c) /\ mine'[s][i].after = work'[s][c]
                           /\ \A j \in DOMAIN mine'[s] : On(mine'[s][j], c) => j <= i
    BY <1>3 DEF WorkOK, On
  <2>1. CASE c = NextCell(s)
    BY <2>1, <1>1, <1>2, <1>3, <1>4, <1>7
  <2>2. CASE c # NextCell(s)
    <3>1. ~On(mine'[s][n], c)
      BY <2>2, <1>4, <1>7
    <3>2. WorkOK(s)
      BY DEF IsolationInv
    <3>3. \A i \in DOMAIN mine'[s] : On(mine'[s][i], c) => i \in DOMAIN mine[s]
      BY <3>1, <1>1, <1>2, <1>7
    <3>4. /\ work'[s][c] = work[s][c] /\ bal'[c] = bal[c]
          /\ \A i \in DOMAIN mine[s] : i \in DOMAIN mine'[s] /\ mine'[s][i] = mine[s][i]
      <4>1. work'[s][c] = work[s][c] /\ bal'[c] = bal[c]
        BY <2>2, <1>3
      <4>2. DOMAIN mine[s] \subseteq DOMAIN mine'[s]
        BY <1>1, <1>2, <1>7
      <4>3. QED
        BY <4>1, <4>2, <1>2
    <3>5. \/ work[s][c] = bal[c] /\ \A i \in DOMAIN mine[s] : ~On(mine[s][i], c)
          \/ \E i \in DOMAIN mine[s] :
               /\ On(mine[s][i], c) /\ mine[s][i].after = work[s][c]
               /\ \A j \in DOMAIN mine[s] : On(mine[s][j], c) => j <= i
      BY <3>2 DEF WorkOK
    <3>6. CASE work[s][c] = bal[c] /\ \A i \in DOMAIN mine[s] : ~On(mine[s][i], c)
      BY <3>3, <3>4, <3>6
    <3>7. CASE \E i \in DOMAIN mine[s] :
                 /\ On(mine[s][i], c) /\ mine[s][i].after = work[s][c]
                 /\ \A j \in DOMAIN mine[s] : On(mine[s][j], c) => j <= i
      BY <3>3, <3>4, <3>7
    <3>8. QED
      BY <3>5, <3>6, <3>7
  <2>3. QED
    BY <2>1, <2>2
<1>9. ChainOK(s)'
  <2> SUFFICES ASSUME NEW i \in DOMAIN mine'[s], NEW c \in Cells, On(mine'[s][i], c)
               PROVE  \/ /\ mine'[s][i].after = bal[c] + mine'[s][i].delta
                         /\ \A j \in DOMAIN mine'[s] : On(mine'[s][j], c) => i <= j
                      \/ \E j \in DOMAIN mine'[s] :
                           /\ On(mine'[s][j], c) /\ j < i
                           /\ mine'[s][i].after = mine'[s][j].after + mine'[s][i].delta
                           /\ \A k \in DOMAIN mine'[s] : On(mine'[s][k], c) => k <= j \/ i <= k
    BY <1>3 DEF ChainOK, On
  <2>1. CASE i = n
    <3>1. c = NextCell(s) /\ WorkOK(s)
      BY <2>1, <1>4, <1>7 DEF IsolationInv
    <3>2. mine'[s][i].after = work[s][c] + mine'[s][i].delta
      BY <2>1, <3>1, <1>2, <1>7 DEF NewBalance
    <3>3. \A j \in DOMAIN mine'[s] : j = n \/ (j \in DOMAIN mine[s] /\ j < n)
      BY <1>1, <1>2, <1>7
    <3>4. CASE work[s][c] = bal[c] /\ \A j \in DOMAIN mine[s] : ~On(mine[s][j], c)
      BY <2>1, <3>2, <3>3, <3>4, <1>1, <1>2, <1>7
    <3>5. CASE \E j \in DOMAIN mine[s] :
                 /\ On(mine[s][j], c) /\ mine[s][j].after = work[s][c]
                 /\ \A k \in DOMAIN mine[s] : On(mine[s][k], c) => k <= j
      <4>1. PICK j \in DOMAIN mine[s] :
                 /\ On(mine[s][j], c) /\ mine[s][j].after = work[s][c]
                 /\ \A k \in DOMAIN mine[s] : On(mine[s][k], c) => k <= j
        BY <3>5
      <4>2. /\ j \in DOMAIN mine'[s] /\ On(mine'[s][j], c) /\ j < i
            /\ mine'[s][i].after = mine'[s][j].after + mine'[s][i].delta
        BY <2>1, <3>2, <3>3, <4>1, <1>1, <1>2, <1>7
      <4>3. \A k \in DOMAIN mine'[s] : On(mine'[s][k], c) => k <= j \/ i <= k
        BY <2>1, <3>3, <4>1, <1>1, <1>2, <1>7
      <4>4. QED
        BY <4>2, <4>3
    <3>6. QED
      BY <3>1, <3>4, <3>5, <1>6 DEF WorkOK
  <2>2. CASE i # n
    <3>1. i \in DOMAIN mine[s] /\ ChainOK(s)
      BY <2>2, <1>1, <1>2, <1>7 DEF IsolationInv
    <3>2. \A j \in DOMAIN mine'[s] : j = n \/ (j \in DOMAIN mine[s] /\ mine'[s][j] = mine[s][j])
      BY <1>1, <1>2, <1>7
    <3>3. i < n /\ i \in DOMAIN mine'[s] /\ On(mine[s][i], c) /\ mine'[s][i] = mine[s][i]
      BY <3>1, <1>1, <1>2, <1>7
    <3>4. CASE /\ mine[s][i].after = bal[c] + mine[s][i].delta
               /\ \A j \in DOMAIN mine[s] : On(mine[s][j], c) => i <= j
      <4>1. \A j \in DOMAIN mine'[s] : On(mine'[s][j], c) => i <= j
        BY <3>2, <3>3, <3>4, <1>1, <1>7
      <4>2. QED
        BY <3>3, <3>4, <4>1
    <3>5. CASE \E j \in DOMAIN mine[s] :
                 /\ On(mine[s][j], c) /\ j < i
                 /\ mine[s][i].after = mine[s][j].after + mine[s][i].delta
                 /\ \A k \in DOMAIN mine[s] : On(mine[s][k], c) => k <= j \/ i <= k
      <4>1. PICK j \in DOMAIN mine[s] :
                 /\ On(mine[s][j], c) /\ j < i
                 /\ mine[s][i].after = mine[s][j].after + mine[s][i].delta
                 /\ \A k \in DOMAIN mine[s] : On(mine[s][k], c) => k <= j \/ i <= k
        BY <3>5
      <4>2. /\ j \in DOMAIN mine'[s] /\ On(mine'[s][j], c) /\ mine'[s][j] = mine[s][j]
        BY <3>2, <4>1, <1>1, <1>2, <1>7, SMTT(20) DEF On
      <4>3. \A k \in DOMAIN mine'[s] : On(mine'[s][k], c) => k <= j \/ i <= k
        BY <3>2, <3>3, <4>1, <1>1, <1>7
      <4>4. QED
        BY <3>3, <4>1, <4>2, <4>3
    <3>6. QED
      BY <3>1, <3>3, <3>4, <3>5 DEF ChainOK
  <2>3. QED
    BY <2>1, <2>2
<1>10. WritesOK(s)'
  <2>1. ~AllowFrozen(s) => wstatus[Next1(s).wallet] = "active"
    BY DEF ApplyMovement, WriteEntry
  <2>2. WritesOK(s)
    BY DEF IsolationInv
  <2>3. e.wallet = Next1(s).wallet
    BY <1>2 DEF NextCell
  <2>4. QED
    BY <2>1, <2>2, <2>3, <1>1, <1>2, <1>3, <1>5, <1>7, SMTT(20) DEF WritesOK, AllowFrozen
<1>11. QED
  BY <1>8, <1>9, <1>10

\* Every step leaves every session isolated.
LEMMA IsolationStep ==
  TypeOK /\ LocksInv /\ IsolationInv /\ [Next]_vars => IsolationInv'
<1> SUFFICES ASSUME TypeOK, LocksInv, IsolationInv, [Next]_vars PROVE IsolationInv'
  OBVIOUS
<1>1. ASSUME NEW s \in Sessions,
             Begin(s) \/ Advance(s) \/ Reserve(s) \/ LockTarget(s)
      PROVE  IsolationInv'
  <2>1. /\ pc[s] \notin {"lock", "apply"}
        /\ UNCHANGED <<bal, wstatus, held, mine, work>>
        /\ \A o \in Sessions \ {s} : job'[o] = job[o]
    BY <1>1 DEF Begin, Start, Advance, Reserve, Goto, LockTarget, TypeOK
  <2>2. held[s] = {} /\ mine[s] = <<>>
    BY <2>1 DEF LocksInv
  <2>3. WorkOK(s)' /\ ChainOK(s)' /\ WritesOK(s)'
    BY <2>1, <2>2 DEF WorkOK, ChainOK, WritesOK
  <2>4. ASSUME NEW o \in Sessions \ {s} PROVE WorkOK(o)' /\ ChainOK(o)' /\ WritesOK(o)'
    BY <2>1, IsolationKept DEF IsolationInv
  <2>5. QED
    BY <2>3, <2>4 DEF IsolationInv
<1>2. ASSUME NEW s \in Sessions, NEW result \in Outcomes, End(s, result),
             UNCHANGED wstatus,
             \A o \in Sessions \ {s}, c \in Cells : c[1] \in held[o] => bal'[c] = bal[c]
      PROVE  IsolationInv'
  <2>1. /\ held'[s] = {} /\ mine'[s] = <<>>
        /\ \A o \in Sessions \ {s} : /\ held'[o] = held[o] /\ mine'[o] = mine[o]
                                     /\ work'[o] = work[o] /\ job'[o] = job[o]
    BY <1>2 DEF End, TypeOK
  <2>2. WorkOK(s)' /\ ChainOK(s)' /\ WritesOK(s)'
    BY <2>1 DEF WorkOK, ChainOK, WritesOK
  <2>3. ASSUME NEW o \in Sessions \ {s} PROVE WorkOK(o)' /\ ChainOK(o)' /\ WritesOK(o)'
    BY <1>2, <2>1, IsolationKept DEF IsolationInv
  <2>4. QED
    BY <2>2, <2>3 DEF IsolationInv
<1>3. ASSUME NEW s \in Sessions, NEW reason \in Outcomes, Rollback(s, reason)
      PROVE  IsolationInv'
  BY <1>2, <1>3 DEF Rollback, database
<1>4. ASSUME NEW s \in Sessions, Commit(s) PROVE IsolationInv'
  <2>1. ASSUME NEW o \in Sessions \ {s}, NEW c \in Cells, c[1] \in held[o]
        PROVE  bal'[c] = bal[c]
    <3>1. c[1] \notin held[s]
      BY <2>1 DEF LocksInv, LockOrder
    <3>2. QED
      BY <1>4, <3>1 DEF Commit
  <2>2. End(s, "posted") /\ UNCHANGED wstatus
    BY <1>4 DEF Commit
  <2>3. QED
    BY <1>2, <2>1, <2>2 DEF Outcomes
<1>5. ASSUME NEW s \in Sessions, LockNext(s) PROVE IsolationInv'
  <2>1. PICK w \in Needed(s) \ held[s] :
          /\ held' = [held EXCEPT ![s] = @ \union {w}]
          /\ work' = [work EXCEPT ![s] =
               [c \in Cells |-> IF c[1] = w THEN bal[c] ELSE @[c]]]
    BY <1>5 DEF LockNext, TakeRow
  <2>2. mine[s] = <<>> /\ UNCHANGED <<bal, wstatus, job, mine>>
    BY <1>5 DEF LockNext, TakeRow, LocksInv
  <2>3. held'[s] = held[s] \union {w}
    BY <2>1 DEF TypeOK
  <2>4. \A c \in Cells : work'[s][c] = IF c[1] = w THEN bal[c] ELSE work[s][c]
    BY <2>1 DEF TypeOK
  <2>5. \A c \in Cells : c[1] \in held[s] => work[s][c] = bal[c]
    BY <2>2 DEF IsolationInv, WorkOK
  <2>6. WorkOK(s)' /\ ChainOK(s)' /\ WritesOK(s)'
    BY <2>2, <2>3, <2>4, <2>5 DEF WorkOK, ChainOK, WritesOK
  <2>7. ASSUME NEW o \in Sessions \ {s} PROVE WorkOK(o)' /\ ChainOK(o)' /\ WritesOK(o)'
    <3>1. held'[o] = held[o] /\ work'[o] = work[o]
      BY <2>1 DEF TypeOK
    <3>2. QED
      BY <2>2, <3>1, IsolationKept DEF IsolationInv
  <2>8. QED
    BY <2>6, <2>7 DEF IsolationInv
<1>6. ASSUME NEW s \in Sessions, ApplyMovement(s) PROVE IsolationInv'
  <2>1. ASSUME NEW o \in Sessions \ {s} PROVE WorkOK(o)' /\ ChainOK(o)' /\ WritesOK(o)'
    <3>1. /\ mine'[o] = mine[o] /\ work'[o] = work[o]
          /\ UNCHANGED <<bal, wstatus, held, job>>
      BY <1>6 DEF ApplyMovement, WriteEntry, TypeOK
    <3>2. QED
      BY <3>1, IsolationKept DEF IsolationInv
  <2>2. QED
    BY <1>6, <2>1, ApplyIsolated DEF IsolationInv
<1>7. ASSUME NEW f \in Freezes, SetWalletStatus(f[1], f[2]) PROVE IsolationInv'
  <2>1. /\ UNCHANGED <<bal, held, mine, work, job>>
        /\ \A o \in Sessions : \A w \in held[o] : wstatus'[w] = wstatus[w]
    BY <1>7 DEF SetWalletStatus, session, TypeOK
  <2>2. QED
    BY <2>1, IsolationKept DEF IsolationInv
<1>8. ASSUME (\E t \in DOMAIN txns : FlagForReview(t)) \/ UNCHANGED vars
      PROVE  IsolationInv'
  <2>1. UNCHANGED <<bal, wstatus, held, mine, work, job>>
    BY <1>8 DEF FlagForReview, session, vars
  <2>2. QED
    BY <2>1, IsolationKept DEF IsolationInv
<1>9. QED
  BY <1>1, <1>3, <1>4, <1>5, <1>6, <1>7, <1>8, StepCases

\* Sessions are isolated in every behaviour.
LEMMA Isolated == Spec => [](LocksInv /\ IsolationInv)
<1>1. Init => LocksInv /\ IsolationInv
  BY DEF Init, LocksInv, LockOrder, IsolationInv, WorkOK, ChainOK, WritesOK
<1>2. QED
  BY <1>1, TypeCorrect, LocksStep, IsolationStep, PTL DEF Spec

\* A COMMIT without allowFrozen moves balances of active wallets only.
LEMMA FrozenStep ==
  TypeOK /\ LocksInv /\ IsolationInv /\ [Next]_vars =>
    \A c \in Cells : wstatus[c[1]] # "active" /\ bal'[c] # bal[c] =>
      \E s \in Sessions : AllowFrozen(s) /\ outcome'[s] = "posted" /\ c[1] \in held[s]
<1> SUFFICES ASSUME TypeOK, LocksInv, IsolationInv, [Next]_vars, NEW c \in Cells,
                    wstatus[c[1]] # "active", bal'[c] # bal[c]
             PROVE  \E s \in Sessions :
                      AllowFrozen(s) /\ outcome'[s] = "posted" /\ c[1] \in held[s]
  OBVIOUS
<1>1. PICK s \in Sessions : Commit(s)
  BY StepCases DEF Begin, Start, Rollback, database, Advance, Reserve, Goto, LockTarget,
       LockNext, TakeRow, ApplyMovement, WriteEntry, SetWalletStatus, FlagForReview, session, vars
<1>2. bal'[c] = (IF c[1] \in held[s] THEN work[s][c] ELSE bal[c]) /\ outcome'[s] = "posted"
  BY <1>1 DEF Commit, End, TypeOK
<1>3. PICK i \in DOMAIN mine[s] : mine[s][i].wallet = c[1]
  BY <1>2 DEF IsolationInv, WorkOK, On
<1>4. AllowFrozen(s)
  BY <1>3 DEF IsolationInv, WritesOK
<1>5. QED
  BY <1>2, <1>4

\* A frozen wallet stays as it is in every behaviour.
THEOREM FrozenWalletsStay == Spec => FrozenStays
BY TypeCorrect, Isolated, FrozenStep, PTL DEF Spec, FrozenStays

------------------------------------------------------------------------------
(* Replay: the committed entries explain every committed balance.            *)

\* Where entries are and what they say does not depend on a status.
LEMMA SameEntries ==
  ASSUME DOMAIN txns' = DOMAIN txns, bal' = bal, Replayable,
         \A t \in DOMAIN txns : txns'[t].entries = txns[t].entries
  PROVE  Replayable'
<1>1. Positions' = Positions
  BY DEF Positions
<1>2. \A p \in Positions : p[1] \in DOMAIN txns
  BY DEF Positions
<1>3. \A p \in Positions : EntryAt(p)' = EntryAt(p) /\ CellAt(p)' = CellAt(p)
  BY <1>2 DEF EntryAt, CellAt
<1>4. \A p, q \in Positions : Follows(q, p)' <=> Follows(q, p)
  BY <1>1, <1>3 DEF Follows
<1>5. QED
  BY <1>1, <1>3, <1>4 DEF Replayable

\* The entries that a COMMIT adds continue the committed ones, cell by cell.
LEMMA CommitReplayable ==
  ASSUME TypeOK, LocksInv, IsolationInv, Replayable, NEW s \in Sessions, Commit(s)
  PROVE  Replayable'
<1>0. PICK n \in Nat : n = Len(txns) + 1
  BY DEF TypeOK
<1>1. /\ DOMAIN txns = 1 .. Len(txns) /\ Len(txns) \in Nat /\ DOMAIN txns' = 1 .. n
      /\ txns'[n].entries = mine[s]
      /\ \A t \in DOMAIN txns : txns'[t].entries = txns[t].entries
  <2>1. txns'[n] = NewTxn(s)
    BY <1>0, CommitTxns
  <2>2. QED
    BY <1>0, <2>1, CommitTxns DEF NewTxn
<1>2. mine[s] \in Seq(Entry) /\ Len(mine[s]) \in Nat /\ DOMAIN mine[s] = 1 .. Len(mine[s])
  BY DEF TypeOK
<1>3. n \in Nat /\ \A t \in DOMAIN txns : t \in Nat /\ t < n
  BY <1>0, <1>1
<1>4. \A p : p \in Positions' <=> \/ p \in Positions
                                  \/ \E i \in DOMAIN mine[s] : p = <<n, i>>
  <2>1. \A t \in DOMAIN txns' : t = n \/ t \in DOMAIN txns
    BY <1>0, <1>1
  <2>2. n \in DOMAIN txns' /\ \A t \in DOMAIN txns : t \in DOMAIN txns'
    BY <1>0, <1>1
  <2>3. QED
    BY <2>1, <2>2, <1>1 DEF Positions
<1>5. \A p \in Positions : /\ p[1] \in Nat /\ p[1] < n /\ p[2] \in Nat
                           /\ p \in Positions' /\ EntryAt(p) \in Entry
                           /\ EntryAt(p)' = EntryAt(p) /\ CellAt(p)' = CellAt(p)
                           /\ CellAt(p) \in Cells
  <2> SUFFICES ASSUME NEW p \in Positions
               PROVE  /\ p[1] \in Nat /\ p[1] < n /\ p[2] \in Nat
                      /\ p \in Positions' /\ EntryAt(p) \in Entry
                      /\ EntryAt(p)' = EntryAt(p) /\ CellAt(p)' = CellAt(p)
                      /\ CellAt(p) \in Cells
    OBVIOUS
  <2>1. p[1] \in DOMAIN txns /\ p[2] \in DOMAIN txns[p[1]].entries
    BY DEF Positions
  <2>2. txns[p[1]].entries \in Seq(Entry)
    <3>1. txns[p[1]] \in Txn
      BY <2>1 DEF TypeOK
    <3>2. QED
      BY <3>1 DEF Txn
  <2>3. EntryAt(p) \in Entry /\ p[2] \in Nat
    BY <2>1, <2>2 DEF EntryAt
  <2>4. CellAt(p) \in Cells
    BY <2>3 DEF CellAt, Entry, Cells
  <2>5. QED
    BY <2>1, <2>3, <2>4, <1>1, <1>3, <1>4 DEF EntryAt, CellAt
<1>6. \A i \in DOMAIN mine[s] :
        /\ <<n, i>> \in Positions' /\ EntryAt(<<n, i>>)' = mine[s][i]
        /\ CellAt(<<n, i>>)' = <<mine[s][i].wallet, mine[s][i].kind>>
        /\ CellAt(<<n, i>>)' \in Cells /\ mine[s][i] \in Entry
        /\ On(mine[s][i], CellAt(<<n, i>>)')
  <2> SUFFICES ASSUME NEW i \in DOMAIN mine[s]
               PROVE  /\ <<n, i>> \in Positions' /\ EntryAt(<<n, i>>)' = mine[s][i]
                      /\ CellAt(<<n, i>>)' = <<mine[s][i].wallet, mine[s][i].kind>>
                      /\ CellAt(<<n, i>>)' \in Cells /\ mine[s][i] \in Entry
                      /\ On(mine[s][i], CellAt(<<n, i>>)')
    OBVIOUS
  <2>1. mine[s][i] \in Entry
    BY <1>2
  <2>2. EntryAt(<<n, i>>)' = mine[s][i]
    BY <1>1 DEF EntryAt
  <2>3. CellAt(<<n, i>>)' = <<mine[s][i].wallet, mine[s][i].kind>>
    BY <2>2 DEF CellAt
  <2>4. QED
    BY <2>1, <2>2, <2>3, <1>4 DEF Entry, Cells, On
<1>7. \A i \in DOMAIN mine[s], c \in Cells : On(mine[s][i], c) <=> CellAt(<<n, i>>)' = c
  BY <1>6 DEF On, Cells
<1>8. \A p, q \in Positions : Follows(q, p) => Follows(q, p)'
  <2> SUFFICES ASSUME NEW p \in Positions, NEW q \in Positions, Follows(q, p)
               PROVE  Follows(q, p)'
    OBVIOUS
  <2>1. \A r \in Positions' : Before(r, q) => r \in Positions
    BY <1>4, <1>5, <1>3 DEF Before
  <2>2. QED
    BY <2>1, <1>5 DEF Follows, Before
<1>9. \A c \in Cells : bal'[c] = IF c[1] \in held[s] THEN work[s][c] ELSE bal[c]
  BY DEF Commit
<1>10. WorkOK(s) /\ ChainOK(s) /\ WritesOK(s)
  BY DEF IsolationInv
<1>11. ASSUME NEW q \in Positions
       PROVE  \/ EntryAt(q)'.after = EntryAt(q)'.delta /\ ~\E p \in Positions' : Follows(q, p)'
              \/ \E p \in Positions' :
                   Follows(q, p)' /\ EntryAt(q)'.after = EntryAt(p)'.after + EntryAt(q)'.delta
  <2>1. CASE EntryAt(q).after = EntryAt(q).delta /\ ~\E p \in Positions : Follows(q, p)
    <3>1. ASSUME NEW p \in Positions', Follows(q, p)' PROVE FALSE
      <4>1. p \in Positions
        BY <3>1, <1>3, <1>4, <1>5 DEF Follows, Before
      <4>2. Follows(q, p)
        BY <3>1, <4>1, <1>5 DEF Follows, Before
      <4>3. QED
        BY <2>1, <4>1, <4>2
    <3>2. QED
      BY <2>1, <3>1, <1>5
  <2>2. CASE \E p \in Positions :
               Follows(q, p) /\ EntryAt(q).after = EntryAt(p).after + EntryAt(q).delta
    BY <2>2, <1>5, <1>8
  <2>3. QED
    BY <2>1, <2>2 DEF Replayable
<1>12. ASSUME NEW i \in DOMAIN mine[s]
       PROVE  \/ /\ EntryAt(<<n, i>>)'.after = EntryAt(<<n, i>>)'.delta
                 /\ ~\E p \in Positions' : Follows(<<n, i>>, p)'
              \/ \E p \in Positions' :
                   /\ Follows(<<n, i>>, p)'
                   /\ EntryAt(<<n, i>>)'.after = EntryAt(p)'.after + EntryAt(<<n, i>>)'.delta
  <2>1. PICK c \in Cells : /\ c = CellAt(<<n, i>>)' /\ On(mine[s][i], c)
                           /\ EntryAt(<<n, i>>)' = mine[s][i]
    BY <1>6
  <2>2. CASE /\ mine[s][i].after = bal[c] + mine[s][i].delta
             /\ \A j \in DOMAIN mine[s] : On(mine[s][j], c) => i <= j
    <3>1. \A p \in Positions' : CellAt(p)' = c /\ Before(p, <<n, i>>) => p \in Positions
      BY <2>1, <2>2, <1>2, <1>3, <1>4, <1>7 DEF Before
    <3>2. CASE bal[c] = 0 /\ ~\E p \in Positions : CellAt(p) = c
      <4>1. ~\E p \in Positions' : Follows(<<n, i>>, p)'
        BY <2>1, <3>1, <3>2, <1>5 DEF Follows, Before
      <4>2. mine[s][i].after = mine[s][i].delta
        <5>1. mine[s][i] \in Entry
          BY <1>6
        <5>2. mine[s][i].delta \in Int
          BY <5>1 DEF Entry
        <5>3. QED
          BY <2>2, <3>2, <5>2
      <4>3. QED
        BY <4>1, <4>2, <2>1
    <3>3. CASE \E p \in Positions :
                 /\ CellAt(p) = c /\ EntryAt(p).after = bal[c]
                 /\ ~\E q \in Positions : CellAt(q) = c /\ Before(p, q)
      <4>1. PICK p \in Positions :
                 /\ CellAt(p) = c /\ EntryAt(p).after = bal[c]
                 /\ ~\E q \in Positions : CellAt(q) = c /\ Before(p, q)
        BY <3>3
      <4>2. Before(p, <<n, i>>)
        BY <1>5 DEF Before
      <4>3. Follows(<<n, i>>, p)'
        BY <2>1, <3>1, <4>1, <4>2, <1>5 DEF Follows, Before
      <4>4. p \in Positions' /\ EntryAt(p)'.after = bal[c]
        BY <4>1, <1>5
      <4>5. QED
        BY <4>3, <4>4, <2>1, <2>2
    <3>4. QED
      BY <3>2, <3>3, <2>1 DEF Replayable
  <2>3. CASE \E j \in DOMAIN mine[s] :
               /\ On(mine[s][j], c) /\ j < i
               /\ mine[s][i].after = mine[s][j].after + mine[s][i].delta
               /\ \A k \in DOMAIN mine[s] : On(mine[s][k], c) => k <= j \/ i <= k
    <3>1. PICK j \in DOMAIN mine[s] :
               /\ On(mine[s][j], c) /\ j < i
               /\ mine[s][i].after = mine[s][j].after + mine[s][i].delta
               /\ \A k \in DOMAIN mine[s] : On(mine[s][k], c) => k <= j \/ i <= k
      BY <2>3
    <3>2. <<n, j>> \in Positions' /\ EntryAt(<<n, j>>)' = mine[s][j] /\ CellAt(<<n, j>>)' = c
      BY <3>1, <2>1, <1>6, <1>7
    <3>3. Before(<<n, j>>, <<n, i>>)
      BY <3>1 DEF Before
    <3>4. ASSUME NEW r \in Positions', CellAt(r)' = c,
                 Before(<<n, j>>, r), Before(r, <<n, i>>)
          PROVE  FALSE
      <4>1. PICK k \in DOMAIN mine[s] : r = <<n, k>>
        BY <3>4, <1>3, <1>4, <1>5 DEF Before
      <4>2. On(mine[s][k], c) /\ j < k /\ k < i
        BY <3>4, <4>1, <2>1, <1>3, <1>7 DEF Before
      <4>3. QED
        BY <3>1, <4>2, <1>2
    <3>5. Follows(<<n, i>>, <<n, j>>)'
      BY <2>1, <3>2, <3>3, <3>4 DEF Follows, Before
    <3>6. QED
      BY <3>1, <3>2, <3>5, <2>1
  <2>4. QED
    BY <2>1, <2>2, <2>3, <1>10 DEF ChainOK
<1>13. ASSUME NEW c \in Cells
       PROVE  \/ bal'[c] = 0 /\ ~\E p \in Positions' : CellAt(p)' = c
              \/ \E p \in Positions' :
                   /\ CellAt(p)' = c /\ EntryAt(p)'.after = bal'[c]
                   /\ ~\E q \in Positions' : CellAt(q)' = c /\ Before(p, q)
  <2>1. CASE \A i \in DOMAIN mine[s] : ~On(mine[s][i], c)
    <3>1. bal'[c] = bal[c]
      BY <2>1, <1>9, <1>10 DEF WorkOK
    <3>2. \A p \in Positions' : CellAt(p)' = c => p \in Positions
      BY <2>1, <1>4, <1>7
    <3>3. QED
      BY <3>1, <3>2, <1>5 DEF Replayable
  <2>2. CASE \E i \in DOMAIN mine[s] : On(mine[s][i], c)
    <3>1. c[1] \in held[s]
      BY <2>2, <1>10 DEF WritesOK, On
    <3>2. PICK i \in DOMAIN mine[s] :
            /\ On(mine[s][i], c) /\ mine[s][i].after = work[s][c]
            /\ \A j \in DOMAIN mine[s] : On(mine[s][j], c) => j <= i
      BY <2>2, <3>1, <1>10 DEF WorkOK
    <3>3. /\ <<n, i>> \in Positions' /\ CellAt(<<n, i>>)' = c
          /\ EntryAt(<<n, i>>)'.after = bal'[c]
      BY <3>1, <3>2, <1>6, <1>7, <1>9
    <3>4. ASSUME NEW q \in Positions', CellAt(q)' = c, Before(<<n, i>>, q) PROVE FALSE
      <4>1. PICK k \in DOMAIN mine[s] : q = <<n, k>>
        BY <3>4, <1>3, <1>4, <1>5 DEF Before
      <4>2. QED
        BY <3>2, <3>4, <4>1, <1>2, <1>3, <1>7 DEF Before
    <3>5. QED
      BY <3>3, <3>4
  <2>3. QED
    BY <2>1, <2>2
<1>14. QED
  BY <1>4, <1>11, <1>12, <1>13 DEF Replayable, Before

\* No step breaks the replay.
LEMMA ReplayStep ==
  TypeOK /\ LocksInv /\ IsolationInv /\ Replayable /\ [Next]_vars => Replayable'
<1> SUFFICES ASSUME TypeOK, LocksInv, IsolationInv, Replayable, [Next]_vars
             PROVE  Replayable'
  OBVIOUS
<1>1. CASE bal' = bal /\ txns' = txns
  BY <1>1, SameEntries
<1>2. CASE \E t \in DOMAIN txns : FlagForReview(t)
  BY <1>2, FlagTxns, SameEntries DEF FlagForReview
<1>3. CASE \E s \in Sessions : Commit(s)
  BY <1>3, CommitReplayable
<1>4. QED
  BY <1>1, <1>2, <1>3, StepCases
     DEF Begin, Start, Rollback, database, Advance, Reserve, Goto, LockTarget, LockNext, TakeRow,
         ApplyMovement, WriteEntry, SetWalletStatus, session, vars

\* The ledger replays: no update of a balance is ever lost.
THEOREM LedgerReplays == Spec => []Replayable
<1>1. Init => Replayable
  BY DEF Init, Replayable, Positions, Fresh
<1>2. QED
  BY <1>1, TypeCorrect, Isolated, ReplayStep, PTL DEF Spec

------------------------------------------------------------------------------
(* Reversals.                                                                *)

\* A session that has locked the transaction it reverses is the only one, finds
\* it unreversed until it commits, and writes the mirror image of its entries.
ReversingInv ==
  \A s \in Sessions :
    /\ job[s].op = "reverse" => job[s].target # 0 /\ pc[s] \notin {"cap", "key"}
    /\ job[s].op # "reverse" => job[s].target = 0
    /\ pc[s] = "target" => job[s].op = "reverse"
    /\ \A t \in Nat : LocksTxn(s, t) =>
         /\ t \in DOMAIN txns /\ txns[t].status # "reversed"
         /\ job[s].movs = Mirror(txns[t].entries)
         /\ \A o \in Sessions \ {s} : ~LocksTxn(o, t)

\* What a session has written is the beginning of what it was asked for.
PrefixInv ==
  \A s \in Sessions :
    /\ Len(mine[s]) <= Len(job[s].movs)
    /\ \A i \in DOMAIN mine[s] :
         /\ mine[s][i].wallet = job[s].movs[i].wallet
         /\ mine[s][i].kind = job[s].movs[i].kind
         /\ mine[s][i].delta = job[s].movs[i].delta

\* What a session has written is what it was asked to move, so far.
LEMMA PrefixStep == TypeOK /\ LocksInv /\ PrefixInv /\ [Next]_vars => PrefixInv'
<1> SUFFICES ASSUME TypeOK, LocksInv, PrefixInv, [Next]_vars PROVE PrefixInv'
  OBVIOUS
<1>0. \A s \in Sessions : /\ Len(job[s].movs) \in Nat /\ mine[s] \in Seq(Entry)
                          /\ job[s].movs \in Seq(Movement)
  BY DEF TypeOK, Job
<1>1. ASSUME NEW s \in Sessions, Begin(s) \/ LockTarget(s) PROVE PrefixInv'
  <2>1. mine' = mine /\ mine[s] = <<>> /\ \A o \in Sessions \ {s} : job'[o] = job[o]
    BY <1>1 DEF Begin, Start, LockTarget, LocksInv, TypeOK
  <2>2. PICK j \in Job : job'[s] = j
    <3>1. CASE Begin(s)
      BY <3>1 DEF Begin, Start, TypeOK
    <3>2. CASE LockTarget(s)
      <4>1. txns[job[s].target] \in Txn
        BY <3>2 DEF LockTarget, TypeOK
      <4>2. NewJob("reverse", NoKey, Mirror(txns[job[s].target].entries), job[s].target) \in Job
        BY <4>1, MirrorType DEF Txn, NewJob, Job, TypeOK
      <4>3. QED
        BY <3>2, <4>2 DEF LockTarget, TypeOK
    <3>3. QED
      BY <1>1, <3>1, <3>2
  <2>3. Len(job'[s].movs) \in Nat
    BY <2>2 DEF Job
  <2>4. QED
    BY <2>1, <2>3 DEF PrefixInv
<1>2. ASSUME NEW s \in Sessions, NEW result \in Outcomes, End(s, result) PROVE PrefixInv'
  <2>1. /\ mine'[s] = <<>> /\ job'[s].movs = <<>>
        /\ \A o \in Sessions \ {s} : mine'[o] = mine[o] /\ job'[o] = job[o]
    BY <1>2 DEF End, TypeOK, NoJob, NewJob
  <2>2. QED
    BY <2>1 DEF PrefixInv
<1>3. ASSUME NEW s \in Sessions, ApplyMovement(s) PROVE PrefixInv'
  <2>1. /\ Next1(s) = job[s].movs[Len(mine[s]) + 1]
        /\ mine'[s] = Append(mine[s],
             [wallet |-> Next1(s).wallet, kind |-> Next1(s).kind,
              delta |-> Next1(s).delta, after |-> NewBalance(s)])
        /\ Len(mine[s]) < Len(job[s].movs) /\ job' = job
        /\ \A o \in Sessions \ {s} : mine'[o] = mine[o]
    BY <1>3 DEF ApplyMovement, WriteEntry, Next1, TypeOK
  <2>2. /\ Len(mine'[s]) <= Len(job[s].movs)
        /\ \A i \in DOMAIN mine'[s] :
             /\ mine'[s][i].wallet = job[s].movs[i].wallet
             /\ mine'[s][i].kind = job[s].movs[i].kind
             /\ mine'[s][i].delta = job[s].movs[i].delta
    BY <1>0, <2>1, SMTT(20) DEF PrefixInv
  <2>3. ASSUME NEW o \in Sessions \ {s}
        PROVE  /\ Len(mine'[o]) <= Len(job'[o].movs)
               /\ \A i \in DOMAIN mine'[o] :
                    /\ mine'[o][i].wallet = job'[o].movs[i].wallet
                    /\ mine'[o][i].kind = job'[o].movs[i].kind
                    /\ mine'[o][i].delta = job'[o].movs[i].delta
    BY <2>1 DEF PrefixInv
  <2>4. job'[s].movs = job[s].movs
    BY <2>1
  <2>5. QED
    BY <2>2, <2>3, <2>4, SMTT(20) DEF PrefixInv
<1>4. CASE UNCHANGED <<job, mine>>
  BY <1>4 DEF PrefixInv
<1>5. QED
  BY <1>1, <1>2, <1>3, <1>4, StepCases
     DEF Rollback, Commit, Outcomes, Advance, Reserve, Goto, LockNext, TakeRow, SetWalletStatus,
         FlagForReview, session, vars

\* A session alone changes what it reverses: sessions that keep their label and
\* their call keep their reversal, as long as its target is left alone.
LEMMA ReversingKept ==
  ASSUME ReversingInv, NEW s \in Sessions,
         \A o \in Sessions \ {s} : pc'[o] = pc[o] /\ job'[o] = job[o],
         \A t \in Nat : LocksTxn(s, t)' => LocksTxn(s, t) /\ job'[s] = job[s],
         \A t \in DOMAIN txns : /\ t \in DOMAIN txns' /\ txns'[t].entries = txns[t].entries
                                /\ \A o \in Sessions : LocksTxn(o, t)' /\ LocksTxn(o, t)
                                    => txns'[t].status = txns[t].status,
         /\ job'[s].op = "reverse" => job'[s].target # 0 /\ pc'[s] \notin {"cap", "key"}
         /\ job'[s].op # "reverse" => job'[s].target = 0
         /\ pc'[s] = "target" => job'[s].op = "reverse"
  PROVE  ReversingInv'
<1> SUFFICES ASSUME NEW o \in Sessions
             PROVE  /\ job'[o].op = "reverse" => job'[o].target # 0 /\ pc'[o] \notin {"cap", "key"}
                    /\ job'[o].op # "reverse" => job'[o].target = 0
                    /\ pc'[o] = "target" => job'[o].op = "reverse"
                    /\ \A t \in Nat : LocksTxn(o, t)' =>
                         /\ t \in DOMAIN txns' /\ txns'[t].status # "reversed"
                         /\ job'[o].movs = Mirror(txns'[t].entries)
                         /\ \A r \in Sessions \ {o} : ~LocksTxn(r, t)'
  BY DEF ReversingInv, Mirror
<1>1. \A r \in Sessions, t \in Nat : LocksTxn(r, t)' => LocksTxn(r, t) /\ job'[r] = job[r]
  BY DEF LocksTxn
<1>2. ASSUME NEW t \in Nat, LocksTxn(o, t)'
      PROVE  /\ t \in DOMAIN txns' /\ txns'[t].status # "reversed"
             /\ job'[o].movs = Mirror(txns'[t].entries)
             /\ \A r \in Sessions \ {o} : ~LocksTxn(r, t)'
  <2>1. LocksTxn(o, t) /\ job'[o] = job[o]
    BY <1>1, <1>2
  <2>2. /\ t \in DOMAIN txns /\ txns[t].status # "reversed"
        /\ job[o].movs = Mirror(txns[t].entries)
        /\ \A r \in Sessions \ {o} : ~LocksTxn(r, t)
    BY <2>1 DEF ReversingInv
  <2>3. QED
    BY <1>1, <1>2, <2>1, <2>2
<1>3. QED
  BY <1>2 DEF ReversingInv

\* A session that reverses a transaction holds the mirror of its entries, and
\* keeps others from reversing it.
LEMMA ReversingStep ==
  TypeOK /\ ReversingInv /\ [Next]_vars => ReversingInv'
<1> SUFFICES ASSUME TypeOK, ReversingInv, [Next]_vars PROVE ReversingInv'
  OBVIOUS
<1>1. ASSUME NEW s \in Sessions, Begin(s) PROVE ReversingInv'
  <2>1. PICK j \in Job, label \in {"key", "insert", "cap", "target"} :
          /\ pc' = [pc EXCEPT ![s] = label] /\ job' = [job EXCEPT ![s] = j]
          /\ j.op = "reverse" => label = "target" /\ j.target # 0
          /\ j.op # "reverse" => label # "target" /\ j.target = 0
          /\ txns' = txns
    BY <1>1 DEF Begin, Start
  <2>2. pc'[s] = label /\ job'[s] = j /\ \A t \in Nat : ~LocksTxn(s, t)'
    BY <2>1 DEF LocksTxn, TypeOK
  <2>3. \A o \in Sessions \ {s} : pc'[o] = pc[o] /\ job'[o] = job[o]
    BY <2>1 DEF TypeOK
  <2>4. QED
    BY <2>1, <2>2, <2>3, ReversingKept
<1>2. ASSUME NEW s \in Sessions, NEW reason \in Outcomes, Rollback(s, reason)
      PROVE  ReversingInv'
  <2>1. /\ pc'[s] = "idle" /\ job'[s] = NoJob /\ txns' = txns
        /\ \A o \in Sessions \ {s} : pc'[o] = pc[o] /\ job'[o] = job[o]
    BY <1>2 DEF Rollback, End, database, TypeOK
  <2>2. /\ job'[s].op = "post" /\ job'[s].target = 0
        /\ \A t \in Nat : ~LocksTxn(s, t)'
    BY <2>1 DEF LocksTxn, NoJob, NewJob
  <2>3. QED
    BY <2>1, <2>2, ReversingKept
<1>3. ASSUME NEW s \in Sessions, Advance(s) \/ Reserve(s) PROVE ReversingInv'
  <2>1. /\ job' = job /\ txns' = txns /\ pc'[s] \in {"key", "insert", "lock"}
        /\ pc'[s] \in {"key", "insert"} => pc[s] \in {"cap", "key"}
        /\ pc'[s] = "lock" => pc[s] = "insert"
        /\ \A o \in Sessions \ {s} : pc'[o] = pc[o]
    BY <1>3 DEF Advance, Reserve, Goto, TypeOK
  <2>2. \A t \in Nat : LocksTxn(s, t)' => LocksTxn(s, t)
    BY <2>1 DEF LocksTxn, ReversingInv
  <2>3. /\ job'[s].op = "reverse" => job'[s].target # 0 /\ pc'[s] \notin {"cap", "key"}
        /\ job'[s].op # "reverse" => job'[s].target = 0
    BY <2>1 DEF ReversingInv
  <2>4. QED
    BY <2>1, <2>2, <2>3, ReversingKept
<1>4. ASSUME NEW s \in Sessions, LockTarget(s) PROVE ReversingInv'
  <2> DEFINE target == job[s].target
  <2>1. /\ target \in DOMAIN txns /\ target \in Nat /\ txns[target].status # "reversed"
        /\ \A o \in Sessions : ~LocksTxn(o, target)
        /\ job'[s] = NewJob("reverse", NoKey, Mirror(txns[target].entries), target)
        /\ pc'[s] = "insert" /\ txns' = txns /\ pc[s] = "target"
        /\ \A o \in Sessions \ {s} : pc'[o] = pc[o] /\ job'[o] = job[o]
    BY <1>4 DEF LockTarget, TypeOK, Job
  <2>2. /\ job'[s].op = "reverse" /\ job'[s].target = target /\ target # 0
        /\ job'[s].movs = Mirror(txns[target].entries)
    BY <1>4, <2>1 DEF NewJob, ReversingInv
  <2>3. \A t \in Nat : LocksTxn(s, t)' <=> t = target
    BY <2>1, <2>2 DEF LocksTxn
  <2>4. \A o \in Sessions \ {s}, t \in Nat : LocksTxn(o, t)' <=> LocksTxn(o, t)
    BY <2>1 DEF LocksTxn
  <2>5. \A t \in Nat : LocksTxn(s, t)' =>
             /\ t \in DOMAIN txns' /\ txns'[t].status # "reversed"
             /\ job'[s].movs = Mirror(txns'[t].entries)
             /\ \A r \in Sessions \ {s} : ~LocksTxn(r, t)'
    BY <2>1, <2>2, <2>3, <2>4
  <2>6. ASSUME NEW o \in Sessions \ {s}
        PROVE  /\ job'[o].op = "reverse" => job'[o].target # 0 /\ pc'[o] \notin {"cap", "key"}
               /\ job'[o].op # "reverse" => job'[o].target = 0
               /\ pc'[o] = "target" => job'[o].op = "reverse"
               /\ \A t \in Nat : LocksTxn(o, t)' =>
                    /\ t \in DOMAIN txns' /\ txns'[t].status # "reversed"
                    /\ job'[o].movs = Mirror(txns'[t].entries)
                    /\ \A r \in Sessions \ {o} : ~LocksTxn(r, t)'
    BY <2>1, <2>3, <2>4 DEF ReversingInv
  <2>7. \A t : Mirror(txns[t].entries)' = Mirror(txns'[t].entries)
    BY DEF Mirror
  <2>8. QED
    BY <2>1, <2>2, <2>5, <2>6, <2>7 DEF ReversingInv
<1>5. ASSUME NEW s \in Sessions, LockNext(s) \/ ApplyMovement(s) PROVE ReversingInv'
  <2>1. /\ job' = job /\ txns' = txns /\ pc[s] \in {"lock", "apply"}
        /\ pc'[s] \in {"lock", "apply"} /\ \A o \in Sessions \ {s} : pc'[o] = pc[o]
    BY <1>5 DEF LockNext, TakeRow, ApplyMovement, WriteEntry, TypeOK
  <2>2. \A t \in Nat : LocksTxn(s, t)' => LocksTxn(s, t)
    BY <2>1 DEF LocksTxn
  <2>3. /\ job'[s].op = "reverse" => job'[s].target # 0 /\ pc'[s] \notin {"cap", "key"}
        /\ job'[s].op # "reverse" => job'[s].target = 0
    BY <2>1 DEF ReversingInv
  <2>4. QED
    BY <2>1, <2>2, <2>3, ReversingKept
<1>6. ASSUME NEW s \in Sessions, Commit(s) PROVE ReversingInv'
  <2>1. /\ pc[s] = "apply" /\ pc'[s] = "idle" /\ job'[s] = NoJob
        /\ \A o \in Sessions \ {s} : pc'[o] = pc[o] /\ job'[o] = job[o]
    BY <1>6 DEF Commit, End, TypeOK
  <2>2. /\ job'[s].op = "post" /\ job'[s].target = 0
        /\ \A t \in Nat : ~LocksTxn(s, t)'
    BY <2>1 DEF LocksTxn, NoJob, NewJob
  <2>3. \A t \in DOMAIN txns : /\ t \in Nat /\ t \in DOMAIN txns' /\ txns'[t].entries = txns[t].entries
                               /\ t # job[s].target => txns'[t].status = txns[t].status
    BY <1>6, CommitTxns
  <2>4. \A t \in DOMAIN txns : t = job[s].target => LocksTxn(s, t)
    BY <2>1, <2>3, <1>6, CommitTxns DEF LocksTxn, ReversingInv
  <2>5. ASSUME NEW t \in DOMAIN txns, NEW o \in Sessions, LocksTxn(o, t)', LocksTxn(o, t)
        PROVE  txns'[t].status = txns[t].status
    <3>1. t \in Nat /\ o # s
      BY <2>1, <2>3, <2>5 DEF LocksTxn
    <3>2. ~LocksTxn(s, t)
      BY <2>5, <3>1 DEF ReversingInv
    <3>3. t # job[s].target
      BY <2>4, <3>2
    <3>4. QED
      BY <2>3, <3>3
  <2>6. \A t \in DOMAIN txns : /\ t \in DOMAIN txns' /\ txns'[t].entries = txns[t].entries
                               /\ \A o \in Sessions : LocksTxn(o, t)' /\ LocksTxn(o, t)
                                  => txns'[t].status = txns[t].status
    <3>1. \A t \in DOMAIN txns : \A o \in Sessions :
            LocksTxn(o, t)' /\ LocksTxn(o, t) => txns'[t].status = txns[t].status
      BY <2>5
    <3>2. QED
      BY <2>3, <3>1
  <2>7. QED
    BY <2>1, <2>2, <2>6, ReversingKept
<1>7. ASSUME NEW t \in DOMAIN txns, FlagForReview(t) PROVE ReversingInv'
  <2>1. pc' = pc /\ job' = job /\ \A o \in Sessions : ~LocksTxn(o, t)
    BY <1>7 DEF FlagForReview, session
  <2>2. \A o \in Sessions, u \in Nat : LocksTxn(o, u)' <=> LocksTxn(o, u)
    BY <2>1 DEF LocksTxn
  <2>3. \A u \in DOMAIN txns : /\ u \in DOMAIN txns' /\ txns'[u].entries = txns[u].entries
                               /\ u # t => txns'[u].status = txns[u].status
    BY <1>7, FlagTxns
  <2>4. ASSUME NEW o \in Sessions, NEW u \in Nat, LocksTxn(o, u)
        PROVE  /\ u \in DOMAIN txns' /\ txns'[u].status # "reversed"
               /\ job'[o].movs = Mirror(txns'[u].entries)
               /\ \A r \in Sessions \ {o} : ~LocksTxn(r, u)
    <3>1. /\ u \in DOMAIN txns /\ txns[u].status # "reversed"
          /\ job[o].movs = Mirror(txns[u].entries)
          /\ \A r \in Sessions \ {o} : ~LocksTxn(r, u)
      BY <2>4 DEF ReversingInv
    <3>2. u # t
      BY <2>1, <2>4
    <3>3. txns'[u].entries = txns[u].entries /\ txns'[u].status = txns[u].status
      BY <2>3, <3>1, <3>2
    <3>4. job'[o].movs = Mirror(txns'[u].entries)
      BY <2>1, <3>1, <3>3
    <3>5. QED
      BY <2>3, <3>1, <3>3, <3>4
  <2>5. \A u : Mirror(txns[u].entries)' = Mirror(txns'[u].entries)
    BY DEF Mirror
  <2>6. QED
    BY <2>1, <2>2, <2>4, <2>5 DEF ReversingInv
<1>8. ASSUME UNCHANGED <<pc, job, txns>> PROVE ReversingInv'
  BY <1>8 DEF ReversingInv, LocksTxn, Mirror
<1>9. QED
  BY <1>1, <1>2, <1>3, <1>4, <1>5, <1>6, <1>7, <1>8, StepCases
     DEF SetWalletStatus, session, vars

\* The new transaction of a COMMIT mirrors what it reverses, entry for entry.
LEMMA CommitMirrors ==
  ASSUME TypeOK, ReversingInv, PrefixInv, NEW s \in Sessions, Commit(s), job[s].target # 0
  PROVE  /\ job[s].target \in DOMAIN txns /\ txns[job[s].target].status # "reversed"
         /\ DOMAIN mine[s] = DOMAIN txns[job[s].target].entries
         /\ \A i \in DOMAIN mine[s] :
              /\ mine[s][i].wallet = txns[job[s].target].entries[i].wallet
              /\ mine[s][i].kind = txns[job[s].target].entries[i].kind
              /\ mine[s][i].delta = -txns[job[s].target].entries[i].delta
<1>1. LocksTxn(s, job[s].target) /\ job[s].target \in Nat
  BY DEF Commit, LocksTxn, ReversingInv, TypeOK, Job
<1>2. /\ job[s].target \in DOMAIN txns /\ txns[job[s].target].status # "reversed"
      /\ job[s].movs = Mirror(txns[job[s].target].entries)
  BY <1>1 DEF ReversingInv
<1>3. /\ mine[s] \in Seq(Entry) /\ job[s].movs \in Seq(Movement)
      /\ Len(mine[s]) = Len(job[s].movs)
  BY DEF Commit, TypeOK, Job
<1>4. DOMAIN mine[s] = DOMAIN job[s].movs
  BY <1>3
<1>5. DOMAIN job[s].movs = DOMAIN txns[job[s].target].entries
  BY <1>2 DEF Mirror
<1>6. \A i \in DOMAIN mine[s] :
        /\ job[s].movs[i].wallet = txns[job[s].target].entries[i].wallet
        /\ job[s].movs[i].kind = txns[job[s].target].entries[i].kind
        /\ job[s].movs[i].delta = -txns[job[s].target].entries[i].delta
  <2> SUFFICES ASSUME NEW i \in DOMAIN mine[s]
               PROVE  /\ job[s].movs[i].wallet = txns[job[s].target].entries[i].wallet
                      /\ job[s].movs[i].kind = txns[job[s].target].entries[i].kind
                      /\ job[s].movs[i].delta = -txns[job[s].target].entries[i].delta
    OBVIOUS
  <2>1. job[s].movs[i] = [wallet |-> txns[job[s].target].entries[i].wallet,
                          kind |-> txns[job[s].target].entries[i].kind,
                          delta |-> -txns[job[s].target].entries[i].delta]
    BY <1>2, <1>4, <1>5 DEF Mirror
  <2>2. QED
    BY <2>1
<1>7. QED
  BY <1>2, <1>4, <1>5, <1>6 DEF PrefixInv

\* A transaction reverses an earlier one, or none.
ReversedInv ==
  ReversedOnce /\ \A u \in DOMAIN txns : txns[u].reverses \in (DOMAIN txns) \union {0}

\* No step reverses twice, or changes what a reversal mirrors.
LEMMA ReversedStep ==
  TypeOK /\ ReversingInv /\ PrefixInv /\ ReversedInv /\ [Next]_vars => ReversedInv'
<1> SUFFICES ASSUME TypeOK, ReversingInv, PrefixInv, ReversedInv, [Next]_vars
             PROVE  ReversedInv'
  OBVIOUS
<1>0. ReversedOnce
  BY DEF ReversedInv
<1>1. ASSUME NEW s \in Sessions, Commit(s) PROVE ReversedInv'
  <2>1. PICK n \in Nat : n = Len(txns) + 1
    BY DEF TypeOK
  <2>2. PICK r \in Nat : r = job[s].target
    BY DEF TypeOK, Job
  <2>3. /\ DOMAIN txns' = DOMAIN txns \union {n} /\ n \notin DOMAIN txns /\ n # 0
        /\ DOMAIN txns \subseteq Nat /\ 0 \notin DOMAIN txns
        /\ txns'[n] = NewTxn(s)
        /\ \A t \in DOMAIN txns :
             /\ txns'[t].entries = txns[t].entries /\ txns'[t].reverses = txns[t].reverses
             /\ txns'[t].status = IF t = r THEN "reversed" ELSE txns[t].status
    <3>1. /\ DOMAIN txns = 1 .. Len(txns) /\ Len(txns) \in Nat
          /\ DOMAIN txns' = 1 .. n /\ txns'[n] = NewTxn(s)
      BY <1>1, <2>1, CommitTxns
    <3>2. \A t \in DOMAIN txns :
             /\ txns'[t].entries = txns[t].entries /\ txns'[t].reverses = txns[t].reverses
             /\ txns'[t].status = IF t = r THEN "reversed" ELSE txns[t].status
      BY <1>1, <2>2, CommitTxns
    <3>3. QED
      BY <2>1, <3>1, <3>2
  <2>4. /\ txns'[n].status = "completed" /\ txns'[n].reverses = r
        /\ txns'[n].entries = mine[s]
    BY <2>2, <2>3 DEF NewTxn
  <2>5. r # 0 => /\ r \in DOMAIN txns /\ txns[r].status # "reversed"
                 /\ DOMAIN mine[s] = DOMAIN txns[r].entries
                 /\ \A i \in DOMAIN mine[s] :
                      /\ mine[s][i].wallet = txns[r].entries[i].wallet
                      /\ mine[s][i].kind = txns[r].entries[i].kind
                      /\ mine[s][i].delta = -txns[r].entries[i].delta
    BY <1>1, <2>2, CommitMirrors
  <2>6. \A u \in DOMAIN txns : txns[u].reverses # n
    BY <2>3 DEF ReversedInv
  <2>7. ASSUME NEW t \in DOMAIN txns'
        PROVE  /\ (txns'[t].status = "reversed") <=> (\E u \in DOMAIN txns' : txns'[u].reverses = t)
               /\ \A u \in DOMAIN txns' : txns'[u].reverses = t =>
                    /\ \A v \in DOMAIN txns' : txns'[v].reverses = t => v = u
                    /\ DOMAIN txns'[u].entries = DOMAIN txns'[t].entries
                    /\ \A i \in DOMAIN txns'[t].entries :
                         /\ txns'[u].entries[i].wallet = txns'[t].entries[i].wallet
                         /\ txns'[u].entries[i].kind = txns'[t].entries[i].kind
                         /\ txns'[u].entries[i].delta = -txns'[t].entries[i].delta
    <3>1. CASE t = n
      BY <3>1, <2>3, <2>4, <2>5, <2>6
    <3>2. CASE t \in DOMAIN txns /\ t # r
      BY <3>2, <2>3, <2>4, <1>0 DEF ReversedOnce
    <3>3. CASE t \in DOMAIN txns /\ t = r
      <4>1. \A u \in DOMAIN txns : txns[u].reverses # t
        BY <3>3, <2>3, <2>5, <1>0 DEF ReversedOnce
      <4>2. QED
        BY <3>3, <4>1, <2>3, <2>4, <2>5
    <3>4. QED
      BY <3>1, <3>2, <3>3, <2>3
  <2>8. \A u \in DOMAIN txns' : txns'[u].reverses \in (DOMAIN txns') \union {0}
    BY <2>3, <2>4, <2>5 DEF ReversedInv
  <2>9. ReversedOnce'
    BY <2>7 DEF ReversedOnce
  <2>10. QED
    BY <2>8, <2>9 DEF ReversedInv
<1>2. ASSUME NEW t \in DOMAIN txns, FlagForReview(t) PROVE ReversedInv'
  BY <1>2, FlagTxns, SMTT(20) DEF ReversedInv, ReversedOnce
<1>3. CASE txns' = txns
  BY <1>3 DEF ReversedInv, ReversedOnce
<1>4. QED
  BY <1>1, <1>2, <1>3, StepCases
     DEF Begin, Start, Rollback, database, Advance, Reserve, Goto, LockTarget, LockNext, TakeRow,
         ApplyMovement, WriteEntry, SetWalletStatus, session, vars

\* A transaction is undone once at most, by its exact opposite.
THEOREM ReversalsAreExact == Spec => []ReversedOnce
<1>1. Init => PrefixInv /\ ReversingInv /\ ReversedInv
  BY DEF Init, PrefixInv, ReversingInv, ReversedInv, ReversedOnce, LocksTxn, NoJob, NewJob
<1>2. ReversedInv => ReversedOnce
  BY DEF ReversedInv
<1>3. QED
  BY <1>1, <1>2, TypeCorrect, Isolated, PrefixStep, ReversingStep, ReversedStep, PTL DEF Spec

------------------------------------------------------------------------------
(* Sums of balances.                                                         *)

NetOn(c, ms) == Atomic!NetOn(c, ms)
Deltas(ms) == [i \in DOMAIN ms |-> ms[i].delta]
OnCell(c, ms) == {i \in DOMAIN ms : ms[i].wallet = c[1] /\ ms[i].kind = c[2]}

\* There are finitely many accounts.
LEMMA CellsFinite == IsFiniteSet(Cells)
<1>1. IsFiniteSet(Wallets)
  BY LedgerAssumption, FS_Interval DEF Wallets
<1>2. IsFiniteSet(Kinds)
  <2>1. IsFiniteSet({"available"}) /\ IsFiniteSet({"pending"}) /\ IsFiniteSet({"locked"})
    BY FS_Singleton
  <2>2. IsFiniteSet({"available"} \union {"pending"})
    BY <2>1, FS_Union, Zenon
  <2>3. IsFiniteSet(({"available"} \union {"pending"}) \union {"locked"})
    BY <2>1, <2>2, FS_Union, Zenon
  <2>4. Kinds = ({"available"} \union {"pending"}) \union {"locked"}
    BY DEF Kinds
  <2>5. QED
    BY <2>3, <2>4
<1>3. QED
  BY <1>1, <1>2, FS_Product DEF Cells

\* The entries of a list are finitely many.
LEMMA EntriesFinite ==
  ASSUME NEW es \in Seq(Entry)
  PROVE  /\ DOMAIN es = 1 .. Len(es) /\ Len(es) \in Nat /\ IsFiniteSet(DOMAIN es)
         /\ \A c : IsFiniteSet(OnCell(c, es)) /\ OnCell(c, es) \subseteq DOMAIN es
         /\ \A i \in DOMAIN es : es[i] \in Entry /\ Deltas(es)[i] = es[i].delta
                                 /\ es[i].delta \in Int /\ <<es[i].wallet, es[i].kind>> \in Cells
<1>1. DOMAIN es = 1 .. Len(es) /\ Len(es) \in Nat
  OBVIOUS
<1>2. IsFiniteSet(DOMAIN es)
  BY <1>1, FS_Interval
<1>3. \A c : OnCell(c, es) \in SUBSET DOMAIN es
  BY DEF OnCell
<1>4. \A i \in DOMAIN es : es[i] \in Entry
  OBVIOUS
<1>5. QED
  BY <1>1, <1>2, <1>3, <1>4, FS_Subset DEF Entry, Deltas, Cells

\* What a list moves on a cell, and in all.
LEMMA NetOnUnfolds ==
  ASSUME NEW c, NEW es
  PROVE  /\ NetOn(c, es) = SumFunctionOnSet(Deltas(es), OnCell(c, es))
         /\ Net(es) = SumFunctionOnSet(Deltas(es), DOMAIN es)
<1>1. \A f, S : Atomic!SumFunctionOnSet(f, S) = SumFunctionOnSet(f, S)
  BY DEF SumFunctionOnSet, FoldFunctionOnSet, MapThenFoldSet, Atomic!SumFunctionOnSet,
         Atomic!FoldFunctionOnSet, Atomic!MapThenFoldSet
<1>2. NetOn(c, es) = SumFunctionOnSet(Deltas(es), OnCell(c, es))
  BY <1>1 DEF NetOn, Atomic!NetOn, Deltas, OnCell
<1>3. Net(es) = SumFunctionOnSet(Deltas(es), DOMAIN es)
  BY DEF Net, SumFunction, Deltas
<1>4. QED
  BY <1>2, <1>3

\* What a list moves on each cell adds up to its net amount.
LEMMA NetIsSum ==
  ASSUME NEW es \in Seq(Entry)
  PROVE  /\ \A c \in Cells : NetOn(c, es) \in Int
         /\ SumFunctionOnSet([c \in Cells |-> NetOn(c, es)], Cells) = Net(es)
<1> DEFINE key == [i \in DOMAIN es |-> <<es[i].wallet, es[i].kind>>]
<1>1. /\ IsFiniteSet(DOMAIN es) /\ \A c : IsFiniteSet(OnCell(c, es)) /\ OnCell(c, es) \subseteq DOMAIN es
      /\ \A i \in DOMAIN es : Deltas(es)[i] \in Int /\ key[i] \in Cells
  BY EntriesFinite
<1>2. \A c \in Cells : OnCell(c, es) = {i \in DOMAIN es : key[i] = c}
  BY DEF OnCell, Cells
<1>3. \A c \in Cells : NetOn(c, es) \in Int
  <2> SUFFICES ASSUME NEW c \in Cells PROVE NetOn(c, es) \in Int
    OBVIOUS
  <2>1. IsFiniteSet(OnCell(c, es)) /\ \A i \in OnCell(c, es) : Deltas(es)[i] \in Int
    BY <1>1
  <2>2. QED
    BY <2>1, NetOnUnfolds, SumTakesOut
<1>4. \A c \in Cells : NetOn(c, es) = SumFunctionOnSet(Deltas(es), {i \in DOMAIN es : key[i] = c})
  BY <1>2, NetOnUnfolds
<1> HIDE DEF key
<1>5. SumFunctionOnSet([c \in Cells |-> SumFunctionOnSet(Deltas(es), {i \in DOMAIN es : key[i] = c})],
                       Cells) = SumFunctionOnSet(Deltas(es), DOMAIN es)
  <2>1. PICK fun, D : fun = Deltas(es) /\ D = DOMAIN es
    OBVIOUS
  <2>2. IsFiniteSet(D) /\ IsFiniteSet(Cells) /\ \A i \in D : fun[i] \in Int /\ key[i] \in Cells
    BY <1>1, <2>1, CellsFinite
  <2>3. SumFunctionOnSet([c \in Cells |-> SumFunctionOnSet(fun, {i \in D : key[i] = c})], Cells)
          = SumFunctionOnSet(fun, D)
    BY <2>2, SumByGroups
  <2>4. QED
    BY <2>1, <2>3
<1>6. [c \in Cells |-> NetOn(c, es)] =
        [c \in Cells |-> SumFunctionOnSet(Deltas(es), {i \in DOMAIN es : key[i] = c})]
  BY <1>4
<1>7. QED
  BY <1>3, <1>5, <1>6, NetOnUnfolds

\* One entry more moves its amount on its own cell.
LEMMA NetOnAppend ==
  ASSUME NEW es \in Seq(Entry), NEW e \in Entry, NEW c \in Cells
  PROVE  NetOn(c, Append(es, e)) = NetOn(c, es) + (IF On(e, c) THEN e.delta ELSE 0)
<1> DEFINE fs == Append(es, e)
           n == Len(es) + 1
           f == Deltas(fs)
           S == OnCell(c, es)
<1>1. fs \in Seq(Entry) /\ Len(fs) = n /\ DOMAIN fs = 1 .. n
      /\ (\A i \in DOMAIN es : fs[i] = es[i]) /\ fs[n] = e
  OBVIOUS
<1>2. /\ DOMAIN es = 1 .. Len(es) /\ Len(es) \in Nat /\ IsFiniteSet(S) /\ S \subseteq DOMAIN es
      /\ \A i \in DOMAIN es : Deltas(es)[i] \in Int
  BY EntriesFinite
<1>3. \A i \in DOMAIN fs : f[i] \in Int /\ f[i] = fs[i].delta
  BY <1>1, EntriesFinite
<1>4. n \notin S /\ n \in DOMAIN fs
  BY <1>1, <1>2
<1>5. \A i \in S : f[i] = Deltas(es)[i]
  BY <1>1, <1>2, <1>3 DEF Deltas
<1>6. OnCell(c, fs) = IF On(e, c) THEN S \union {n} ELSE S
  BY <1>1, <1>2 DEF OnCell, On
<1>7. f[n] = e.delta
  BY <1>1, <1>3
<1>8. \A i \in S \union {n} : f[i] \in Int
  BY <1>1, <1>2, <1>3, <1>4
<1> HIDE DEF fs, n, f, S
<1>9. SumFunctionOnSet(f, S) = SumFunctionOnSet(Deltas(es), S)
  BY <1>2, <1>5, SumOfSame
<1>10. SumFunctionOnSet(f, S \union {n}) = f[n] + SumFunctionOnSet(f, S)
  BY <1>2, <1>4, <1>8, SumAdds
<1>11. SumFunctionOnSet(f, S) \in Int /\ f[n] \in Int
  BY <1>2, <1>8, SumTakesOut
<1>12. NetOn(c, fs) = SumFunctionOnSet(f, OnCell(c, fs)) /\ NetOn(c, es) = SumFunctionOnSet(Deltas(es), S)
  BY NetOnUnfolds DEF f, S
<1>13. QED
  BY <1>6, <1>7, <1>9, <1>10, <1>11, <1>12 DEF fs

\* A list without entries moves nothing.
LEMMA NetOnEmpty == ASSUME NEW c PROVE NetOn(c, <<>>) = 0
<1>1. OnCell(c, <<>>) = {}
  BY DEF OnCell
<1>2. QED
  BY <1>1, NetOnUnfolds, SumEmpty

\* A session's working balances are the committed ones and what it has written.
NetOK(s) == \A c \in Cells : c[1] \in held[s] => work[s][c] = bal[c] + NetOn(c, mine[s])
NetInv == \A s \in Sessions : NetOK(s)

\* It stays so while the session is left alone.
LEMMA NetKept ==
  ASSUME NEW s \in Sessions, NetOK(s), mine'[s] = mine[s], held'[s] = held[s],
         work'[s] = work[s], \A c \in Cells : c[1] \in held[s] => bal'[c] = bal[c]
  PROVE  NetOK(s)'
<1>1. \A c : NetOn(c, mine[s])' = NetOn(c, mine[s])
  BY DEF NetOn, Atomic!NetOn
<1>2. QED
  BY <1>1 DEF NetOK

\* Every step keeps the working balances in line.
LEMMA NetStep == TypeOK /\ LocksInv /\ NetInv /\ [Next]_vars => NetInv'
<1> SUFFICES ASSUME TypeOK, LocksInv, NetInv, [Next]_vars PROVE NetInv'
  OBVIOUS
<1>1. ASSUME NEW s \in Sessions, NEW result, End(s, result),
             \A o \in Sessions \ {s}, c \in Cells : c[1] \in held[o] => bal'[c] = bal[c]
      PROVE  NetInv'
  <2>1. /\ held'[s] = {}
        /\ \A o \in Sessions \ {s} : /\ held'[o] = held[o] /\ mine'[o] = mine[o]
                                     /\ work'[o] = work[o]
    BY <1>1 DEF End, TypeOK
  <2>2. NetOK(s)'
    BY <2>1 DEF NetOK
  <2>3. QED
    BY <1>1, <2>1, <2>2, NetKept DEF NetInv
<1>2. ASSUME NEW s \in Sessions, LockNext(s) PROVE NetInv'
  <2>1. PICK w \in Wallets : TakeRow(s, w) /\ w \notin held[s] /\ pc[s] = "lock"
    BY <1>2, NeededType DEF LockNext
  <2>2. /\ bal' = bal /\ mine' = mine /\ held'[s] = held[s] \union {w}
        /\ \A c \in Cells : work'[s][c] = IF c[1] = w THEN bal[c] ELSE work[s][c]
        /\ \A o \in Sessions \ {s} : held'[o] = held[o] /\ work'[o] = work[o]
    BY <2>1 DEF TakeRow, TypeOK
  <2>3. mine[s] = <<>>
    BY <2>1 DEF LocksInv
  <2>4. \A c \in Cells : NetOn(c, mine[s])' = 0 /\ NetOn(c, mine[s]) = 0 /\ bal[c] \in Int
    <3>1. \A c : NetOn(c, mine[s])' = NetOn(c, mine'[s])
      BY DEF NetOn, Atomic!NetOn
    <3>2. QED
      BY <2>2, <2>3, <3>1, NetOnEmpty DEF TypeOK
  <2>5. NetOK(s)'
    BY <2>2, <2>4 DEF NetInv, NetOK
  <2>6. QED
    BY <2>2, <2>5, NetKept DEF NetInv
<1>3. ASSUME NEW s \in Sessions, ApplyMovement(s) PROVE NetInv'
  <2> DEFINE e == [wallet |-> Next1(s).wallet, kind |-> Next1(s).kind,
                   delta |-> Next1(s).delta, after |-> NewBalance(s)]
  <2>1. Next1(s) \in Movement /\ NextCell(s) \in Cells /\ NewBalance(s) \in Int
    BY <1>3, NextMovementType DEF ApplyMovement
  <2>2. e \in Entry /\ mine[s] \in Seq(Entry)
    BY <2>1 DEF Movement, Entry, TypeOK
  <2>3. /\ bal' = bal /\ held' = held /\ mine'[s] = Append(mine[s], e)
        /\ work'[s][NextCell(s)] = NewBalance(s)
        /\ \A c \in Cells \ {NextCell(s)} : work'[s][c] = work[s][c]
        /\ \A o \in Sessions \ {s} : mine'[o] = mine[o] /\ work'[o] = work[o]
    BY <1>3, <2>1 DEF ApplyMovement, WriteEntry, TypeOK
  <2>4. \A c \in Cells : On(e, c) <=> c = NextCell(s)
    BY <2>1 DEF On, NextCell, Cells
  <2>5. e.delta = Next1(s).delta /\ e.delta \in Int
    BY <2>1 DEF Movement
  <2>6. NewBalance(s) = work[s][NextCell(s)] + Next1(s).delta
    BY DEF NewBalance
  <2> HIDE DEF e
  <2>7. ASSUME NEW c \in Cells, c[1] \in held[s]
        PROVE  work'[s][c] = bal'[c] + NetOn(c, mine[s])'
    <3>1. NetOn(c, mine[s])' = NetOn(c, mine'[s])
      BY DEF NetOn, Atomic!NetOn
    <3>2. NetOn(c, mine'[s]) = NetOn(c, mine[s]) + (IF On(e, c) THEN e.delta ELSE 0)
      BY <2>2, <2>3, NetOnAppend
    <3>3. work[s][c] = bal[c] + NetOn(c, mine[s])
      BY <2>7 DEF NetInv, NetOK
    <3>4. work[s][c] \in Int /\ bal[c] \in Int /\ NetOn(c, mine[s]) \in Int
      BY <2>2, NetIsSum DEF TypeOK
    <3>5. CASE c = NextCell(s)
      BY <3>1, <3>2, <3>3, <3>4, <3>5, <2>3, <2>4, <2>5, <2>6
    <3>6. CASE c # NextCell(s)
      BY <3>1, <3>2, <3>3, <3>4, <3>6, <2>3, <2>4
    <3>7. QED
      BY <3>5, <3>6
  <2>8. NetOK(s)'
    BY <2>3, <2>7 DEF NetOK
  <2>9. QED
    BY <2>3, <2>8, NetKept DEF NetInv
<1>4. ASSUME NEW s \in Sessions, Commit(s) PROVE NetInv'
  <2>1. \A o \in Sessions \ {s}, c \in Cells : c[1] \in held[o] => bal'[c] = bal[c]
    BY <1>4 DEF Commit, LocksInv, LockOrder, Cells
  <2>2. QED
    BY <1>1, <1>4, <2>1 DEF Commit
<1>5. CASE UNCHANGED <<bal, held, mine, work>>
  BY <1>5, NetKept DEF NetInv
<1>6. ASSUME NEW s \in Sessions, NEW reason \in Outcomes, Rollback(s, reason) PROVE NetInv'
  BY <1>1, <1>6 DEF Rollback, database
<1>7. QED
  BY <1>2, <1>3, <1>4, <1>5, <1>6, StepCases
     DEF Begin, Start, Advance, Reserve, Goto, LockTarget, SetWalletStatus,
         FlagForReview, session, vars

\* A COMMIT moves on each cell what the session wrote there.
LEMMA CommitBalances ==
  ASSUME TypeOK, IsolationInv, NetInv, NEW s \in Sessions, Commit(s)
  PROVE  \A c \in Cells : bal'[c] = bal[c] + NetOn(c, mine[s])
<1> SUFFICES ASSUME NEW c \in Cells PROVE bal'[c] = bal[c] + NetOn(c, mine[s])
  OBVIOUS
<1>1. bal'[c] = IF c[1] \in held[s] THEN work[s][c] ELSE bal[c]
  BY DEF Commit
<1>2. CASE c[1] \in held[s]
  BY <1>1, <1>2 DEF NetInv, NetOK
<1>3. CASE c[1] \notin held[s]
  <2>1. OnCell(c, mine[s]) = {}
    BY <1>3 DEF OnCell, IsolationInv, WritesOK
  <2>2. NetOn(c, mine[s]) = 0
    BY <2>1, NetOnUnfolds, SumEmpty
  <2>3. QED
    BY <1>1, <1>3, <2>2 DEF TypeOK
<1>4. QED
  BY <1>2, <1>3

\* A COMMIT writes entries that net to zero, and so does what it moves.
LEMMA ConservedStep ==
  TypeOK /\ IsolationInv /\ NetInv /\ Conserved /\ [Next]_vars => Conserved'
<1> SUFFICES ASSUME TypeOK, IsolationInv, NetInv, Conserved, [Next]_vars PROVE Conserved'
  OBVIOUS
<1>1. ASSUME NEW s \in Sessions, Commit(s) PROVE Conserved'
  <2> DEFINE moved == [c \in Cells |-> NetOn(c, mine[s])]
  <2>1. mine[s] \in Seq(Entry) /\ Net(mine[s]) = 0 /\ DOMAIN bal = Cells /\ DOMAIN bal' = Cells
    BY <1>1 DEF TypeOK, Commit
  <2>2. \A c \in Cells : bal[c] \in Int /\ moved[c] \in Int /\ bal'[c] = bal[c] + moved[c]
    BY <1>1, <2>1, NetIsSum, CommitBalances DEF TypeOK
  <2>3. SumFunctionOnSet(moved, Cells) = 0
    BY <2>1, NetIsSum
  <2> HIDE DEF moved
  <2>4. SumFunctionOnSet(bal', Cells) = SumFunctionOnSet(bal, Cells) + SumFunctionOnSet(moved, Cells)
    BY <2>2, CellsFinite, SumOfSums
  <2>5. SumFunctionOnSet(bal, Cells) = 0
    BY <2>1 DEF Conserved, SumFunction
  <2>6. SumFunctionOnSet(bal', Cells) = 0
    BY <2>3, <2>4, <2>5
  <2>7. QED
    BY <2>1, <2>6 DEF Conserved, SumFunction
<1>2. CASE bal' = bal
  BY <1>2 DEF Conserved
<1>3. QED
  BY <1>1, <1>2, StepCases
     DEF Begin, Start, Rollback, database, Advance, Reserve, Goto, LockTarget, LockNext, TakeRow,
         ApplyMovement, WriteEntry, SetWalletStatus, FlagForReview, session, vars

\* Tokens are neither created nor destroyed.
THEOREM TokensConserved == Spec => []Conserved
<1>1. Init => NetInv /\ Conserved
  <2> SUFFICES ASSUME Init PROVE NetInv /\ Conserved
    OBVIOUS
  <2>1. NetInv
    BY DEF Init, NetInv, NetOK
  <2>2. DOMAIN bal = Cells /\ \A c \in Cells : bal[c] = 0
    BY DEF Init, Fresh
  <2>3. SumFunctionOnSet(bal, Cells) = 0
    BY <2>2, CellsFinite, SumOfZeros
  <2>4. QED
    BY <2>1, <2>2, <2>3 DEF Conserved, SumFunction
<1>2. QED
  BY <1>1, TypeCorrect, Isolated, NetStep, ConservedStep, PTL DEF Spec

------------------------------------------------------------------------------
(* The ledger implements the atomic one.                                     *)

\* An open call is one that a caller may ask for.
JobInv == \A s \in Sessions : pc[s] # "idle" => Asked(job[s])

\* Calls stay what they were asked for.
LEMMA JobStep == TypeOK /\ JobInv /\ [Next]_vars => JobInv'
<1> SUFFICES ASSUME TypeOK, JobInv, [Next]_vars PROVE JobInv'
  OBVIOUS
<1>1. ASSUME NEW s \in Sessions, Begin(s) PROVE JobInv'
  <2>1. /\ Asked(job'[s])
        /\ \A o \in Sessions \ {s} : pc'[o] = pc[o] /\ job'[o] = job[o]
    BY <1>1 DEF Begin, Start, TypeOK
  <2>2. QED
    BY <2>1 DEF JobInv
<1>2. ASSUME NEW s \in Sessions, NEW result \in Outcomes, End(s, result) PROVE JobInv'
  <2>1. pc'[s] = "idle" /\ \A o \in Sessions \ {s} : pc'[o] = pc[o] /\ job'[o] = job[o]
    BY <1>2 DEF End, TypeOK
  <2>2. QED
    BY <2>1 DEF JobInv
<1>3. ASSUME NEW s \in Sessions, LockTarget(s) PROVE JobInv'
  <2>1. /\ job'[s].op = "reverse" /\ job'[s].key = NoKey
        /\ \A o \in Sessions \ {s} : pc'[o] = pc[o] /\ job'[o] = job[o]
    BY <1>3 DEF LockTarget, NewJob, TypeOK
  <2>2. QED
    BY <2>1 DEF JobInv, Asked
<1>4. ASSUME NEW s \in Sessions,
             Advance(s) \/ Reserve(s) \/ LockNext(s) \/ ApplyMovement(s)
      PROVE  JobInv'
  <2>1. pc[s] # "idle" /\ job' = job /\ \A o \in Sessions \ {s} : pc'[o] = pc[o]
    BY <1>4 DEF Advance, Reserve, Goto, LockNext, TakeRow, ApplyMovement, WriteEntry, TypeOK
  <2>2. QED
    BY <2>1 DEF JobInv
<1>5. CASE UNCHANGED <<pc, job>>
  BY <1>5 DEF JobInv
<1>6. QED
  BY <1>1, <1>2, <1>3, <1>4, <1>5, StepCases
     DEF Rollback, Commit, Outcomes, SetWalletStatus, FlagForReview, session, vars

Log == [t \in DOMAIN txns |->
          [key |-> txns[t].key, status |-> txns[t].status,
           reverses |-> txns[t].reverses, movs |-> Strip(txns[t].entries)]]

\* A list and its entries move the same.
LEMMA StripMoves ==
  ASSUME NEW es \in Seq(Entry), NEW c \in Cells
  PROVE  NetOn(c, Strip(es)) = NetOn(c, es)
<1>1. Deltas(Strip(es)) = Deltas(es) /\ OnCell(c, Strip(es)) = OnCell(c, es)
  BY DEF Strip, Deltas, OnCell
<1>2. QED
  BY <1>1, NetOnUnfolds

\* What a session that commits has written is the list that it was asked for.
LEMMA CommitStrips ==
  ASSUME TypeOK, PrefixInv, NEW s \in Sessions, Commit(s)
  PROVE  Strip(mine[s]) = job[s].movs
<1>1. /\ mine[s] \in Seq(Entry) /\ job[s].movs \in Seq(Movement)
      /\ Len(mine[s]) = Len(job[s].movs)
  BY DEF TypeOK, Job, Commit
<1>2. /\ DOMAIN mine[s] = DOMAIN job[s].movs
      /\ job[s].movs = [i \in DOMAIN job[s].movs |-> job[s].movs[i]]
  BY <1>1
<1>3. ASSUME NEW i \in DOMAIN mine[s]
      PROVE  [wallet |-> mine[s][i].wallet, kind |-> mine[s][i].kind,
              delta |-> mine[s][i].delta] = job[s].movs[i]
  <2>1. job[s].movs[i] \in Movement
    BY <1>1, <1>2
  <2>2. /\ mine[s][i].wallet = job[s].movs[i].wallet
        /\ mine[s][i].kind = job[s].movs[i].kind
        /\ mine[s][i].delta = job[s].movs[i].delta
    BY DEF PrefixInv
  <2>3. QED
    BY <2>1, <2>2 DEF Movement
<1>4. QED
  BY <1>2, <1>3 DEF Strip

\* The committed transactions after a COMMIT, as the atomic ledger sees them.
LEMMA CommitLog ==
  ASSUME TypeOK, NEW s \in Sessions, Commit(s)
  PROVE  Log' = Append([t \in DOMAIN Log |->
                          IF t = job[s].target THEN [Log[t] EXCEPT !.status = "reversed"]
                                               ELSE Log[t]],
                       [key |-> job[s].key, status |-> "completed",
                        reverses |-> job[s].target, movs |-> Strip(mine[s])])
<1> DEFINE n == Len(txns) + 1
           before == [t \in DOMAIN Log |->
                        IF t = job[s].target THEN [Log[t] EXCEPT !.status = "reversed"]
                                             ELSE Log[t]]
           new == [key |-> job[s].key, status |-> "completed",
                   reverses |-> job[s].target, movs |-> Strip(mine[s])]
<1>1. /\ DOMAIN txns = 1 .. Len(txns) /\ Len(txns) \in Nat
      /\ DOMAIN txns' = 1 .. n /\ txns'[n] = NewTxn(s)
      /\ \A t \in DOMAIN txns :
           /\ txns'[t].key = txns[t].key /\ txns'[t].entries = txns[t].entries
           /\ txns'[t].reverses = txns[t].reverses
           /\ txns'[t].status = IF t = job[s].target THEN "reversed" ELSE txns[t].status
  BY CommitTxns
<1>2. \A es : Strip(es)' = Strip(es)
  BY DEF Strip
<1>3. Log' = [t \in 1 .. n |->
                [key |-> txns'[t].key, status |-> txns'[t].status,
                 reverses |-> txns'[t].reverses, movs |-> Strip(txns'[t].entries)]]
  BY <1>1, <1>2 DEF Log, Strip
<1>4. before = [t \in 1 .. Len(txns) |->
                  [key |-> txns[t].key,
                   status |-> IF t = job[s].target THEN "reversed" ELSE txns[t].status,
                   reverses |-> txns[t].reverses, movs |-> Strip(txns[t].entries)]]
  BY <1>1 DEF Log
<1>5. IsSeq(before) /\ Len(before) = Len(txns)
  BY <1>1, <1>4 DEF IsSeq
<1>6. new = [key |-> txns'[n].key, status |-> txns'[n].status,
             reverses |-> txns'[n].reverses, movs |-> Strip(txns'[n].entries)]
  BY <1>1 DEF NewTxn
<1>7. \A t \in 1 .. Len(txns) : Log'[t] = before[t]
  BY <1>1, <1>3, <1>4
<1>8. Log'[n] = new /\ DOMAIN Log' = 1 .. n
  BY <1>1, <1>3, <1>6
<1> HIDE DEF before, new
<1>9. /\ DOMAIN Append(before, new) = 1 .. n
      /\ \A t \in 1 .. Len(txns) : Append(before, new)[t] = before[t]
      /\ Append(before, new)[n] = new
      /\ IsSeq(Append(before, new))
  BY <1>5, AppendFacts
<1>10. \A t \in 1 .. n : Log'[t] = Append(before, new)[t]
  BY <1>1, <1>7, <1>8, <1>9
<1>11. Log' = [t \in 1 .. n |-> Log'[t]]
  BY <1>3
<1>12. Append(before, new) = [t \in 1 .. n |-> Append(before, new)[t]]
  BY <1>9 DEF IsSeq
<1>13. Log' = Append(before, new)
  BY <1>10, <1>11, <1>12
<1>14. QED
  BY <1>13 DEF before, new

\* A COMMIT is one step of the atomic ledger.
LEMMA CommitIsAtomic ==
  ASSUME TypeOK, NonNegativeInv, NonNegative', KeysInv, IsolationInv, PrefixInv, ReversingInv,
         NetInv, JobInv, NEW s \in Sessions, Commit(s)
  PROVE  Atomic!Post \/ Atomic!Mint \/ Atomic!Reverse
<1>0. PICK ms, key, target : ms = job[s].movs /\ key = job[s].key /\ target = job[s].target
  OBVIOUS
<1>1. /\ mine[s] \in Seq(Entry) /\ pc[s] = "apply" /\ wstatus' = wstatus /\ bal' \in [Cells -> Int]
      /\ key \in Keys \union {NoKey} /\ ms = Strip(mine[s]) /\ job[s].op \in {"post", "mint", "reverse"}
  BY <1>0, CommitStrips, TypeStep DEF TypeOK, Commit, Job, Next, Step
<1>2. \A c \in Cells : bal'[c] = bal[c] + NetOn(c, ms)
  BY <1>1, CommitBalances, StripMoves
<1>3. bal' = Atomic!After(ms)
  BY <1>1, <1>2 DEF Atomic!After, Atomic!Cells, Cells, NetOn
<1>4. Atomic!Record(ms, key, target)
  BY <1>0, <1>1, <1>3, CommitLog DEF Atomic!Record, Log
<1>5. ASSUME NEW frozenOk \in BOOLEAN, AllowFrozen(s) => frozenOk
      PROVE  Atomic!MayPost(ms, key, frozenOk)
  <2>1. key = NoKey \/ \A t \in DOMAIN Log : Log[t].key # key
    BY <1>0, <1>1 DEF KeysInv, InsertedKey, CommittedKeys, Log
  <2>2. frozenOk \/ \A i \in DOMAIN ms : wstatus[ms[i].wallet] = "active"
    BY <1>1, <1>5 DEF IsolationInv, WritesOK, Strip
  <2>3. \A c \in Cells : c = <<Genesis, "available">> \/ bal'[c] >= 0
    BY <1>1 DEF NonNegative, Overdrawn
  <2>4. QED
    BY <1>3, <2>1, <2>2, <2>3 DEF Atomic!MayPost, Atomic!Cells, Cells, Log
<1>6. Asked(job[s])
  BY <1>1 DEF JobInv
<1>7. CASE job[s].op = "post"
  <2>1. ms \in Postings /\ target = 0
    BY <1>0, <1>6, <1>7 DEF Asked, ReversingInv
  <2>2. Atomic!MayPost(ms, key, FALSE)
    BY <1>5, <1>7 DEF AllowFrozen
  <2>3. QED
    BY <1>1, <1>4, <2>1, <2>2 DEF Atomic!Post
<1>8. CASE job[s].op = "mint"
  <2>1. PICK amount \in MintAmounts : ms = Issue(amount)
    BY <1>0, <1>6, <1>8 DEF Asked
  <2>2. target = 0
    BY <1>0, <1>8 DEF ReversingInv
  <2>3. Atomic!MayPost(ms, key, TRUE)
    BY <1>5
  <2>4. QED
    BY <1>1, <1>4, <2>1, <2>2, <2>3 DEF Atomic!Mint, Issue
<1>9. CASE job[s].op = "reverse"
  <2>1. key = NoKey /\ target \in Nat /\ LocksTxn(s, target)
    BY <1>0, <1>1, <1>6, <1>9 DEF Asked, LocksTxn, TypeOK, Job
  <2>2. /\ target \in DOMAIN txns /\ txns[target].status # "reversed"
        /\ ms = Mirror(txns[target].entries)
    BY <1>0, <2>1 DEF ReversingInv
  <2>3. ms = [i \in DOMAIN Log[target].movs |-> [Log[target].movs[i] EXCEPT !.delta = -@]]
    BY <2>2 DEF Mirror, Log, Strip
  <2>4. Atomic!MayPost(ms, NoKey, TRUE)
    BY <1>5, <2>1
  <2>5. target \in DOMAIN Log /\ Log[target].status # "reversed"
    BY <2>2 DEF Log
  <2>6. QED
    BY <1>4, <2>1, <2>3, <2>4, <2>5 DEF Atomic!Reverse, Log
<1>10. QED
  BY <1>1, <1>7, <1>8, <1>9

\* Every other step is a change of a status, or none.
LEMMA StepIsAtomic ==
  ASSUME TypeOK, NonNegativeInv, KeysInv, LocksInv, IsolationInv, PrefixInv, ReversingInv,
         NetInv, JobInv, [Next]_vars
  PROVE  [Atomic!Next]_(Atomic!vars)
<1>1. ASSUME NEW s \in Sessions, Commit(s) PROVE Atomic!Next
  BY <1>1, NonNegativeStep, CommitIsAtomic DEF Atomic!Next, NonNegativeInv
<1>2. ASSUME NEW f \in Freezes, SetWalletStatus(f[1], f[2]) PROVE Atomic!Next
  BY <1>2 DEF SetWalletStatus, Atomic!Next, Atomic!SetStatus
<1>3. ASSUME NEW t \in DOMAIN txns, FlagForReview(t) PROVE Atomic!Next
  <2>1. /\ DOMAIN txns' = DOMAIN txns /\ txns[t].status = "completed" /\ UNCHANGED <<bal, wstatus>>
        /\ \A u \in DOMAIN txns :
              /\ txns'[u].key = txns[u].key /\ txns'[u].entries = txns[u].entries
              /\ txns'[u].reverses = txns[u].reverses
              /\ txns'[u].status = IF u = t THEN "under_review" ELSE txns[u].status
    BY <1>3, FlagTxns DEF FlagForReview
  <2>2. Log' = [Log EXCEPT ![t].status = "under_review"]
    <3>1. DOMAIN Log = DOMAIN txns /\ DOMAIN Log' = DOMAIN txns
      BY <2>1 DEF Log
    <3>2. \A u \in DOMAIN txns : u # t => Log'[u] = Log[u]
      BY <2>1 DEF Log
    <3>3. Log'[t] = [Log[t] EXCEPT !.status = "under_review"]
      BY <2>1 DEF Log
    <3>4. \A u \in DOMAIN txns : Log'[u] = [Log EXCEPT ![t].status = "under_review"][u]
      BY <3>1, <3>2, <3>3
    <3>5. Log' = [u \in DOMAIN txns |-> Log'[u]]
      BY <2>1 DEF Log
    <3>6. QED
      BY <3>1, <3>4, <3>5
  <2>3. t \in DOMAIN Log /\ Log[t].status = "completed"
    BY <2>1 DEF Log
  <2>4. QED
    BY <2>1, <2>2, <2>3 DEF Atomic!Next, Atomic!Review, Log
<1>4. CASE UNCHANGED <<bal, wstatus, txns>>
  BY <1>4 DEF Atomic!vars, Strip
<1>5. QED
  BY <1>1, <1>2, <1>3, <1>4, StepCases
     DEF Begin, Start, Rollback, database, Advance, Reserve, Goto, LockTarget, LockNext, TakeRow,
         ApplyMovement, WriteEntry, vars

\* The concurrent ledger, with its locks, its waiting and its crashes, implements
\* the atomic one: every call takes effect at one instant or not at all.
THEOREM LedgerIsAtomic == Spec => ImplementsAtomic
<1>1. Init => /\ Atomic!Init
              /\ NonNegativeInv /\ KeysInv /\ PrefixInv /\ ReversingInv /\ NetInv /\ JobInv
  BY DEF Init, Atomic!Init, Atomic!Cells, Cells, Fresh, NonNegativeInv, NonNegative, Overdrawn,
         KeysInv, UniqueKeys, InsertedKey, PrefixInv, ReversingInv, LocksTxn, NoJob, NewJob,
         NetInv, NetOK, JobInv
<1>2. QED
  BY <1>1, TypeCorrect, Isolated, NonNegativeStep, KeysStep, PrefixStep, ReversingStep, NetStep,
     JobStep, StepIsAtomic, PTL DEF Spec, ImplementsAtomic, Atomic!Spec
==============================================================================
