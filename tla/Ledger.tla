------------------------------- MODULE Ledger -------------------------------
(***************************************************************************)
(* The double-entry ledger of qntm-ledger (src/qntm-ledger/src/ledger.js), *)
(* as the database sessions that run it see it.  postTransaction,          *)
(* treasury.mint and reverseTransaction are sequences of SQL statements    *)
(* inside one READ COMMITTED transaction; each statement that reads,       *)
(* locks, waits or writes is one action here, and the sessions interleave. *)
(*                                                                         *)
(* Two statements make a session wait: an INSERT whose idempotency_key is  *)
(* being inserted by an open transaction (uq_txn_idempotency), and a row   *)
(* lock another open transaction holds.  A session keeps what it locked    *)
(* and what it wrote to itself until it commits; any error rolls the whole *)
(* of it back.                                                             *)
(***************************************************************************)
EXTENDS Integers, Sequences, FiniteSets, Functions

CONSTANTS
  Sessions,    \* database sessions: concurrent callers of the ledger
  NWallets,    \* wallets are rows with ids 1 .. NWallets
  Keys,        \* idempotency keys callers may supply
  NoKey,       \* the call carries no idempotency key
  Postings,    \* the movement lists that callers ask for
  MintAmounts, \* the amounts that administrators mint
  Freezes,     \* the pairs <<wallet, status>> that administrators set
  MaxSupply,   \* QNTM_MAX_SUPPLY; the cap on what genesis has issued
  MaxTxns      \* bound: no call starts once so many transactions are committed

Kinds == {"available", "pending", "locked"}
Wallets == 1 .. NWallets
Cells == Wallets \X Kinds
Genesis == 1    \* SYSTEM_WALLETS creates the contra-account first
Treasury == 2
Statuses == {"active", "frozen", "closed"}
Movement == [wallet : Wallets, kind : Kinds, delta : Int]
Entry == [wallet : Wallets, kind : Kinds, delta : Int, after : Int]

ASSUME LedgerAssumption ==
  /\ NWallets \in Nat /\ NWallets >= Treasury
  /\ NoKey \notin Keys
  /\ Postings \subseteq Seq(Movement)
  /\ MintAmounts \subseteq Int
  /\ Freezes \subseteq Wallets \X Statuses
  /\ MaxSupply \in Nat
  /\ MaxTxns \in Nat

VARIABLES
  bal,      \* committed wallets.{available,pending,locked}_balance
  wstatus,  \* committed wallets.status
  txns,     \* committed transactions, each with its ledger_entries
  pc,       \* what each session does next
  job,      \* the call each session runs
  held,     \* the wallet rows each session has locked
  work,     \* the balances as the session itself sees them
  mine,     \* the ledger_entries the session has written, uncommitted
  outcome   \* how the session's latest call ended, once it has

database == <<bal, wstatus, txns>>
session == <<pc, job, held, work, mine, outcome>>
vars == <<bal, wstatus, txns, pc, job, held, work, mine, outcome>>

------------------------------------------------------------------------------
(* What a call carries.                                                      *)

\* target: the transaction to reverse, 0 otherwise.
Job == [op : {"post", "mint", "reverse"}, key : Keys \union {NoKey},
        movs : Seq(Movement), target : Nat]

NewJob(op, key, movs, target) ==
  [op |-> op, key |-> key, movs |-> movs, target |-> target]

NoJob == NewJob("post", NoKey, <<>>, 0)

Net(ms) == SumFunction([i \in DOMAIN ms |-> ms[i].delta])

\* validateMovements: at least two movements, positive amounts (a debit is a
\* negative delta), netting to zero.
Valid(ms) == /\ Len(ms) >= 2
             /\ \A i \in DOMAIN ms : ms[i].delta # 0
             /\ Net(ms) = 0

Issue(amount) ==
  << [wallet |-> Genesis,  kind |-> "available", delta |-> -amount],
     [wallet |-> Treasury, kind |-> "available", delta |-> amount] >>

Mirror(es) == [i \in DOMAIN es |-> [wallet |-> es[i].wallet, kind |-> es[i].kind,
                                    delta |-> -es[i].delta]]

CommittedKeys == {txns[t].key : t \in DOMAIN txns} \ {NoKey}
\* A mint and a reversal post with allowFrozen.
AllowFrozen(s) == job[s].op # "post"
Needed(s) == {job[s].movs[i].wallet : i \in DOMAIN job[s].movs}
Fresh == [c \in Cells |-> 0]

\* The session's INSERT INTO transactions is in the unique index, uncommitted.
InsertedKey(s) == pc[s] \in {"lock", "apply"}
\* The session holds the row lock of the transaction that it reverses.
LocksTxn(s, t) == /\ job[s].op = "reverse" /\ job[s].target = t
                  /\ pc[s] \in {"insert", "lock", "apply"}

\* The session stops: its transaction is over, its locks are released.
End(s, result) ==
  /\ pc' = [pc EXCEPT ![s] = "idle"]
  /\ job' = [job EXCEPT ![s] = NoJob]
  /\ held' = [held EXCEPT ![s] = {}]
  /\ work' = [work EXCEPT ![s] = Fresh]
  /\ mine' = [mine EXCEPT ![s] = <<>>]
  /\ outcome' = [outcome EXCEPT ![s] = result]

Rollback(s, reason) == End(s, reason) /\ UNCHANGED database

Goto(s, label) ==
  /\ pc' = [pc EXCEPT ![s] = label]
  /\ UNCHANGED <<bal, wstatus, txns, job, held, work, mine, outcome>>

Start(s, j, label) ==
  /\ pc[s] = "idle"
  /\ Len(txns) < MaxTxns
  /\ pc' = [pc EXCEPT ![s] = label]
  /\ job' = [job EXCEPT ![s] = j]
  /\ outcome' = [outcome EXCEPT ![s] = "none"]
  /\ UNCHANGED <<bal, wstatus, txns, held, work, mine>>

------------------------------------------------------------------------------
(* The calls.                                                                *)

Init ==
  /\ bal = Fresh
  /\ wstatus = [w \in Wallets |-> "active"]
  /\ txns = <<>>
  /\ pc = [s \in Sessions |-> "idle"]
  /\ job = [s \in Sessions |-> NoJob]
  /\ held = [s \in Sessions |-> {}]
  /\ work = [s \in Sessions |-> Fresh]
  /\ mine = [s \in Sessions |-> <<>>]
  /\ outcome = [s \in Sessions |-> "none"]

AfterBegin(key) == IF key = NoKey THEN "insert" ELSE "key"

PostTransaction(s) ==
  \E ms \in Postings, key \in Keys \union {NoKey} :
    /\ Valid(ms)
    /\ Start(s, NewJob("post", key, ms, 0), AfterBegin(key))

Mint(s) ==
  \E amount \in MintAmounts, key \in Keys \union {NoKey} :
    /\ Valid(Issue(amount))
    /\ Start(s, NewJob("mint", key, Issue(amount), 0), "cap")

ReverseTransaction(s) ==
  \E t \in 1 .. Len(txns) + 1 : Start(s, NewJob("reverse", NoKey, <<>>, t), "target")

\* mint compares what genesis has issued, read without a lock, with the cap.
CheckCap(s) ==
  /\ pc[s] = "cap"
  /\ IF -bal[<<Genesis, "available">>] + job[s].movs[2].delta > MaxSupply
       THEN Rollback(s, "overcap")
       ELSE Goto(s, AfterBegin(job[s].key))

\* Faulty: the SELECT of the original without FOR UPDATE.
LockTargetUnlocked(s) ==
  /\ pc[s] = "target"
  /\ job[s].target \in DOMAIN txns
  /\ txns[job[s].target].status # "reversed"
  /\ job' = [job EXCEPT ![s] =
       NewJob("reverse", NoKey, Mirror(txns[job[s].target].entries), job[s].target)]
  /\ pc' = [pc EXCEPT ![s] = "insert"]
  /\ UNCHANGED <<bal, wstatus, txns, held, work, mine, outcome>>

\* reverseTransaction: SELECT ... FOR UPDATE on the original, its status, its
\* entries mirrored.
LockTarget(s) ==
  /\ pc[s] = "target"
  /\ job[s].target \in DOMAIN txns
  /\ \A o \in Sessions : ~LocksTxn(o, job[s].target)
  /\ txns[job[s].target].status # "reversed"
  /\ job' = [job EXCEPT ![s] =
       NewJob("reverse", NoKey, Mirror(txns[job[s].target].entries), job[s].target)]
  /\ pc' = [pc EXCEPT ![s] = "insert"]
  /\ UNCHANGED <<bal, wstatus, txns, held, work, mine, outcome>>

RejectMissing(s) ==
  /\ pc[s] = "target"
  /\ job[s].target \notin DOMAIN txns
  /\ Rollback(s, "missing")

RejectReversed(s) ==
  /\ pc[s] = "target"
  /\ job[s].target \in DOMAIN txns
  /\ \A o \in Sessions : ~LocksTxn(o, job[s].target)
  /\ txns[job[s].target].status = "reversed"
  /\ Rollback(s, "conflict")

\* SELECT ... WHERE idempotency_key: sees committed transactions only.
CheckKey(s) ==
  /\ pc[s] = "key"
  /\ IF job[s].key \in CommittedKeys
       THEN Rollback(s, "replayed")
       ELSE Goto(s, "insert")

\* Faulty: no unique index on idempotency_key.
InsertTxnUnindexed(s) == pc[s] = "insert" /\ Goto(s, "lock")

\* INSERT INTO transactions: waits for an open transaction with the same key;
\* if the key is committed by then, 23505 aborts the session's transaction,
\* and with it the SELECT that the handler retries.
InsertTxn(s) ==
  /\ pc[s] = "insert"
  /\ job[s].key # NoKey =>
       \A o \in Sessions : ~(InsertedKey(o) /\ job[o].key = job[s].key)
  /\ IF job[s].key \in CommittedKeys
       THEN Rollback(s, "duplicate")
       ELSE Goto(s, "lock")

\* What locking the row w does to the session.
TakeRow(s, w) ==
  /\ held' = [held EXCEPT ![s] = @ \union {w}]
  /\ work' = [work EXCEPT ![s] =
       [c \in Cells |-> IF c[1] = w THEN bal[c] ELSE @[c]]]
  /\ pc' = [pc EXCEPT ![s] =
       IF Needed(s) \subseteq held[s] \union {w} THEN "apply" ELSE "lock"]
  /\ UNCHANGED <<bal, wstatus, txns, job, mine, outcome>>

\* Faulty: the rows are read without FOR UPDATE.
LockNextShared(s) ==
  /\ pc[s] = "lock"
  /\ \E w \in Needed(s) \ held[s] : TakeRow(s, w)

\* Faulty: the rows are locked in the order in which they are found.
LockNextUnordered(s) ==
  /\ pc[s] = "lock"
  /\ \E w \in Needed(s) \ held[s] :
       (\A o \in Sessions : w \notin held[o]) /\ TakeRow(s, w)

\* lockWallets: SELECT ... ORDER BY id FOR UPDATE locks row after row; the
\* statement returns when the last one is locked.
LockNext(s) ==
  /\ pc[s] = "lock"
  /\ \E w \in Needed(s) \ held[s] :
       /\ \A v \in Needed(s) \ held[s] : w <= v
       /\ \A o \in Sessions : w \notin held[o]
       /\ TakeRow(s, w)

Next1(s) == job[s].movs[Len(mine[s]) + 1]
NextCell(s) == <<Next1(s).wallet, Next1(s).kind>>
NewBalance(s) == work[s][NextCell(s)] + Next1(s).delta

\* trg_wallet_nonneg: only what genesis has available may be negative.
Overdrawn(c, amount) == amount < 0 /\ c # <<Genesis, "available">>

\* What one UPDATE of a balance and the INSERT of its entry do.
WriteEntry(s, recorded) ==
  /\ work' = [work EXCEPT ![s][NextCell(s)] = NewBalance(s)]
  /\ mine' = [mine EXCEPT ![s] = Append(@,
       [wallet |-> Next1(s).wallet, kind |-> Next1(s).kind,
        delta |-> Next1(s).delta, after |-> recorded])]
  /\ UNCHANGED <<bal, wstatus, txns, pc, job, held, outcome>>

\* Faulty: no trg_wallet_nonneg.
ApplyMovementUnguarded(s) ==
  /\ pc[s] = "apply"
  /\ Len(mine[s]) < Len(job[s].movs)
  /\ ~AllowFrozen(s) => wstatus[Next1(s).wallet] = "active"
  /\ WriteEntry(s, NewBalance(s))

\* Faulty: balance_after is the balance that the UPDATE found.
ApplyMovementStale(s) ==
  /\ pc[s] = "apply"
  /\ Len(mine[s]) < Len(job[s].movs)
  /\ ~AllowFrozen(s) => wstatus[Next1(s).wallet] = "active"
  /\ ~Overdrawn(NextCell(s), NewBalance(s))
  /\ WriteEntry(s, work[s][NextCell(s)])

\* One turn of the loop: the frozen check, UPDATE wallets, INSERT INTO
\* ledger_entries.
ApplyMovement(s) ==
  /\ pc[s] = "apply"
  /\ Len(mine[s]) < Len(job[s].movs)
  /\ ~AllowFrozen(s) => wstatus[Next1(s).wallet] = "active"
  /\ ~Overdrawn(NextCell(s), NewBalance(s))
  /\ WriteEntry(s, NewBalance(s))

RejectFrozen(s) ==
  /\ pc[s] = "apply"
  /\ Len(mine[s]) < Len(job[s].movs)
  /\ ~AllowFrozen(s) /\ wstatus[Next1(s).wallet] # "active"
  /\ Rollback(s, "frozen")

\* Faulty: the movements already applied stay.
RejectOverdraftPartly(s) ==
  /\ pc[s] = "apply"
  /\ Len(mine[s]) < Len(job[s].movs)
  /\ ~AllowFrozen(s) => wstatus[Next1(s).wallet] = "active"
  /\ Overdrawn(NextCell(s), NewBalance(s))
  /\ bal' = [c \in Cells |-> IF c[1] \in held[s] THEN work[s][c] ELSE bal[c]]
  /\ UNCHANGED <<wstatus, txns>>
  /\ End(s, "insufficient")

RejectOverdraft(s) ==
  /\ pc[s] = "apply"
  /\ Len(mine[s]) < Len(job[s].movs)
  /\ ~AllowFrozen(s) => wstatus[Next1(s).wallet] = "active"
  /\ Overdrawn(NextCell(s), NewBalance(s))
  /\ Rollback(s, "insufficient")

\* Faulty: the row keeps the default status of the table.
NewTxnPending(s) == [key |-> job[s].key, status |-> "pending",
                     reverses |-> job[s].target, entries |-> mine[s]]

NewTxn(s) == [key |-> job[s].key, status |-> "completed",
              reverses |-> job[s].target, entries |-> mine[s]]

\* COMMIT, after the deferred ledger_balanced trigger.  A reversal has marked
\* its original by then (trg_txn_guard lets completed and under_review go).
Commit(s) ==
  /\ pc[s] = "apply"
  /\ Len(mine[s]) = Len(job[s].movs)
  /\ Net(mine[s]) = 0
  /\ bal' = [c \in Cells |-> IF c[1] \in held[s] THEN work[s][c] ELSE bal[c]]
  /\ txns' = Append([t \in DOMAIN txns |->
                       IF t = job[s].target THEN [txns[t] EXCEPT !.status = "reversed"]
                                            ELSE txns[t]],
                    NewTxn(s))
  /\ UNCHANGED wstatus
  /\ End(s, "posted")

\* The connection or the process is lost before COMMIT.
Crash(s) == pc[s] # "idle" /\ Rollback(s, "crashed")

\* Faulty: the status changes under another session's row lock.
SetWalletStatusUnlocked(w, status) ==
  /\ wstatus' = [wstatus EXCEPT ![w] = status]
  /\ UNCHANGED <<bal, txns, session>>

\* setWalletStatus: one UPDATE, which waits for the row.
SetWalletStatus(w, status) ==
  /\ \A s \in Sessions : w \notin held[s]
  /\ wstatus' = [wstatus EXCEPT ![w] = status]
  /\ UNCHANGED <<bal, txns, session>>

\* Faulty: a transaction is flagged whatever its status.
FlagForReviewAny(t) ==
  /\ \A s \in Sessions : ~LocksTxn(s, t)
  /\ txns' = [txns EXCEPT ![t].status = "under_review"]
  /\ UNCHANGED <<bal, wstatus, session>>

\* risk.flagForReview: one UPDATE, which waits for the row.
FlagForReview(t) ==
  /\ \A s \in Sessions : ~LocksTxn(s, t)
  /\ txns[t].status = "completed"
  /\ txns' = [txns EXCEPT ![t].status = "under_review"]
  /\ UNCHANGED <<bal, wstatus, session>>

Step(s) == \/ CheckCap(s) \/ LockTarget(s) \/ RejectMissing(s)
           \/ RejectReversed(s) \/ CheckKey(s) \/ InsertTxn(s) \/ LockNext(s)
           \/ ApplyMovement(s) \/ RejectFrozen(s)
           \/ RejectOverdraft(s) \/ Commit(s)

Next == \/ \E s \in Sessions : \/ PostTransaction(s) \/ Mint(s) \/ ReverseTransaction(s)
                             \/ Step(s) \/ Crash(s)
        \/ \E f \in Freezes : SetWalletStatus(f[1], f[2])
        \/ \E t \in DOMAIN txns : FlagForReview(t)

Spec == Init /\ [][Next]_vars

\* A session that can go on does: Node runs every continuation, and PostgreSQL
\* grants a row lock to those that wait in their order of arrival.
Fairness == \A s \in Sessions : SF_vars(Step(s))
FairSpec == Spec /\ Fairness

------------------------------------------------------------------------------
(* What the ledger promises.                                                 *)

Outcomes == {"none", "posted", "replayed", "duplicate", "frozen", "insufficient",
             "missing", "conflict", "overcap", "crashed"}
Labels == {"idle", "cap", "target", "key", "insert", "lock", "apply"}
Txn == [key : Keys \union {NoKey},
        status : {"completed", "under_review", "reversed"},
        reverses : Nat, entries : Seq(Entry)]

\* Every variable has its type.
TypeOK ==
  /\ bal \in [Cells -> Int]
  /\ wstatus \in [Wallets -> Statuses]
  /\ txns \in Seq(Txn)
  /\ pc \in [Sessions -> Labels]
  /\ job \in [Sessions -> Job]
  /\ held \in [Sessions -> SUBSET Wallets]
  /\ work \in [Sessions -> [Cells -> Int]]
  /\ mine \in [Sessions -> Seq(Entry)]
  /\ outcome \in [Sessions -> Outcomes]

\* No balance is ever negative, except what genesis has available: two
\* sessions that debit one wallet cannot overspend it.
NonNegative == \A c \in Cells : ~Overdrawn(c, bal[c])

\* Tokens are neither created nor destroyed: what genesis has issued is what
\* all other balances add up to.
Conserved == SumFunction(bal) = 0

\* The committed entries, as positions <<transaction, entry>> in ledger order.
Positions == UNION {{t} \X DOMAIN txns[t].entries : t \in DOMAIN txns}
EntryAt(p) == txns[p[1]].entries[p[2]]
CellAt(p) == <<EntryAt(p).wallet, EntryAt(p).kind>>
Before(p, q) == p[1] < q[1] \/ (p[1] = q[1] /\ p[2] < q[2])
Follows(q, p) == /\ CellAt(p) = CellAt(q) /\ Before(p, q)
                 /\ \A r \in Positions : ~(CellAt(r) = CellAt(q) /\ Before(p, r) /\ Before(r, q))

\* The ledger replays: each entry's balance_after is that of the entry before
\* it on the same wallet and kind, plus its own amount, and a stored balance is
\* the balance_after of the last one.  A lost update breaks it.
Replayable ==
  /\ \A q \in Positions :
       \/ /\ EntryAt(q).after = EntryAt(q).delta
          /\ ~\E p \in Positions : Follows(q, p)
       \/ \E p \in Positions :
            Follows(q, p) /\ EntryAt(q).after = EntryAt(p).after + EntryAt(q).delta
  /\ \A c \in Cells :
       \/ bal[c] = 0 /\ ~\E p \in Positions : CellAt(p) = c
       \/ \E p \in Positions :
            /\ CellAt(p) = c /\ EntryAt(p).after = bal[c]
            /\ ~\E q \in Positions : CellAt(q) = c /\ Before(p, q)

\* An idempotency key moves money at most once, however its retries interleave.
UniqueKeys ==
  \A t, u \in DOMAIN txns : t # u /\ txns[t].key # NoKey => txns[t].key # txns[u].key

\* A transaction is reversed at most once, its status says so exactly when it
\* is, and its reversal holds the opposite of each of its entries.
ReversedOnce ==
  \A t \in DOMAIN txns :
    /\ (txns[t].status = "reversed") <=> (\E u \in DOMAIN txns : txns[u].reverses = t)
    /\ \A u \in DOMAIN txns : txns[u].reverses = t =>
         /\ \A v \in DOMAIN txns : txns[v].reverses = t => v = u
         /\ DOMAIN txns[u].entries = DOMAIN txns[t].entries
         /\ \A i \in DOMAIN txns[t].entries :
              /\ txns[u].entries[i].wallet = txns[t].entries[i].wallet
              /\ txns[u].entries[i].kind = txns[t].entries[i].kind
              /\ txns[u].entries[i].delta = -txns[t].entries[i].delta

\* Row locks exclude: two sessions never hold the same wallet, and a session
\* that waits for a wallet holds only smaller ones, so waiting never makes a
\* cycle (lockWallets: "ordered by id to prevent deadlocks").
LockOrder ==
  /\ \A s, o \in Sessions : s # o => held[s] \intersect held[o] = {}
  /\ \A s \in Sessions : pc[s] = "lock" =>
       \A v \in held[s], w \in Needed(s) \ held[s] : v < w

\* History is append-only: a committed transaction keeps its key, its entries
\* and what it reverses, and never leaves the status reversed.
AppendOnly ==
  [][/\ Len(txns) <= Len(txns')
     /\ \A t \in DOMAIN txns :
          /\ txns'[t].key = txns[t].key /\ txns'[t].entries = txns[t].entries
          /\ txns'[t].reverses = txns[t].reverses
          /\ txns[t].status = "reversed" => txns'[t].status = "reversed"]_vars

\* Nothing moves in or out of a frozen or closed wallet except by a call with
\* allowFrozen: a freeze never slips in between the check and the COMMIT.
FrozenStays ==
  [][\A c \in Cells : wstatus[c[1]] # "active" /\ bal'[c] # bal[c] =>
       \E s \in Sessions : AllowFrozen(s) /\ outcome'[s] = "posted" /\ c[1] \in held[s]]_vars

\* Every call ends: no session waits for ever for a key or for a row.
CallsEnd == \A s \in Sessions : (pc[s] # "idle") ~> (pc[s] = "idle")

\* The header of ledger.js: a repeated idempotency_key returns the original
\* transaction.  A call whose key is committed never ends in an error.
RepeatedKeyReplays ==
  [][\A s \in Sessions : pc[s] # "idle" /\ pc'[s] = "idle" /\ job[s].key \in CommittedKeys
       => outcome'[s] \in {"replayed", "crashed"}]_vars

------------------------------------------------------------------------------
(* The concurrent ledger implements the atomic one: its transactions without *)
(* the balances that their entries recorded.                                 *)

Strip(es) == [i \in DOMAIN es |-> [wallet |-> es[i].wallet, kind |-> es[i].kind,
                                   delta |-> es[i].delta]]

Atomic == INSTANCE AtomicLedger WITH
  log <- [t \in DOMAIN txns |->
            [key |-> txns[t].key, status |-> txns[t].status,
             reverses |-> txns[t].reverses, movs |-> Strip(txns[t].entries)]]

\* Each COMMIT is one step of the atomic ledger, and every other step of a
\* session is none: a posting is all or nothing, and isolated.
ImplementsAtomic == Atomic!Spec
==============================================================================
