---------------------------- MODULE AtomicLedger ----------------------------
(***************************************************************************)
(* What the ledger of qntm-ledger promises its callers (the header of      *)
(* src/qntm-ledger/src/ledger.js and the triggers of sql/001_init.sql):    *)
(* every call takes effect at one instant or not at all.  Sessions, locks  *)
(* and half-written transactions do not appear here; Ledger is shown to    *)
(* implement this module.                                                  *)
(***************************************************************************)
EXTENDS Integers, Sequences, FiniteSets, Functions

CONSTANTS Wallets, Kinds, Genesis, Treasury, Keys, NoKey, Postings, MintAmounts, Freezes

VARIABLES
  bal,      \* wallets: a balance for each wallet and kind
  wstatus,  \* wallets.status
  log       \* the transactions: key, status, what it reverses, movements

vars == <<bal, wstatus, log>>

Cells == Wallets \X Kinds

NetOn(c, ms) ==
  SumFunctionOnSet([i \in DOMAIN ms |-> ms[i].delta],
                   {i \in DOMAIN ms : ms[i].wallet = c[1] /\ ms[i].kind = c[2]})

After(ms) == [c \in Cells |-> bal[c] + NetOn(c, ms)]

MayPost(ms, key, frozenOk) ==
  /\ key = NoKey \/ \A t \in DOMAIN log : log[t].key # key
  /\ frozenOk \/ \A i \in DOMAIN ms : wstatus[ms[i].wallet] = "active"
  /\ \A c \in Cells : c = <<Genesis, "available">> \/ After(ms)[c] >= 0

Record(ms, key, target) ==
  /\ bal' = After(ms)
  /\ log' = Append([t \in DOMAIN log |->
                      IF t = target THEN [log[t] EXCEPT !.status = "reversed"]
                                    ELSE log[t]],
                   [key |-> key, status |-> "completed", reverses |-> target,
                    movs |-> ms])
  /\ UNCHANGED wstatus

Init == /\ bal = [c \in Cells |-> 0]
        /\ wstatus = [w \in Wallets |-> "active"]
        /\ log = <<>>

\* A caller moves tokens.
Post == \E ms \in Postings, key \in Keys \union {NoKey} :
          MayPost(ms, key, FALSE) /\ Record(ms, key, 0)

\* An administrator issues tokens to the treasury.
Mint == \E amount \in MintAmounts, key \in Keys \union {NoKey} :
          LET ms == << [wallet |-> Genesis, kind |-> "available", delta |-> -amount],
                       [wallet |-> Treasury, kind |-> "available", delta |-> amount] >>
          IN  MayPost(ms, key, TRUE) /\ Record(ms, key, 0)

\* A transaction that is not reversed yet is undone by its mirror image.
Reverse ==
  \E t \in DOMAIN log :
    LET ms == [i \in DOMAIN log[t].movs |->
                 [log[t].movs[i] EXCEPT !.delta = -@]]
    IN  /\ log[t].status # "reversed"
        /\ MayPost(ms, NoKey, TRUE)
        /\ Record(ms, NoKey, t)

SetStatus == \E f \in Freezes : /\ wstatus' = [wstatus EXCEPT ![f[1]] = f[2]]
                                /\ UNCHANGED <<bal, log>>

Review == \E t \in DOMAIN log : /\ log[t].status = "completed"
                                /\ log' = [log EXCEPT ![t].status = "under_review"]
                                /\ UNCHANGED <<bal, wstatus>>

Next == Post \/ Mint \/ Reverse \/ SetStatus \/ Review

Spec == Init /\ [][Next]_vars
==============================================================================
