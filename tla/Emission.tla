------------------------------ MODULE Emission ------------------------------
(***************************************************************************)
(* Where QNTM come from and what administrators do with them: minting      *)
(* (src/qntm-ledger/src/treasury.js), the bootstrap of the fixed supply    *)
(* (economy/bootstrap.js), grants, reclaims and transfers between pools    *)
(* (phase1.js, adminEconomy.js, rewards.js), corrections that two persons  *)
(* make (adjustments.js) and the initial airdrop                           *)
(* (src/scripts/airdrop-initial-qntm.js).                                  *)
(***************************************************************************)
EXTENDS Postings

CONSTANTS
  Holders,         \* users with a wallet
  Officers,        \* administrators
  Minters,         \* requests to mint or to bootstrap that may be under way
  DropRuns,        \* runs of the airdrop script that may be under way
  MintSizes,       \* amounts minted
  Supply,          \* TOTAL_SUPPLY, and QNTM_MAX_SUPPLY
  Allocations,     \* what the bootstrap moves from the treasury to other pools
  Gift,            \* what the airdrop, a grant or a correction moves
  MaxAdjustments,  \* bound on the number of corrections
  MaxMoves         \* bound on the number of grants, reclaims and pool transfers

ASSUME AllocationAssumption ==
  Supply \in Nat /\ \A p \in DOMAIN Allocations : Allocations[p] \in Nat \ {0}
ASSUME GiftAssumption == \A u \in Holders : NoKey # <<"airdrop", u>>

VARIABLES
  minting,       \* what each request to mint or to bootstrap is doing
  bootstrapped,  \* qntm_system_status
  adjustments,   \* adjustment_requests
  drops          \* what each run of the airdrop is doing

emissionVars == <<minting, bootstrapped, adjustments, drops>>

Rewarding == Available("reward_pool")
Issued == -bal[Genesis]
Allocated == SumFunction(Allocations)
Pools == {Treasury} \union DOMAIN Allocations

NoMint == [stage |-> "idle"]
NoDrop == [stage |-> "idle"]

EmissionInit ==
  /\ minting = [w \in Minters |-> NoMint]
  /\ bootstrapped = FALSE
  /\ adjustments = <<>>
  /\ drops = [d \in DropRuns |-> NoDrop]

Entry(type, ref, key, amount) == [type |-> type, ref |-> ref, key |-> key, amount |-> amount]

------------------------------------------------------------------------------
\* mint, to the point where the cap is compared with what is issued; no lock is
\* held.  The key of the request is the request itself.
AskMint(w, amount) ==
  /\ minting[w] = NoMint
  /\ Issued + amount <= Supply
  /\ minting' = [minting EXCEPT ![w] = [stage |-> "mint", amount |-> amount]]
  /\ UNCHANGED <<bal, txns, bootstrapped, adjustments, drops>>

Mint(w) ==
  /\ minting[w].stage = "mint"
  /\ LET key == <<"mint", w>>  amount == minting[w].amount IN
     IF Committed(key) THEN UNCHANGED <<bal, txns>>
     ELSE /\ bal' = [bal EXCEPT ![Genesis] = @ - amount, ![Treasury] = @ + amount]
          /\ txns' = Append(txns, Entry("mint", w, key, amount))
  /\ minting' = [minting EXCEPT ![w] = NoMint]
  /\ UNCHANGED <<bootstrapped, adjustments, drops>>

\* bootstrap, under its advisory lock: neither the flag nor the whole supply.
AskBootstrap(w) ==
  /\ minting[w] = NoMint
  /\ \A v \in Minters : minting[v].stage # "bootstrap"
  /\ ~bootstrapped /\ Issued < Supply
  /\ minting' = [minting EXCEPT ![w] = [stage |-> "bootstrap"]]
  /\ UNCHANGED <<bal, txns, bootstrapped, adjustments, drops>>

\* It mints the whole supply and allocates it in one transaction; its keys make a
\* second one a replay.
Bootstrap(w) ==
  LET key == <<"qntm-bootstrap", "initial_mint_v1">> IN
  /\ minting[w].stage = "bootstrap"
  /\ IF Committed(key) THEN UNCHANGED <<bal, txns>>
     ELSE /\ bal' = [a \in Accounts |->
               CASE a = Genesis -> bal[a] - Supply
                 [] a = Treasury -> bal[a] + Supply - Allocated
                 [] a \in DOMAIN Allocations -> bal[a] + Allocations[a]
                 [] OTHER -> bal[a]]
          /\ txns' = Append(txns, Entry("bootstrap", "initial_mint_v1", key, Supply))
  /\ bootstrapped' = TRUE
  /\ minting' = [minting EXCEPT ![w] = NoMint]
  /\ UNCHANGED <<adjustments, drops>>

AbandonMint(w) ==
  /\ minting[w] # NoMint
  /\ minting' = [minting EXCEPT ![w] = NoMint]
  /\ UNCHANGED <<bal, txns, bootstrapped, adjustments, drops>>

------------------------------------------------------------------------------
\* Moves by an administrator: a grant from a pool (grant, grantFromPool,
\* adminGrant), a reclaim to the reward pool, and a transfer between two pools
\* (transferPool, fundRewardPool).
AdminMove(type, from, to) ==
  /\ Cardinality({x \in DOMAIN txns : txns[x].type \in {"grant", "reclaim", "pool_transfer"}}) < MaxMoves
  /\ Post(type, from, NoKey, from, Credit(to, Gift))
  /\ UNCHANGED emissionVars

GrantFromPool(p, u) == AdminMove("grant", p, Available(u))
AdminReclaim(u) == AdminMove("reclaim", Available(u), Rewarding)
TransferPool(p, q) == p # q /\ AdminMove("pool_transfer", p, q)

------------------------------------------------------------------------------
RequestAdjustment(by, u, direction) ==
  /\ Len(adjustments) < MaxAdjustments
  /\ adjustments' = Append(adjustments,
       [by |-> by, user |-> u, direction |-> direction, status |-> "pending", approver |-> by])
  /\ UNCHANGED <<bal, txns, minting, bootstrapped, drops>>

RejectAdjustment(i, by) ==
  /\ adjustments[i].status = "pending"
  /\ adjustments' = [adjustments EXCEPT ![i].status = "rejected", ![i].approver = by]
  /\ UNCHANGED <<bal, txns, minting, bootstrapped, drops>>

\* Posts the correction against the treasury.
Execute(i, by) ==
  LET account == Available(adjustments[i].user) IN
  /\ IF adjustments[i].direction = "credit"
     THEN Post("adjustment", i, NoKey, Treasury, Credit(account, Gift))
     ELSE Post("adjustment", i, NoKey, account, Credit(Treasury, Gift))
  /\ adjustments' = [adjustments EXCEPT ![i].status = "executed", ![i].approver = by]
  /\ UNCHANGED <<minting, bootstrapped, drops>>

\* Faulty: the row's status is not looked at under its lock.
ApproveAgain(i, by) == by # adjustments[i].by /\ Execute(i, by)

\* approveAndExecute: the row is locked; the approver is not the requester.
ApproveAdjustment(i, by) ==
  /\ adjustments[i].status = "pending"
  /\ by # adjustments[i].by
  /\ Execute(i, by)

------------------------------------------------------------------------------
DropKey(u) == <<"airdrop", u>>

\* The script lists who has had nothing, and stops unless the pool covers them.
ListDrop(d) ==
  LET todo == {u \in Holders : ~Committed(DropKey(u))} IN
  /\ drops[d].stage # "granting"
  /\ bal[Rewarding] >= Gift * Cardinality(todo)
  /\ drops' = [drops EXCEPT ![d] = [stage |-> "granting", todo |-> todo, listed |-> todo, failed |-> FALSE]]
  /\ UNCHANGED <<bal, txns, minting, bootstrapped, adjustments>>

Done(d, u, failed) ==
  drops' = [drops EXCEPT ![d].todo = @ \ {u}, ![d].failed = @ \/ failed]

\* Faulty: the grant has no key of its own.
DropUnkeyed(d, u) ==
  /\ drops[d].stage = "granting" /\ u \in drops[d].todo
  /\ Post("airdrop", u, NoKey, Rewarding, Credit(Available(u), Gift))
  /\ Done(d, u, FALSE)
  /\ UNCHANGED <<minting, bootstrapped, adjustments>>

\* Each user in a transaction of its own; a user another run grants in the
\* meantime is skipped, or fails if both are under way at once.
Drop(d, u) ==
  /\ drops[d].stage = "granting" /\ u \in drops[d].todo
  /\ \/ /\ Post("airdrop", u, DropKey(u), Rewarding, Credit(Available(u), Gift))
        /\ Done(d, u, FALSE)
     \/ /\ Committed(DropKey(u))
        /\ \E raced \in BOOLEAN : Done(d, u, raced)
        /\ UNCHANGED <<bal, txns>>
     \/ /\ ~Committed(DropKey(u)) /\ bal[Rewarding] < Gift
        /\ Done(d, u, TRUE)
        /\ UNCHANGED <<bal, txns>>
  /\ UNCHANGED <<minting, bootstrapped, adjustments>>

\* The script exits with what it has to say.
EndDrop(d) ==
  /\ drops[d].stage = "granting" /\ drops[d].todo = {}
  /\ drops' = [drops EXCEPT ![d].stage = IF drops[d].failed THEN "failed" ELSE "ok"]
  /\ UNCHANGED <<bal, txns, minting, bootstrapped, adjustments>>

\* It is killed; it may be started again.
KillDrop(d) ==
  /\ drops[d].stage = "granting"
  /\ drops' = [drops EXCEPT ![d] = NoDrop]
  /\ UNCHANGED <<bal, txns, minting, bootstrapped, adjustments>>

------------------------------------------------------------------------------
EmissionNext ==
  \/ \E w \in Minters :
       \/ \E amount \in MintSizes : AskMint(w, amount)
       \/ Mint(w)
       \/ AskBootstrap(w)
       \/ Bootstrap(w)
       \/ AbandonMint(w)
  \/ \E p \in Pools :
       \/ \E u \in Holders : GrantFromPool(p, u)
       \/ \E q \in Pools : TransferPool(p, q)
  \/ \E u \in Holders : AdminReclaim(u)
  \/ \E by \in Officers, u \in Holders, direction \in {"debit", "credit"} :
       RequestAdjustment(by, u, direction)
  \/ \E i \in DOMAIN adjustments, by \in Officers :
       RejectAdjustment(i, by) \/ ApproveAdjustment(i, by)
  \/ \E d \in DropRuns :
       \/ ListDrop(d)
       \/ \E u \in Holders : Drop(d, u)
       \/ EndDrop(d)
       \/ KillDrop(d)

------------------------------------------------------------------------------
Entries(type, ref) == {x \in DOMAIN txns : txns[x].type = type /\ txns[x].ref = ref}

\* A correction moves money once, and only when two persons have agreed on it;
\* one that is pending or rejected has moved nothing.
CorrectedOnceByTwo ==
  \A i \in DOMAIN adjustments :
    /\ Cardinality(Entries("adjustment", i)) = IF adjustments[i].status = "executed" THEN 1 ELSE 0
    /\ adjustments[i].status = "executed" => adjustments[i].approver # adjustments[i].by

\* Runs of the airdrop may overlap, be killed and be started again: everybody gets
\* one gift at most, and after a run that reports success everybody it listed has it.
DroppedOnce ==
  /\ \A u \in Holders : Cardinality(Entries("airdrop", u)) <= 1
  /\ \A d \in DropRuns : drops[d].stage = "ok" => \A u \in drops[d].listed : Committed(DropKey(u))

\* Violated by the code: the cap "prevents minting beyond a fixed total"
\* (treasury.js), and the bootstrap issues "the entire fixed QNTM supply".
SupplyCapped == Issued <= Supply
==============================================================================
