--------------------------- MODULE Economy_proofs ---------------------------
(***************************************************************************)
(* Proofs about Economy: rituals are released once, what users have earned *)
(* was paid, corrections and gifts move money once, and the transactions   *)
(* that only post never wait for each other in a circle.  Then those about *)
(* Billing, which is the other traffic of the same ledger.                 *)
(***************************************************************************)
EXTENDS Economy, Billing, CommonTheorems

\* A posting adds its transaction, whose key is new.
Posted1(type, ref, key) ==
  /\ ~Committed(key)
  /\ \E x : Grown(txns, txns', x) /\ x.type = type /\ x.ref = ref /\ x.key = key

LEMMA PostGrows ==
  ASSUME IsSeq(txns), NEW type, NEW ref, NEW key, NEW from, NEW cs,
         Post(type, ref, key, from, cs)
  PROVE  Posted1(type, ref, key)
<1> DEFINE x == [type |-> type, ref |-> ref, key |-> key, amount |-> Total(cs)]
<1>1. txns' = Append(txns, x) /\ ~Committed(key)
  BY DEF Post
<1>2. x.type = type /\ x.ref = ref /\ x.key = key
  OBVIOUS
<1> HIDE DEF x
<1>3. QED
  BY <1>1, <1>2, AppendGrows DEF Posted1

\* What a posting to one account moves.
LEMMA PostMoves ==
  ASSUME NEW type, NEW ref, NEW key, NEW from, NEW to, NEW amount \in Int,
         Post(type, ref, key, from, Credit(to, amount))
  PROVE  \A a \in Accounts : bal'[a] = bal[a] - (IF a = from THEN amount ELSE 0)
                                             + (IF a = to THEN amount ELSE 0)
<1>1. Credit(to, amount) = [a \in {to} |-> amount]
  BY DEF Credit
<1>2. \A f : Total(f) = SumFunctionOnSet(f, DOMAIN f)
  BY DEF Total, SumFunction
<1>3. Total(Credit(to, amount)) = amount
  BY <1>1, <1>2, SumOfSingle
<1>4. bal' = Posted(from, Credit(to, amount))
  BY DEF Post
<1>5. QED
  BY <1>1, <1>3, <1>4 DEF Posted

\* The greatest of a few numbers.
LEMMA MaxFacts ==
  /\ \A m, n \in Nat : /\ Max({m, n}) = (IF m >= n THEN m ELSE n)
                       /\ Max({m, n, 1}) = Max({Max({m, n}), 1})
                       /\ Max({m, n}) \in Nat /\ Max({m, n, 1}) \in Nat
<1>1. ASSUME NEW m \in Nat, NEW n \in Nat
      PROVE  Max({m, n}) = IF m >= n THEN m ELSE n
  BY DEF Max
<1>2. ASSUME NEW m \in Nat, NEW n \in Nat
      PROVE  Max({m, n, 1}) = Max({Max({m, n}), 1}) /\ Max({m, n, 1}) \in Nat
  <2>1. PICK k \in Nat : k = Max({m, n}) /\ k >= m /\ k >= n /\ (k = m \/ k = n)
    BY <1>1
  <2>2. Max({k, 1}) = IF k >= 1 THEN k ELSE 1
    BY <1>1
  <2>3. Max({m, n, 1}) = IF k >= 1 THEN k ELSE 1
    BY <2>1 DEF Max
  <2>4. QED
    BY <2>1, <2>2, <2>3
<1>3. QED
  BY <1>1, <1>2

------------------------------------------------------------------------------
(* Corrections and gifts.                                                    *)

\* The ledger gets nothing that corrects or gives.
NoEmission ==
  UNCHANGED txns \/ \E x : x.type \notin {"adjustment", "airdrop"} /\ Grown(txns, txns', x)

Given(u) == Committed(DropKey(u))

AdjustmentRow(row) ==
  /\ {"by", "user", "direction", "status", "approver"} \subseteq DOMAIN row
  /\ row.status = "executed" => row.approver # row.by

\* A run knows whom it has given what it should.
RunOk(run) ==
  /\ run.stage = "granting" =>
       /\ {"stage", "todo", "listed", "failed"} \subseteq DOMAIN run
       /\ run.failed \in BOOLEAN
       /\ ~run.failed => \A u \in run.listed \ run.todo : Given(u)
  /\ run.stage = "ok" => \A u \in run.listed : Given(u)

\* A correction on the ledger is that of an executed request; gifts carry the key
\* of their user.
EmissionInv ==
  /\ IsSeq(txns) /\ IsSeq(adjustments)
  /\ \A i \in DOMAIN adjustments : AdjustmentRow(adjustments[i])
  /\ \A x \in DOMAIN txns : txns[x].type = "adjustment" =>
       txns[x].ref \in DOMAIN adjustments /\ adjustments[txns[x].ref].status = "executed"
  /\ \A x, y \in DOMAIN txns :
       txns[x].type = "adjustment" /\ txns[y].type = "adjustment" /\ txns[x].ref = txns[y].ref => x = y
  /\ \A i \in DOMAIN adjustments : adjustments[i].status = "executed" =>
       \E x \in DOMAIN txns : txns[x].type = "adjustment" /\ txns[x].ref = i
  /\ \A x \in DOMAIN txns : txns[x].type = "airdrop" =>
       txns[x].ref \in Holders /\ txns[x].key = DropKey(txns[x].ref)
  /\ \A x, y \in DOMAIN txns :
       txns[x].type = "airdrop" /\ txns[y].type = "airdrop" /\ txns[x].ref = txns[y].ref => x = y
  /\ drops = [d \in DropRuns |-> drops[d]]
  /\ \A d \in DropRuns : RunOk(drops[d])

\* How the steps touch the corrections and the gifts.
Settling ==
  /\ UNCHANGED drops
  /\ \/ UNCHANGED adjustments /\ NoEmission
     \/ \E row : /\ AdjustmentRow(row) /\ row.status = "pending"
                 /\ adjustments' = Append(adjustments, row) /\ UNCHANGED txns
     \/ \E i \in DOMAIN adjustments : \E row :
          /\ adjustments[i].status = "pending" /\ AdjustmentRow(row)
          /\ adjustments' = [adjustments EXCEPT ![i] = row]
          /\ \/ row.status = "rejected" /\ UNCHANGED txns
             \/ /\ row.status = "executed"
                /\ \E x : Grown(txns, txns', x) /\ x.type = "adjustment" /\ x.ref = i

Giving ==
  /\ UNCHANGED adjustments
  /\ \E d \in DropRuns : \E run : RunOk(run)' /\ drops' = [drops EXCEPT ![d] = run]
  /\ \/ UNCHANGED txns
     \/ \E u \in Holders : \E x : /\ Grown(txns, txns', x) /\ ~Given(u)
                                    /\ x.type = "airdrop" /\ x.ref = u /\ x.key = DropKey(u)

\* Who has a gift keeps it.
LEMMA GivenStays ==
  ASSUME UNCHANGED txns \/ \E x : Grown(txns, txns', x)
  PROVE  /\ \A u : Given(u) => Given(u)'
         /\ \A run : RunOk(run) => RunOk(run)'
<1>1. \A x \in DOMAIN txns : x \in DOMAIN txns' /\ txns'[x] = txns[x]
  BY DEF Grown
<1>2. \A u : Given(u) => Given(u)'
  BY <1>1 DEF Given, Committed, DropKey
<1>3. QED
  BY <1>2 DEF RunOk

LEMMA EmissionSteps ==
  ASSUME EmissionInv, [EconomyNext]_economyVars
  PROVE  Settling \/ Giving
<1>0. /\ IsSeq(txns) /\ IsSeq(adjustments)
      /\ \A i \in DOMAIN adjustments : AdjustmentRow(adjustments[i])
      /\ \A d \in DropRuns : RunOk(drops[d])
  BY DEF EmissionInv
<1>1. ASSUME NEW type, NEW ref, NEW key, NEW from, NEW cs, type \notin {"adjustment", "airdrop"},
             Post(type, ref, key, from, cs)
      PROVE  NoEmission
  BY <1>0, <1>1, PostGrows DEF Posted1, NoEmission
<1>2. ASSUME NoEmission, UNCHANGED <<adjustments, drops>>
      PROVE  Settling
  BY <1>2 DEF Settling
<1>3. CASE LeaguesNext /\ Leagueing
  <2>1. ASSUME UNCHANGED txns PROVE NoEmission
    BY <2>1 DEF NoEmission
  <2>2. ASSUME NEW u \in Members, NEW k \in DOMAIN Rewards, NEW w \in Asks, GrantReward(k, u, w)
        PROVE  NoEmission
    <3>1. \/ UNCHANGED txns
          \/ Post("milestone", <<k, u>>, RewardKey(k, u), RewardPool, Credit(Available(u), Rewards[k]))
      BY <2>2 DEF GrantReward
    <3>2. "milestone" \notin {"adjustment", "airdrop"}
      OBVIOUS
    <3>3. CASE Post("milestone", <<k, u>>, RewardKey(k, u), RewardPool, Credit(Available(u), Rewards[k]))
      BY <1>1, <3>2, <3>3
    <3>4. QED
      BY <2>1, <3>1, <3>3
  <2>3. ASSUME NEW w \in Asks, StartRitual(w)
        PROVE  NoEmission
    <3> DEFINE i == Len(rituals) + 1
               u == asks[w].user
               cs == Credit(Locked(u), Unlocks[asks[w].league])
    <3>1. Post("ritual_lock", i, <<"lr:lock", i>>, Available(u), cs)
      BY <2>3 DEF StartRitual
    <3>2. "ritual_lock" \notin {"adjustment", "airdrop"}
      OBVIOUS
    <3> HIDE DEF i, u, cs
    <3>3. QED
      BY <1>1, <3>1, <3>2
  <2>4. ASSUME NEW i \in DOMAIN rituals, ClaimRitual(i)
        PROVE  NoEmission
    <3> DEFINE u == rituals[i].user
               cs == Credit(Available(u), Unlocks[rituals[i].league])
    <3>1. Post("ritual_release", i, <<"lr:release", i>>, Locked(u), cs)
      BY <2>4 DEF ClaimRitual, Complete
    <3>2. "ritual_release" \notin {"adjustment", "airdrop"}
      OBVIOUS
    <3> HIDE DEF u, cs
    <3>3. QED
      BY <1>1, <3>1, <3>2
  <2>5. \/ UNCHANGED txns
        \/ \E u \in Members, k \in DOMAIN Rewards, w \in Asks : GrantReward(k, u, w)
        \/ \E w \in Asks : StartRitual(w)
        \/ \E i \in DOMAIN rituals : ClaimRitual(i)
    <3>1. ASSUME NEW u \in Members, NEW k \in DOMAIN Rewards, NEW w \in Asks,
                 AskGrant(k, u, w) \/ FailGrant(k, u, w) \/ AddEarned(k, u, w)
          PROVE  UNCHANGED txns
      BY <3>1 DEF AskGrant, FailGrant, AddEarned
    <3>2. ASSUME NEW w \in Asks, NEW u \in Members, NEW league \in Tiers, AskRitual(w, u, league)
          PROVE  UNCHANGED txns
      BY <3>2 DEF AskRitual
    <3>3. ASSUME NEW w \in Asks, AbandonAsk(w)
          PROVE  UNCHANGED txns
      BY <3>3 DEF AbandonAsk
    <3>4. ASSUME NEW i \in DOMAIN rituals, Mature(i)
          PROVE  UNCHANGED txns
      BY <3>4 DEF Mature
    <3>5. CASE LoseCredits
      BY <3>5 DEF LoseCredits
    <3>6. QED
      BY <1>3, <3>1, <3>2, <3>3, <3>4, <3>5 DEF LeaguesNext, SweepRitual
  <2>6. NoEmission
    BY <2>1, <2>2, <2>3, <2>4, <2>5
  <2>7. QED
    BY <1>2, <1>3, <2>6 DEF Leagueing, emissionVars
<1>4. CASE LocksNext /\ Locking
  BY <1>2, <1>4 DEF Locking, emissionVars, NoEmission
<1>5. CASE UNCHANGED economyVars
  BY <1>2, <1>5 DEF economyVars, emissionVars, NoEmission
<1>6. ASSUME NEW type, NEW ref, NEW key, NEW amount, NEW e, type \notin {"adjustment", "airdrop"},
             txns' = Append(txns, Entry(type, ref, key, amount))
      PROVE  NoEmission
  <2>1. PICK x : x = Entry(type, ref, key, amount)
    OBVIOUS
  <2>2. x.type = type
    BY <2>1 DEF Entry
  <2>3. Grown(txns, txns', x)
    BY <1>0, <1>6, <2>1, AppendGrows
  <2>4. QED
    BY <1>6, <2>2, <2>3 DEF NoEmission
<1>7. CASE EmissionNext
  <2>1. ASSUME NEW w \in Minters,
               \/ \E amount \in MintSizes : AskMint(w, amount)
               \/ AskBootstrap(w)
               \/ AbandonMint(w)
        PROVE  Settling
    BY <1>2, <2>1 DEF AskMint, AskBootstrap, AbandonMint, NoEmission
  <2>2. ASSUME NEW w \in Minters, Mint(w)
        PROVE  Settling
    <3>1. UNCHANGED <<adjustments, drops>>
      BY <2>2 DEF Mint
    <3>2. UNCHANGED txns \/ txns' = Append(txns, Entry("mint", w, <<"mint", w>>, minting[w].amount))
      BY <2>2 DEF Mint
    <3>3. CASE UNCHANGED txns
      BY <1>2, <3>1, <3>3 DEF NoEmission
    <3>4. CASE txns' = Append(txns, Entry("mint", w, <<"mint", w>>, minting[w].amount))
      <4>1. PICK type, key, amount : type = "mint" /\ txns' = Append(txns, Entry(type, w, key, amount))
        BY <3>4
      <4>2. QED
        BY <1>2, <1>6, <3>1, <4>1
    <3>5. QED
      BY <3>2, <3>3, <3>4
  <2>3. ASSUME NEW w \in Minters, Bootstrap(w)
        PROVE  Settling
    <3>1. UNCHANGED <<adjustments, drops>>
      BY <2>3 DEF Bootstrap
    <3>2. UNCHANGED txns \/ \E key : txns' = Append(txns, Entry("bootstrap", "initial_mint_v1", key, Supply))
      BY <2>3 DEF Bootstrap
    <3>3. CASE UNCHANGED txns
      BY <1>2, <3>1, <3>3 DEF NoEmission
    <3>4. CASE \E key : txns' = Append(txns, Entry("bootstrap", "initial_mint_v1", key, Supply))
      <4>1. PICK type, ref, key, amount : type = "bootstrap" /\ txns' = Append(txns, Entry(type, ref, key, amount))
        BY <3>4
      <4>2. QED
        BY <1>2, <1>6, <3>1, <4>1
    <3>5. QED
      BY <3>2, <3>3, <3>4
  <2>4. ASSUME NEW type \in {"grant", "reclaim", "pool_transfer"}, NEW from, NEW to, AdminMove(type, from, to)
        PROVE  Settling
    BY <1>1, <1>2, <2>4 DEF AdminMove, emissionVars
  <2>5. ASSUME NEW p, NEW u, GrantFromPool(p, u) \/ AdminReclaim(u) \/ TransferPool(p, u)
        PROVE  Settling
    BY <2>4, <2>5 DEF GrantFromPool, AdminReclaim, TransferPool
  <2>6. ASSUME NEW by, NEW u, NEW direction, RequestAdjustment(by, u, direction)
        PROVE  Settling
    <3> DEFINE row == [by |-> by, user |-> u, direction |-> direction, status |-> "pending", approver |-> by]
    <3>1. AdjustmentRow(row) /\ row.status = "pending"
      BY DEF AdjustmentRow
    <3>2. adjustments' = Append(adjustments, row) /\ UNCHANGED <<txns, drops>>
      BY <2>6 DEF RequestAdjustment
    <3> HIDE DEF row
    <3>3. QED
      BY <3>1, <3>2 DEF Settling
  <2>7. ASSUME NEW i \in DOMAIN adjustments, NEW by, RejectAdjustment(i, by)
        PROVE  Settling
    <3> DEFINE row == [adjustments[i] EXCEPT !.status = "rejected", !.approver = by]
    <3>1. AdjustmentRow(row) /\ row.status = "rejected"
      BY <1>0 DEF AdjustmentRow
    <3>2. adjustments' = [adjustments EXCEPT ![i] = row] /\ UNCHANGED <<txns, drops>>
          /\ adjustments[i].status = "pending"
      BY <2>7 DEF RejectAdjustment
    <3> HIDE DEF row
    <3>3. QED
      BY <3>1, <3>2 DEF Settling
  <2>8. ASSUME NEW i \in DOMAIN adjustments, NEW by, ApproveAdjustment(i, by)
        PROVE  Settling
    <3> DEFINE row == [adjustments[i] EXCEPT !.status = "executed", !.approver = by]
    <3>1. adjustments[i].status = "pending" /\ by # adjustments[i].by /\ Execute(i, by)
      BY <2>8 DEF ApproveAdjustment
    <3>2. AdjustmentRow(row) /\ row.status = "executed"
      BY <1>0, <3>1 DEF AdjustmentRow
    <3>3. adjustments' = [adjustments EXCEPT ![i] = row] /\ UNCHANGED drops
      BY <3>1 DEF Execute
    <3> HIDE DEF row
    <3>4. PICK type, key, from, cs : type = "adjustment" /\ Post(type, i, key, from, cs)
      BY <3>1 DEF Execute
    <3>5. PICK x : Grown(txns, txns', x) /\ x.type = type /\ x.ref = i
      BY <1>0, <3>4, PostGrows DEF Posted1
    <3>6. QED
      BY <3>1, <3>2, <3>3, <3>4, <3>5 DEF Settling
  <2>9. ASSUME NEW d \in DropRuns, ListDrop(d)
        PROVE  Giving
    <3>1. PICK todo, run :
            /\ run = [stage |-> "granting", todo |-> todo, listed |-> todo, failed |-> FALSE]
            /\ drops' = [drops EXCEPT ![d] = run] /\ UNCHANGED <<txns, adjustments>>
      BY <2>9 DEF ListDrop
    <3>2. /\ DOMAIN run = {"stage", "todo", "listed", "failed"}
          /\ run.stage = "granting" /\ run.failed = FALSE /\ run.listed = run.todo
      BY <3>1
    <3>3. RunOk(run)'
      BY <3>2 DEF RunOk
    <3>4. QED
      BY <3>1, <3>3 DEF Giving
  <2>10. ASSUME NEW d \in DropRuns, NEW u, NEW failed \in BOOLEAN, drops[d].stage = "granting",
                Done(d, u, failed), failed \/ Given(u)',
                UNCHANGED txns \/ \E x : Grown(txns, txns', x)
         PROVE  \E run : RunOk(run)' /\ drops' = [drops EXCEPT ![d] = run]
    <3>1. PICK old, run : /\ old = drops[d]
                          /\ run = [old EXCEPT !.todo = @ \ {u}, !.failed = @ \/ failed]
                          /\ drops' = [drops EXCEPT ![d] = run]
      BY <2>10 DEF Done
    <3>2. RunOk(old)' /\ old.stage = "granting"
      BY <1>0, <2>10, <3>1, GivenStays
    <3>3. /\ {"stage", "todo", "listed", "failed"} \subseteq DOMAIN old /\ old.failed \in BOOLEAN
          /\ ~old.failed => \A v \in old.listed \ old.todo : Given(v)'
      BY <3>2 DEF RunOk
    <3>4. PICK b \in BOOLEAN : b = (old.failed \/ failed)
      BY <2>10, <3>3
    <3>5. run = [old EXCEPT !.todo = @ \ {u}, !.failed = b]
      BY <3>1, <3>4, Zenon
    <3>6. /\ DOMAIN run = DOMAIN old /\ run.stage = "granting" /\ run.listed = old.listed
          /\ run.todo = old.todo \ {u} /\ run.failed = b
      BY <3>2, <3>3, <3>5
    <3>7. RunOk(run)'
      BY <2>10, <3>3, <3>4, <3>6 DEF RunOk
    <3>8. QED
      BY <3>1, <3>7
  <2>11. ASSUME NEW d \in DropRuns, NEW u \in Holders, Drop(d, u)
         PROVE  Giving
    <3>1. drops[d].stage = "granting" /\ UNCHANGED adjustments
      BY <2>11 DEF Drop
    <3>2. CASE /\ Post("airdrop", u, DropKey(u), Rewarding, Credit(Available(u), Gift))
               /\ Done(d, u, FALSE)
      <4>1. PICK type, key, from, cs :
              type = "airdrop" /\ key = DropKey(u) /\ Post(type, u, key, from, cs)
        BY <3>2
      <4>2. PICK x : Grown(txns, txns', x) /\ x.type = type /\ x.ref = u /\ x.key = key
        BY <1>0, <4>1, PostGrows DEF Posted1
      <4>3. ~Given(u)
        BY <3>2 DEF Post, Given
      <4>4. Given(u)'
        <5>1. DropKey(u) # NoKey
          BY GiftAssumption DEF DropKey
        <5>2. Len(txns) + 1 \in DOMAIN txns' /\ txns'[Len(txns) + 1].key = DropKey(u)
          BY <4>1, <4>2 DEF Grown
        <5>3. QED
          BY <5>1, <5>2 DEF Given, Committed, DropKey
      <4>5. \E run : RunOk(run)' /\ drops' = [drops EXCEPT ![d] = run]
        BY <2>10, <3>1, <3>2, <4>2, <4>4
      <4>6. QED
        BY <3>1, <4>1, <4>2, <4>3, <4>5 DEF Giving
    <3>3. CASE UNCHANGED txns
      <4>1. \E failed \in BOOLEAN : Done(d, u, failed) /\ (failed \/ Given(u)')
        <5>1. CASE Committed(DropKey(u)) /\ \E raced \in BOOLEAN : Done(d, u, raced)
          BY <3>3, <5>1, GivenStays DEF Given
        <5>2. CASE Done(d, u, TRUE)
          BY <5>2
        <5>3. CASE Post("airdrop", u, DropKey(u), Rewarding, Credit(Available(u), Gift))
          <6>1. PICK type, key, from, cs : Post(type, u, key, from, cs)
            BY <5>3
          <6>2. \E x : Grown(txns, txns', x)
            BY <1>0, <6>1, PostGrows DEF Posted1
          <6>3. QED
            BY <3>3, <6>2 DEF Grown
        <5>4. QED
          BY <2>11, <5>1, <5>2, <5>3 DEF Drop
      <4>2. \E run : RunOk(run)' /\ drops' = [drops EXCEPT ![d] = run]
        BY <2>10, <3>1, <3>3, <4>1
      <4>3. QED
        BY <3>1, <3>3, <4>2 DEF Giving
    <3>4. QED
      BY <2>11, <3>2, <3>3 DEF Drop
  <2>12. ASSUME NEW d \in DropRuns, EndDrop(d)
         PROVE  Giving
    <3> DEFINE run == [drops[d] EXCEPT !.stage = IF drops[d].failed THEN "failed" ELSE "ok"]
    <3>1. /\ drops' = [drops EXCEPT ![d] = run] /\ UNCHANGED <<txns, adjustments>>
          /\ drops[d].stage = "granting" /\ drops[d].todo = {} /\ RunOk(drops[d])
      BY <1>0, <2>12 DEF EndDrop
    <3>2. /\ run.listed = drops[d].listed
          /\ run.stage = IF drops[d].failed THEN "failed" ELSE "ok"
      BY <3>1 DEF RunOk
    <3> HIDE DEF run
    <3>3. RunOk(run)
      BY <3>1, <3>2 DEF RunOk
    <3>4. QED
      BY <3>1, <3>3, GivenStays DEF Giving
  <2>13. ASSUME NEW d \in DropRuns, KillDrop(d)
         PROVE  Giving
    <3>1. NoDrop.stage = "idle"
      BY DEF NoDrop
    <3>2. RunOk(NoDrop)'
      BY <3>1 DEF RunOk
    <3>3. QED
      BY <2>13, <3>2 DEF KillDrop, Giving
  <2>14. QED
    BY <1>7, <2>1, <2>2, <2>3, <2>5, <2>6, <2>7, <2>8, <2>9, <2>11, <2>12, <2>13 DEF EmissionNext
<1>8. QED
  BY <1>3, <1>4, <1>5, <1>7 DEF EconomyNext

\* What a step does to the transactions of one type.
LEMMA NewEntry ==
  ASSUME IsSeq(txns), NEW x, Grown(txns, txns', x)
  PROVE  /\ IsSeq(txns')
         /\ \A t \in DOMAIN txns : t \in DOMAIN txns' /\ txns'[t] = txns[t]
         /\ \A t \in DOMAIN txns' : t \in DOMAIN txns \/ (t = Len(txns) + 1 /\ txns'[t] = x)
         /\ Len(txns) + 1 \in DOMAIN txns' /\ txns'[Len(txns) + 1] = x
         /\ Len(txns) + 1 \notin DOMAIN txns
BY AppendFacts DEF Grown

LEMMA EmissionStep == ASSUME EmissionInv, Settling \/ Giving PROVE EmissionInv'
<1>0. IsSeq(txns) /\ IsSeq(adjustments) /\ DOMAIN adjustments = 1 .. Len(adjustments)
  BY AppendFacts DEF EmissionInv
<1>1. /\ \A t \in DOMAIN txns : t \in DOMAIN txns' /\ txns'[t] = txns[t]
      /\ IsSeq(txns')
  BY <1>0, NewEntry DEF Settling, Giving, NoEmission
<1>2. UNCHANGED txns \/ \E x : Grown(txns, txns', x)
  BY DEF Settling, Giving, NoEmission
<1>3. CASE Giving
  <2>1. PICK d, run : d \in DropRuns /\ RunOk(run)' /\ drops' = [drops EXCEPT ![d] = run]
    BY <1>3 DEF Giving
  <2>2. \A c \in DropRuns : \A r : r = drops[c] => RunOk(r)'
    <3>1. \A r : RunOk(r) => RunOk(r)'
      BY <1>2, GivenStays
    <3>2. QED
      BY <3>1 DEF EmissionInv
  <2>3. \A c \in DropRuns : RunOk(drops[c])'
    <3>1. \A c \in DropRuns : \A r : r = drops'[c] => RunOk(r)'
      BY <2>1, <2>2 DEF EmissionInv
    <3>2. QED
      BY <3>1
  <2>4. drops' = [c \in DropRuns |-> drops'[c]]
    BY <2>1 DEF EmissionInv
  <2>5. UNCHANGED adjustments
    BY <1>3 DEF Giving
  <2>6. CASE UNCHANGED txns
    BY <2>3, <2>4, <2>5, <2>6 DEF EmissionInv
  <2>7. CASE \E u \in Holders : \E x : /\ Grown(txns, txns', x) /\ ~Given(u)
                                        /\ x.type = "airdrop" /\ x.ref = u /\ x.key = DropKey(u)
    <3>1. PICK u, x : /\ u \in Holders /\ Grown(txns, txns', x) /\ ~Given(u)
                      /\ x.type = "airdrop" /\ x.ref = u /\ x.key = DropKey(u)
      BY <2>7
    <3>2. DropKey(u) # NoKey
      BY <3>1, GiftAssumption DEF DropKey
    <3>3. \A t \in DOMAIN txns : txns[t].key # DropKey(u)
      BY <3>1, <3>2 DEF Given, Committed
    <3>4. \A t \in DOMAIN txns : txns[t].type = "airdrop" => txns[t].ref # u
      BY <3>3 DEF EmissionInv
    <3>5. /\ \A t \in DOMAIN txns' : t \in DOMAIN txns \/ (t = Len(txns) + 1 /\ txns'[t] = x)
          /\ Len(txns) + 1 \in DOMAIN txns' /\ txns'[Len(txns) + 1] = x
      BY <1>0, <3>1, NewEntry
    <3>6. /\ \A t \in DOMAIN txns' : txns'[t].type = "airdrop" =>
               txns'[t].ref \in Holders /\ txns'[t].key = DropKey(txns'[t].ref)
          /\ \A t, s \in DOMAIN txns' :
               txns'[t].type = "airdrop" /\ txns'[s].type = "airdrop" /\ txns'[t].ref = txns'[s].ref => t = s
      BY <1>1, <3>1, <3>4, <3>5 DEF EmissionInv
    <3>7. /\ \A t \in DOMAIN txns' : txns'[t].type = "adjustment" =>
               t \in DOMAIN txns /\ txns'[t] = txns[t]
      BY <1>1, <3>1, <3>5
    <3>8. QED
      BY <1>0, <1>1, <2>3, <2>4, <2>5, <3>6, <3>7 DEF EmissionInv
  <2>8. QED
    BY <1>3, <2>6, <2>7 DEF Giving
<1>4. CASE Settling
  <2>1. UNCHANGED drops
    BY <1>4 DEF Settling
  <2>2. /\ drops' = [d \in DropRuns |-> drops'[d]]
        /\ \A d \in DropRuns : \A r : r = drops[d] => RunOk(r)'
    <3>1. \A r : RunOk(r) => RunOk(r)'
      BY <1>2, GivenStays
    <3>2. QED
      BY <2>1, <3>1 DEF EmissionInv
  <2>3. \A d \in DropRuns : RunOk(drops[d])'
    <3>1. \A d \in DropRuns : \A r : r = drops'[d] => RunOk(r)'
      BY <2>1, <2>2
    <3>2. QED
      BY <3>1
  <2>4. ASSUME NEW x, Grown(txns, txns', x), x.type # "airdrop"
        PROVE  /\ \A t \in DOMAIN txns' : txns'[t].type = "airdrop" =>
                    txns'[t].ref \in Holders /\ txns'[t].key = DropKey(txns'[t].ref)
               /\ \A t, s \in DOMAIN txns' :
                    txns'[t].type = "airdrop" /\ txns'[s].type = "airdrop" /\ txns'[t].ref = txns'[s].ref => t = s
    <3>1. \A t \in DOMAIN txns' : txns'[t].type = "airdrop" => t \in DOMAIN txns /\ txns'[t] = txns[t]
      BY <1>0, <2>4, NewEntry
    <3>2. QED
      BY <3>1 DEF EmissionInv
  <2>5. CASE UNCHANGED adjustments /\ NoEmission
    <3>1. CASE UNCHANGED txns
      BY <2>2, <2>3, <2>5, <3>1 DEF EmissionInv
    <3>2. CASE ~ UNCHANGED txns
      <4>1. PICK x : x.type \notin {"adjustment", "airdrop"} /\ Grown(txns, txns', x)
        BY <2>5, <3>2 DEF NoEmission
      <4>2. \A t \in DOMAIN txns' : txns'[t].type = "adjustment" => t \in DOMAIN txns /\ txns'[t] = txns[t]
        BY <1>0, <4>1, NewEntry
      <4>3. QED
        BY <1>0, <1>1, <2>2, <2>3, <2>4, <2>5, <4>1, <4>2 DEF EmissionInv
    <3>3. QED
      BY <3>1, <3>2
  <2>6. CASE \E row : /\ AdjustmentRow(row) /\ row.status = "pending"
                      /\ adjustments' = Append(adjustments, row) /\ UNCHANGED txns
    <3>1. PICK row : /\ AdjustmentRow(row) /\ row.status = "pending"
                     /\ adjustments' = Append(adjustments, row) /\ UNCHANGED txns
      BY <2>6
    <3>2. /\ IsSeq(adjustments') /\ DOMAIN adjustments' = 1 .. Len(adjustments) + 1
          /\ \A i \in DOMAIN adjustments : i \in DOMAIN adjustments' /\ adjustments'[i] = adjustments[i]
          /\ \A i \in DOMAIN adjustments' : i \in DOMAIN adjustments \/ adjustments'[i] = row
      BY <1>0, <3>1, AppendFacts
    <3>3. QED
      BY <2>2, <2>3, <3>1, <3>2 DEF EmissionInv
  <2>7. CASE \E i \in DOMAIN adjustments : \E row :
          /\ adjustments[i].status = "pending" /\ AdjustmentRow(row)
          /\ adjustments' = [adjustments EXCEPT ![i] = row]
          /\ \/ row.status = "rejected" /\ UNCHANGED txns
             \/ /\ row.status = "executed"
                /\ \E x : Grown(txns, txns', x) /\ x.type = "adjustment" /\ x.ref = i
    <3>1. PICK i, row : /\ i \in DOMAIN adjustments
                        /\ adjustments[i].status = "pending" /\ AdjustmentRow(row)
                        /\ adjustments' = [adjustments EXCEPT ![i] = row]
                        /\ \/ row.status = "rejected" /\ UNCHANGED txns
                           \/ /\ row.status = "executed"
                              /\ \E x : Grown(txns, txns', x) /\ x.type = "adjustment" /\ x.ref = i
      BY <2>7
    <3>2. /\ IsSeq(adjustments') /\ DOMAIN adjustments' = DOMAIN adjustments
          /\ adjustments'[i] = row
          /\ \A j \in DOMAIN adjustments : j # i => adjustments'[j] = adjustments[j]
      BY <1>0, <3>1, ExceptFacts
    <3>3. \A j \in DOMAIN adjustments' : AdjustmentRow(adjustments'[j])
      BY <3>1, <3>2 DEF EmissionInv
    <3>4. \A t \in DOMAIN txns : txns[t].type = "adjustment" => txns[t].ref # i
      BY <3>1 DEF EmissionInv
    <3>5. CASE row.status = "rejected" /\ UNCHANGED txns
      BY <2>2, <2>3, <3>1, <3>2, <3>3, <3>4, <3>5 DEF EmissionInv
    <3>6. CASE /\ row.status = "executed"
               /\ \E x : Grown(txns, txns', x) /\ x.type = "adjustment" /\ x.ref = i
      <4>1. PICK x : Grown(txns, txns', x) /\ x.type = "adjustment" /\ x.ref = i
        BY <3>6
      <4>2. /\ \A t \in DOMAIN txns' : t \in DOMAIN txns \/ (t = Len(txns) + 1 /\ txns'[t] = x)
            /\ Len(txns) + 1 \in DOMAIN txns' /\ txns'[Len(txns) + 1] = x
        BY <1>0, <4>1, NewEntry
      <4>3. /\ \A t \in DOMAIN txns' : txns'[t].type = "adjustment" =>
                 txns'[t].ref \in DOMAIN adjustments' /\ adjustments'[txns'[t].ref].status = "executed"
            /\ \A t, s \in DOMAIN txns' :
                 txns'[t].type = "adjustment" /\ txns'[s].type = "adjustment" /\ txns'[t].ref = txns'[s].ref => t = s
        BY <1>1, <3>1, <3>2, <3>4, <3>6, <4>1, <4>2 DEF EmissionInv
      <4>4. \A j \in DOMAIN adjustments' : adjustments'[j].status = "executed" =>
              \E t \in DOMAIN txns' : txns'[t].type = "adjustment" /\ txns'[t].ref = j
        BY <1>1, <3>2, <4>1, <4>2 DEF EmissionInv
      <4>5. QED
        BY <1>1, <2>2, <2>3, <2>4, <3>2, <3>3, <4>1, <4>3, <4>4 DEF EmissionInv
    <3>7. QED
      BY <3>1, <3>5, <3>6
  <2>8. QED
    BY <1>4, <2>5, <2>6, <2>7 DEF Settling
<1>5. QED
  BY <1>3, <1>4

\* Whatever runs overlap and whoever approves what twice: a correction has moved
\* money once if it is executed and not at all otherwise, two persons agreed on
\* it, nobody has two gifts, and a run that reports success has left nobody out.
THEOREM EmissionsMoveOnce == EconomySpec => []EmittedOnce
<1>1. EconomyInit => EmissionInv
  <2> SUFFICES ASSUME EconomyInit PROVE EmissionInv
    OBVIOUS
  <2>1. txns = <<>> /\ adjustments = <<>> /\ drops = [d \in DropRuns |-> NoDrop]
    BY DEF EconomyInit, EmissionInit
  <2>2. NoDrop.stage = "idle"
    BY DEF NoDrop
  <2>3. IsSeq(<<>>) /\ DOMAIN <<>> = {}
    BY DEF IsSeq
  <2>4. \A d \in DropRuns : RunOk(drops[d])
    BY <2>1, <2>2 DEF RunOk
  <2>5. QED
    BY <2>1, <2>3, <2>4 DEF EmissionInv
<1>2. EmissionInv /\ [EconomyNext]_economyVars => EmissionInv'
  BY EmissionSteps, EmissionStep
<1>3. EmissionInv => EmittedOnce
  <2> SUFFICES ASSUME EmissionInv PROVE EmittedOnce
    OBVIOUS
  <2>1. ASSUME NEW i \in DOMAIN adjustments
        PROVE  /\ Cardinality(Entries("adjustment", i)) = IF adjustments[i].status = "executed" THEN 1 ELSE 0
               /\ adjustments[i].status = "executed" => adjustments[i].approver # adjustments[i].by
    <3>1. \A x, y \in Entries("adjustment", i) : x = y
      BY DEF EmissionInv, Entries
    <3>2. Entries("adjustment", i) # {} <=> adjustments[i].status = "executed"
      BY DEF EmissionInv, Entries
    <3>3. QED
      BY <3>1, <3>2, AtMostOne DEF EmissionInv, AdjustmentRow
  <2>2. ASSUME NEW u \in Holders
        PROVE  Cardinality(Entries("airdrop", u)) <= 1
    <3>1. \A x, y \in Entries("airdrop", u) : x = y
      BY DEF EmissionInv, Entries
    <3>2. QED
      BY <3>1, AtMostOne
  <2>3. ASSUME NEW d \in DropRuns, drops[d].stage = "ok"
        PROVE  \A u \in drops[d].listed : Committed(DropKey(u))
    BY <2>3 DEF EmissionInv, RunOk, Given
  <2>4. QED
    BY <2>1, <2>2, <2>3 DEF EmittedOnce, CorrectedOnceByTwo, DroppedOnce
<1>4. QED
  BY <1>1, <1>2, <1>3, PTL DEF EconomySpec

------------------------------------------------------------------------------
(* Leagues: what is common to rewards and rituals.                           *)

LeagueTypes == {"milestone", "ritual_lock", "ritual_release"}

\* The ledger gets nothing of the leagues.
NoLeague == UNCHANGED txns \/ \E x : x.type \notin LeagueTypes /\ Grown(txns, txns', x)

\* A step of another part, or none.
Elsewhere ==
  /\ NoLeague /\ UNCHANGED <<leagueVars, part>>
  /\ part = "leagues" => UNCHANGED <<bal, txns>>

LeagueTyped ==
  /\ IsSeq(txns) /\ IsSeq(rituals)
  /\ standing \in [Members -> [earned : Nat, unlocked : Nat, current : Nat]]
  /\ \A i \in DOMAIN rituals :
       rituals[i] \in [user : Members, league : Tiers, status : {"ascending", "due", "completed"}]
  /\ asks = [w \in Asks |-> asks[w]]
  /\ \A w \in Asks : asks[w].stage = "start" => asks[w].user \in Members /\ asks[w].league \in Tiers
  /\ part # "leagues" => rituals = <<>>

LEMMA Ladder ==
  /\ Tiers \subseteq Nat \ {0}
  /\ \A l \in Tiers : Unlocks[l] \in Nat /\ Thresholds[l] \in Nat
  /\ 1 \in Tiers
<1>1. Len(Thresholds) \in Nat /\ Tiers = 1 .. Len(Thresholds) /\ DOMAIN Unlocks = Tiers
  BY LadderAssumption DEF Tiers
<1>2. QED
  BY <1>1, LadderAssumption

LEMMA ReachedIs ==
  ASSUME NEW earned \in Nat, NEW unlocked \in Nat
  PROVE  LET d == IF earned >= Thresholds[1] THEN 1 ELSE 0
         IN  Reached(earned, unlocked) = IF d >= unlocked THEN d ELSE unlocked
<1>1. PICK d \in Nat : d = IF earned >= Thresholds[1] THEN 1 ELSE 0
  OBVIOUS
<1>2. Reached(earned, unlocked) = Max({d, unlocked})
  BY <1>1 DEF Reached
<1>3. QED
  BY <1>1, <1>2, MaxFacts

\* What a league and what one has earned add up to does not depend on the order.
LEMMA ReachedAfter ==
  ASSUME NEW earned \in Nat, NEW unlocked \in Nat, NEW league \in Tiers
  PROVE  /\ Max({unlocked, league}) \in Nat
         /\ Reached(earned, Max({unlocked, league})) = Max({Reached(earned, unlocked), league, 1})
<1>1. league \in Nat /\ league >= 1
  BY Ladder
<1>2. PICK m \in Nat : m = Max({unlocked, league}) /\ m = IF unlocked >= league THEN unlocked ELSE league
  BY <1>1, MaxFacts
<1>3. PICK r \in Nat : r = Reached(earned, unlocked)
                       /\ r = IF unlocked >= 1 \/ earned < Thresholds[1] THEN unlocked ELSE 1
  BY ReachedIs, Ladder
<1>4. Max({r, league, 1}) = IF r >= league THEN r ELSE league
  <2>1. PICK k \in Nat : k = Max({r, league}) /\ k = IF r >= league THEN r ELSE league
    BY <1>1, MaxFacts
  <2>2. k >= 1
    BY <1>1, <2>1
  <2>3. Max({k, 1}) = IF k >= 1 THEN k ELSE 1
    BY MaxFacts
  <2>4. Max({r, league, 1}) = Max({Max({r, league}), 1})
    BY <1>1, MaxFacts
  <2>5. QED
    BY <2>1, <2>2, <2>3, <2>4
<1>5. Reached(earned, m) = m
  BY <1>1, <1>2, ReachedIs, Ladder
<1>6. QED
  BY <1>1, <1>2, <1>3, <1>4, <1>5

\* The transactions of the emission are none of the leagues'.
LEMMA EmissionElsewhere ==
  ASSUME IsSeq(txns), EmissionNext
  PROVE  NoLeague
<1>1. ASSUME NEW type, NEW ref, NEW key, NEW from, NEW cs, type \notin LeagueTypes,
             Post(type, ref, key, from, cs)
      PROVE  NoLeague
  BY <1>1, PostGrows DEF Posted1, NoLeague
<1>2. ASSUME NEW type, NEW ref, NEW key, NEW amount, type \notin LeagueTypes,
             txns' = Append(txns, Entry(type, ref, key, amount))
      PROVE  NoLeague
  <2>1. PICK x : x = Entry(type, ref, key, amount)
    OBVIOUS
  <2>2. x.type = type
    BY <2>1 DEF Entry
  <2>3. QED
    BY <1>2, <2>1, <2>2, AppendGrows DEF NoLeague
<1> DEFINE Issues == \E type, ref, key, amount :
             type \in {"mint", "bootstrap"} /\ txns' = Append(txns, Entry(type, ref, key, amount))
           Posts == \E type, ref, key, from, cs :
             /\ type \in {"grant", "pool_transfer", "reclaim", "adjustment", "airdrop"}
             /\ Post(type, ref, key, from, cs)
           Entered == UNCHANGED txns \/ Issues \/ Posts
<1>3. Entered
  <2>1. ASSUME NEW w \in Minters,
               \/ \E amount \in MintSizes : AskMint(w, amount)
               \/ AskBootstrap(w)
               \/ AbandonMint(w)
        PROVE  Entered
    BY <2>1 DEF AskMint, AskBootstrap, AbandonMint
  <2>2. ASSUME NEW w \in Minters, Mint(w) \/ Bootstrap(w)
        PROVE  Entered
    <3>1. \/ UNCHANGED txns
          \/ \E key, amount : txns' = Append(txns, Entry("mint", w, key, amount))
          \/ \E key : txns' = Append(txns, Entry("bootstrap", "initial_mint_v1", key, Supply))
      BY <2>2 DEF Mint, Bootstrap
    <3>2. QED
      BY <3>1
  <2>3. ASSUME NEW p \in Pools, NEW u, NEW q,
               GrantFromPool(p, u) \/ TransferPool(p, q)
        PROVE  Entered
    BY <2>3 DEF GrantFromPool, TransferPool, AdminMove
  <2>4. ASSUME NEW u, AdminReclaim(u)
        PROVE  Entered
    BY <2>4 DEF AdminReclaim, AdminMove
  <2>5. ASSUME NEW i, NEW by, NEW u, NEW direction,
               RequestAdjustment(by, u, direction) \/ RejectAdjustment(i, by)
        PROVE  Entered
    BY <2>5 DEF RequestAdjustment, RejectAdjustment
  <2>6. ASSUME NEW i, NEW by, ApproveAdjustment(i, by)
        PROVE  Entered
    BY <2>6 DEF ApproveAdjustment, Execute
  <2>7. ASSUME NEW d, NEW u, Drop(d, u)
        PROVE  Entered
    <3>1. UNCHANGED txns \/ \E key, from, cs : Post("airdrop", u, key, from, cs)
      BY <2>7 DEF Drop
    <3>2. QED
      BY <3>1
  <2>8. ASSUME NEW d, ListDrop(d) \/ EndDrop(d) \/ KillDrop(d)
        PROVE  Entered
    BY <2>8 DEF ListDrop, EndDrop, KillDrop
  <2> HIDE DEF Entered
  <2>9. QED
    BY <2>1, <2>2, <2>3, <2>4, <2>5, <2>6, <2>7, <2>8 DEF EmissionNext
<1>4. \A type \in {"grant", "pool_transfer", "reclaim", "adjustment", "airdrop", "mint", "bootstrap"} :
        type \notin LeagueTypes
  BY DEF LeagueTypes
<1>5. CASE Issues
  BY <1>2, <1>4, <1>5
<1>6. CASE Posts
  BY <1>1, <1>4, <1>6
<1>7. QED
  BY <1>3, <1>5, <1>6 DEF NoLeague

\* What the steps do, as far as rewards and rituals are concerned.
RewardGiven(k, u, w) ==
  /\ Posted1("milestone", <<k, u>>, RewardKey(k, u))
  /\ <<k, u, w>> \in grants
  /\ grants' = grants \ {<<k, u, w>>} /\ credits' = credits \union {<<k, u, w>>}
  /\ UNCHANGED <<standing, rituals, asks, overlapped, part>>
  /\ \A v \in Members : bal[Locked(v)] \in Int => bal'[Locked(v)] = bal[Locked(v)]

\* A call looks, is answered with the first one's transaction, or fails.
RewardReplayed(k, u, w) ==
  /\ Committed(RewardKey(k, u)) /\ <<k, u, w>> \in grants
  /\ grants' = grants \ {<<k, u, w>>} /\ credits' = credits \union {<<k, u, w>>}
  /\ UNCHANGED overlapped

CallMoves ==
  /\ UNCHANGED <<bal, txns, standing, rituals, asks, part>> /\ part = "leagues"
  /\ \E k \in DOMAIN Rewards, u \in Members, w \in Asks :
       AskGrant(k, u, w) \/ RewardReplayed(k, u, w) \/ FailGrant(k, u, w)

AsksKept ==
  /\ asks' = [w \in Asks |-> asks'[w]]
  /\ \A w \in Asks : asks'[w].stage = "start" => asks'[w].user \in Members /\ asks'[w].league \in Tiers

Leaguing ==
  \/ \E k \in DOMAIN Rewards, u \in Members, w \in Asks : RewardGiven(k, u, w) /\ part = "leagues"
  \/ CallMoves
  \/ \E k \in DOMAIN Rewards, u \in Members, w \in Asks : AddEarned(k, u, w) /\ UNCHANGED part
  \/ LoseCredits /\ AsksKept /\ UNCHANGED part
  \/ UNCHANGED <<bal, txns, standing, rituals, grants, credits, overlapped, part>> /\ AsksKept
  \/ \E w \in Asks : StartRitual(w) /\ AsksKept /\ part = "leagues" /\ UNCHANGED part
  \/ \E i \in DOMAIN rituals : Mature(i) /\ UNCHANGED part
  \/ \E i \in DOMAIN rituals : ClaimRitual(i) /\ UNCHANGED part
  \/ Elsewhere

LEMMA LeagueSteps ==
  ASSUME LeagueTyped, [EconomyNext]_economyVars
  PROVE  Leaguing
<1>0. IsSeq(txns)
  BY DEF LeagueTyped
<1>1. ASSUME NoLeague, UNCHANGED <<leagueVars, part>>, UNCHANGED <<bal, txns>> \/ part # "leagues"
      PROVE  Leaguing
  BY <1>1 DEF Elsewhere, Leaguing
<1>2. CASE UNCHANGED economyVars
  BY <1>1, <1>2 DEF economyVars, NoLeague
<1>3. CASE LocksNext /\ Locking
  BY <1>1, <1>3 DEF Locking, NoLeague
<1>4. CASE EmissionNext /\ Emitting
  <2>1. part # "leagues" /\ UNCHANGED <<leagueVars, part>>
    BY <1>4 DEF Emitting
  <2>2. NoLeague
    BY <1>0, <1>4, EmissionElsewhere
  <2>3. QED
    BY <1>1, <2>1, <2>2
<1>5. CASE LeaguesNext /\ Leagueing
  <2>0. UNCHANGED part /\ part = "leagues"
    BY <1>5 DEF Leagueing
  <2>1. ASSUME NEW u \in Members, NEW k \in DOMAIN Rewards, NEW w \in Asks, GrantReward(k, u, w)
        PROVE  Leaguing
    <3>1. CASE Committed(RewardKey(k, u)) /\ UNCHANGED <<bal, txns>>
      <4>1. RewardReplayed(k, u, w) /\ UNCHANGED <<bal, txns, standing, rituals, asks>>
        BY <2>1, <3>1 DEF GrantReward, RewardReplayed
      <4>2. QED
        BY <2>0, <4>1 DEF CallMoves, Leaguing
    <3>2. CASE Post("milestone", <<k, u>>, RewardKey(k, u), RewardPool, Credit(Available(u), Rewards[k]))
      <4>1. PICK type, ref, key, from, to, amount :
              /\ type = "milestone" /\ ref = <<k, u>> /\ key = RewardKey(k, u)
              /\ from = RewardPool /\ to = Available(u) /\ amount = Rewards[k]
              /\ Post(type, ref, key, from, Credit(to, amount))
        BY <3>2
      <4>2. Posted1(type, ref, key)
        BY <1>0, <4>1, PostGrows
      <4>3. amount \in Int
        BY <4>1, RewardAssumption
      <4>4. ASSUME NEW v \in Members, bal[Locked(v)] \in Int
            PROVE  bal'[Locked(v)] = bal[Locked(v)]
        <5>1. Locked(v) \in Accounts /\ Locked(v) # from /\ Locked(v) # to
          BY <4>1, RewardAssumption DEF Locked, Available, RewardPool
        <5>2. bal'[Locked(v)] = bal[Locked(v)] - 0 + 0
          BY <4>1, <4>3, <5>1, PostMoves
        <5>3. QED
          BY <4>4, <5>2
      <4>5. RewardGiven(k, u, w)
        BY <2>0, <2>1, <4>1, <4>2, <4>4 DEF GrantReward, RewardGiven
      <4>6. QED
        BY <2>0, <4>5 DEF Leaguing
    <3>3. QED
      BY <2>1, <3>1, <3>2 DEF GrantReward
  <2>2. ASSUME NEW u \in Members, NEW k \in DOMAIN Rewards, NEW w \in Asks,
               AskGrant(k, u, w) \/ FailGrant(k, u, w) \/ AddEarned(k, u, w)
        PROVE  Leaguing
    <3>1. ASSUME AskGrant(k, u, w) \/ FailGrant(k, u, w)
          PROVE  CallMoves
      <4>1. UNCHANGED <<bal, txns, standing, rituals, asks>>
        BY <3>1 DEF AskGrant, FailGrant
      <4>2. QED
        BY <2>0, <3>1, <4>1 DEF CallMoves
    <3>2. QED
      BY <2>0, <2>2, <3>1 DEF Leaguing
  <2>3. NoAsk.stage # "start"
    BY DEF NoAsk
  <2>4. CASE LoseCredits
    <3>1. AsksKept
      BY <2>3, <2>4 DEF LoseCredits, AsksKept
    <3>2. QED
      BY <2>0, <2>4, <3>1 DEF Leaguing
  <2>5. ASSUME NEW w \in Asks, NEW x, x.stage = "start" => x.user \in Members /\ x.league \in Tiers,
               asks' = [asks EXCEPT ![w] = x]
        PROVE  AsksKept
    BY <2>5 DEF AsksKept, LeagueTyped
  <2>6. ASSUME NEW w \in Asks, NEW u \in Members, NEW league \in Tiers, AskRitual(w, u, league)
        PROVE  Leaguing
    <3>1. PICK x : x = [stage |-> "start", user |-> u, league |-> league]
      OBVIOUS
    <3>2. x.user = u /\ x.league = league
      BY <3>1
    <3>3. asks' = [asks EXCEPT ![w] = x] /\ UNCHANGED <<bal, txns, standing, rituals, grants, credits, overlapped>>
      BY <2>6, <3>1 DEF AskRitual
    <3>4. AsksKept
      BY <2>5, <3>2, <3>3
    <3>5. QED
      BY <2>0, <3>3, <3>4 DEF Leaguing
  <2>7. ASSUME NEW w \in Asks, StartRitual(w)
        PROVE  Leaguing
    <3>1. AsksKept
      BY <2>3, <2>5, <2>7 DEF StartRitual
    <3>2. QED
      BY <2>0, <2>7, <3>1 DEF Leaguing
  <2>8. ASSUME NEW w \in Asks, AbandonAsk(w)
        PROVE  Leaguing
    <3>1. AsksKept
      BY <2>3, <2>5, <2>8 DEF AbandonAsk
    <3>2. QED
      BY <2>0, <2>8, <3>1 DEF AbandonAsk, Leaguing
  <2>9. ASSUME NEW i \in DOMAIN rituals, Mature(i) \/ ClaimRitual(i) \/ SweepRitual(i)
        PROVE  Leaguing
    BY <2>0, <2>9 DEF SweepRitual, Leaguing
  <2>10. QED
    BY <1>5, <2>1, <2>2, <2>4, <2>6, <2>7, <2>8, <2>9 DEF LeaguesNext
<1>6. QED
  BY <1>2, <1>3, <1>4, <1>5 DEF EconomyNext

LEMMA StandingExcept ==
  ASSUME NEW old \in [earned : Nat, unlocked : Nat, current : Nat], NEW m, NEW n
  PROVE  /\ [old EXCEPT !.unlocked = m, !.current = n] = [earned |-> old.earned, unlocked |-> m, current |-> n]
         /\ [old EXCEPT !.earned = m, !.current = n] = [earned |-> m, unlocked |-> old.unlocked, current |-> n]
<1>1. old = [earned |-> old.earned, unlocked |-> old.unlocked, current |-> old.current]
  OBVIOUS
<1>2. PICK a, b, c : a = old.earned /\ b = old.unlocked /\ c = old.current
  OBVIOUS
<1>3. old = [earned |-> a, unlocked |-> b, current |-> c]
  BY <1>1, <1>2
<1>4. /\ [old EXCEPT !.unlocked = m] = [earned |-> a, unlocked |-> m, current |-> c]
      /\ [old EXCEPT !.earned = m] = [earned |-> m, unlocked |-> b, current |-> c]
  BY <1>3
<1>5. PICK x, y : x = [old EXCEPT !.unlocked = m] /\ y = [old EXCEPT !.earned = m]
  OBVIOUS
<1>6. /\ x = [earned |-> a, unlocked |-> m, current |-> c]
      /\ y = [earned |-> m, unlocked |-> b, current |-> c]
  BY <1>4, <1>5
<1>7. /\ [x EXCEPT !.current = n] = [earned |-> a, unlocked |-> m, current |-> n]
      /\ [y EXCEPT !.current = n] = [earned |-> m, unlocked |-> b, current |-> n]
  BY <1>6
<1>8. /\ [old EXCEPT !.unlocked = m, !.current = n] = [x EXCEPT !.current = n]
      /\ [old EXCEPT !.earned = m, !.current = n] = [y EXCEPT !.current = n]
  BY <1>5
<1>9. QED
  BY <1>2, <1>7, <1>8

\* The tables after the claim of a ritual.
Claimed(i, u, league) ==
  /\ u \in Members /\ league \in Tiers
  /\ u = rituals[i].user /\ league = rituals[i].league /\ rituals[i].status = "due"
  /\ Post("ritual_release", i, <<"lr:release", i>>, Locked(u), Credit(Available(u), Unlocks[league]))
  /\ IsSeq(rituals') /\ DOMAIN rituals' = DOMAIN rituals
  /\ rituals'[i] = [user |-> u, league |-> league, status |-> "completed"]
  /\ \A j \in DOMAIN rituals : j # i => rituals'[j] = rituals[j]
  /\ standing' = [standing EXCEPT ![u] =
       [earned |-> standing[u].earned, unlocked |-> Max({standing[u].unlocked, league}),
        current |-> Max({standing[u].current, league, 1})]]
  /\ UNCHANGED <<asks, grants, credits, overlapped>>

LEMMA ClaimFacts ==
  ASSUME LeagueTyped, NEW i \in DOMAIN rituals, ClaimRitual(i)
  PROVE  \E u, league : Claimed(i, u, league)
<1>1. PICK u, league : /\ u \in Members /\ league \in Tiers
                       /\ u = rituals[i].user /\ league = rituals[i].league
  BY DEF LeagueTyped
<1>2. /\ rituals[i].status = "due"
      /\ Post("ritual_release", i, <<"lr:release", i>>, Locked(u), Credit(Available(u), Unlocks[league]))
      /\ rituals' = [rituals EXCEPT ![i].status = "completed"]
      /\ standing' = [standing EXCEPT ![u].unlocked = Max({@, league}), ![u].current = Max({@, league, 1})]
      /\ UNCHANGED <<asks, grants, credits, overlapped>>
  BY <1>1 DEF ClaimRitual, Complete
<1>3. PICK row : row = [user |-> u, league |-> league, status |-> "completed"]
  OBVIOUS
<1>4. rituals' = [rituals EXCEPT ![i] = row]
  <2>1. rituals[i] = [user |-> u, league |-> league, status |-> "due"]
    BY <1>1, <1>2 DEF LeagueTyped
  <2>2. [rituals[i] EXCEPT !.status = "completed"] = row
    BY <1>3, <2>1
  <2>3. QED
    BY <1>2, <2>2
<1>5. /\ IsSeq(rituals') /\ DOMAIN rituals' = DOMAIN rituals
      /\ rituals'[i] = row
      /\ \A j \in DOMAIN rituals : j # i => rituals'[j] = rituals[j]
  BY <1>4, ExceptFacts DEF LeagueTyped
<1>6. standing' = [standing EXCEPT ![u] =
                [earned |-> standing[u].earned, unlocked |-> Max({standing[u].unlocked, league}),
                 current |-> Max({standing[u].current, league, 1})]]
  <2>1. PICK m, n : m = Max({standing[u].unlocked, league}) /\ n = Max({standing[u].current, league, 1})
    OBVIOUS
  <2>2. standing' = [standing EXCEPT ![u].unlocked = m, ![u].current = n]
    BY <1>2, <2>1, Zenon
  <2>3. standing[u] \in [earned : Nat, unlocked : Nat, current : Nat]
    BY <1>1 DEF LeagueTyped
  <2>4. PICK old, new : /\ old = standing[u]
                        /\ new = [earned |-> standing[u].earned, unlocked |-> m, current |-> n]
    OBVIOUS
  <2>5. [old EXCEPT !.unlocked = m, !.current = n] = new
    BY <2>3, <2>4, StandingExcept
  <2>6. standing' = [standing EXCEPT ![u] = [old EXCEPT !.unlocked = m, !.current = n]]
    BY <1>1, <2>2, <2>4 DEF LeagueTyped
  <2>7. standing' = [standing EXCEPT ![u] = new]
    BY <2>5, <2>6
  <2>8. QED
    BY <2>1, <2>4, <2>7, Zenon
<1>7. rituals'[i] = [user |-> u, league |-> league, status |-> "completed"]
  BY <1>3, <1>5
<1>8. Claimed(i, u, league)
  BY <1>1, <1>2, <1>5, <1>6, <1>7, Zenon DEF Claimed
<1>9. QED
  BY <1>8

LEMMA StartFacts ==
  ASSUME LeagueTyped, NEW w \in Asks, StartRitual(w)
  PROVE  \E u \in Members : \E league \in Tiers : \E row :
           /\ Post("ritual_lock", Len(rituals) + 1, <<"lr:lock", Len(rituals) + 1>>,
                   Available(u), Credit(Locked(u), Unlocks[league]))
           /\ \A j \in DOMAIN rituals : Ongoing(j) => rituals[j].user # u
           /\ row = [user |-> u, league |-> league, status |-> "ascending"]
           /\ Grown(rituals, rituals', row)
           /\ UNCHANGED <<standing, grants, credits, overlapped>>
<1>1. PICK u, league : /\ u \in Members /\ league \in Tiers
                       /\ u = asks[w].user /\ league = asks[w].league
  BY DEF LeagueTyped, StartRitual
<1>2. PICK row : row = [user |-> u, league |-> league, status |-> "ascending"]
  OBVIOUS
<1>3. /\ Post("ritual_lock", Len(rituals) + 1, <<"lr:lock", Len(rituals) + 1>>,
              Available(u), Credit(Locked(u), Unlocks[league]))
      /\ \A j \in DOMAIN rituals : Ongoing(j) => rituals[j].user # u
      /\ rituals' = Append(rituals, row)
      /\ UNCHANGED <<standing, grants, credits, overlapped>>
  BY <1>1, <1>2 DEF StartRitual
<1>4. Grown(rituals, rituals', row)
  BY <1>3, AppendGrows DEF LeagueTyped
<1>5. QED
  BY <1>1, <1>2, <1>3, <1>4

LEMMA MatureFacts ==
  ASSUME LeagueTyped, NEW i \in DOMAIN rituals, Mature(i)
  PROVE  /\ rituals[i].status = "ascending"
         /\ IsSeq(rituals') /\ DOMAIN rituals' = DOMAIN rituals
         /\ rituals'[i] = [user |-> rituals[i].user, league |-> rituals[i].league, status |-> "due"]
         /\ \A j \in DOMAIN rituals : j # i => rituals'[j] = rituals[j]
         /\ UNCHANGED <<bal, txns, standing, asks, grants, credits, overlapped>>
<1>1. PICK row : row = [user |-> rituals[i].user, league |-> rituals[i].league, status |-> "due"]
  OBVIOUS
<1>2. rituals[i] \in [user : Members, league : Tiers, status : {"ascending", "due", "completed"}]
  BY DEF LeagueTyped
<1>3. [rituals[i] EXCEPT !.status = "due"] = row
  BY <1>1, <1>2
<1>4. rituals' = [rituals EXCEPT ![i] = row]
  BY <1>3 DEF Mature
<1>5. /\ IsSeq(rituals') /\ DOMAIN rituals' = DOMAIN rituals
      /\ rituals'[i] = row
      /\ \A j \in DOMAIN rituals : j # i => rituals'[j] = rituals[j]
  BY <1>4, ExceptFacts DEF LeagueTyped
<1>6. QED
  BY <1>1, <1>5 DEF Mature

LEMMA AddEarnedFacts ==
  ASSUME LeagueTyped, NEW k \in DOMAIN Rewards, NEW u \in Members, NEW w \in Asks, AddEarned(k, u, w)
  PROVE  \E earned \in Nat :
           /\ earned = standing[u].earned + Rewards[k]
           /\ standing' = [standing EXCEPT ![u] =
                [earned |-> earned, unlocked |-> standing[u].unlocked,
                 current |-> Reached(earned, standing[u].unlocked)]]
           /\ <<k, u, w>> \in credits /\ credits' = credits \ {<<k, u, w>>}
           /\ UNCHANGED <<bal, txns, rituals, asks, grants, overlapped>>
<1>1. standing[u] \in [earned : Nat, unlocked : Nat, current : Nat] /\ Rewards[k] \in Nat
  BY RewardAssumption DEF LeagueTyped
<1>2. PICK earned \in Nat : earned = standing[u].earned + Rewards[k]
  BY <1>1
<1>3. PICK n : n = Reached(earned, standing[u].unlocked)
  OBVIOUS
<1>4. standing' = [standing EXCEPT ![u].earned = earned, ![u].current = n]
  BY <1>2, <1>3, Zenon DEF AddEarned
<1>5. standing' = [standing EXCEPT ![u] = [earned |-> earned, unlocked |-> standing[u].unlocked, current |-> n]]
  <2>1. PICK old, new : /\ old = standing[u]
                        /\ new = [earned |-> earned, unlocked |-> standing[u].unlocked, current |-> n]
    OBVIOUS
  <2>2. [old EXCEPT !.earned = earned, !.current = n] = new
    BY <1>1, <2>1, StandingExcept
  <2>3. standing' = [standing EXCEPT ![u] = [old EXCEPT !.earned = earned, !.current = n]]
    BY <1>4, <2>1 DEF LeagueTyped
  <2>4. standing' = [standing EXCEPT ![u] = new]
    BY <2>2, <2>3
  <2>5. QED
    BY <2>1, <2>4, Zenon
<1>6. QED
  BY <1>2, <1>3, <1>5, Zenon DEF AddEarned

LEMMA LeagueTypedStep == ASSUME LeagueTyped, Leaguing PROVE LeagueTyped'
<1>0. CASE CallMoves
  BY <1>0 DEF CallMoves, LeagueTyped
<1>1. CASE \E k \in DOMAIN Rewards, u \in Members, w \in Asks : RewardGiven(k, u, w) /\ part = "leagues"
  BY <1>1, NewEntry DEF LeagueTyped, RewardGiven, Posted1
<1>2. CASE \E k \in DOMAIN Rewards, u \in Members, w \in Asks : AddEarned(k, u, w) /\ UNCHANGED part
  <2>1. PICK k, u, w : k \in DOMAIN Rewards /\ u \in Members /\ w \in Asks /\ AddEarned(k, u, w) /\ UNCHANGED part
    BY <1>2
  <2>2. PICK earned \in Nat :
           /\ standing' = [standing EXCEPT ![u] =
                [earned |-> earned, unlocked |-> standing[u].unlocked,
                 current |-> Reached(earned, standing[u].unlocked)]]
           /\ UNCHANGED <<bal, txns, rituals, asks>>
    BY <2>1, AddEarnedFacts
  <2>3. standing[u].unlocked \in Nat
    BY <2>1 DEF LeagueTyped
  <2>4. Reached(earned, standing[u].unlocked) \in Nat
    BY <2>3, ReachedIs
  <2>5. QED
    BY <2>1, <2>2, <2>3, <2>4 DEF LeagueTyped
<1>3. CASE LoseCredits /\ AsksKept /\ UNCHANGED part
  BY <1>3 DEF LoseCredits, AsksKept, LeagueTyped
<1>4. CASE UNCHANGED <<bal, txns, standing, rituals, grants, credits, overlapped, part>> /\ AsksKept
  BY <1>4 DEF AsksKept, LeagueTyped
<1>5. CASE \E w \in Asks : StartRitual(w) /\ AsksKept /\ part = "leagues" /\ UNCHANGED part
  <2>1. PICK w : w \in Asks /\ StartRitual(w) /\ AsksKept /\ part = "leagues" /\ UNCHANGED part
    BY <1>5
  <2>2. PICK u, league, row, type, ref, key, from, cs :
           /\ u \in Members /\ league \in Tiers
           /\ Post(type, ref, key, from, cs)
           /\ row = [user |-> u, league |-> league, status |-> "ascending"]
           /\ Grown(rituals, rituals', row)
           /\ UNCHANGED <<standing, grants, credits, overlapped>>
    BY <2>1, StartFacts
  <2>3. IsSeq(txns')
    BY <2>2, PostGrows, NewEntry DEF LeagueTyped, Posted1
  <2>4. IsSeq(rituals') /\
        \A i \in DOMAIN rituals' : (i \in DOMAIN rituals /\ rituals'[i] = rituals[i]) \/ rituals'[i] = row
    BY <2>2, AppendFacts DEF Grown, LeagueTyped
  <2>5. row \in [user : Members, league : Tiers, status : {"ascending", "due", "completed"}]
    BY <2>2
  <2>6. QED
    BY <2>1, <2>2, <2>3, <2>4, <2>5 DEF LeagueTyped, AsksKept
<1>6. CASE \E i \in DOMAIN rituals : Mature(i) /\ UNCHANGED part
  <2>1. PICK i : i \in DOMAIN rituals /\ Mature(i) /\ UNCHANGED part
    BY <1>6
  <2>2. /\ IsSeq(rituals') /\ DOMAIN rituals' = DOMAIN rituals
        /\ rituals'[i] = [user |-> rituals[i].user, league |-> rituals[i].league, status |-> "due"]
        /\ \A j \in DOMAIN rituals : j # i => rituals'[j] = rituals[j]
        /\ UNCHANGED <<bal, txns, standing, asks, grants, credits, overlapped>>
    BY <2>1, MatureFacts
  <2>3. rituals # <<>>
    BY <2>1
  <2>4. rituals'[i] \in [user : Members, league : Tiers, status : {"ascending", "due", "completed"}]
    BY <2>1, <2>2 DEF LeagueTyped
  <2>5. QED
    BY <2>1, <2>2, <2>3, <2>4 DEF LeagueTyped
<1>7. CASE \E i \in DOMAIN rituals : ClaimRitual(i) /\ UNCHANGED part
  <2>1. PICK i : i \in DOMAIN rituals /\ ClaimRitual(i) /\ UNCHANGED part
    BY <1>7
  <2>2. PICK u, league : Claimed(i, u, league)
    BY <2>1, ClaimFacts
  <2>3. IsSeq(txns')
    BY <2>2, PostGrows, NewEntry DEF LeagueTyped, Posted1, Claimed
  <2>4. standing[u] \in [earned : Nat, unlocked : Nat, current : Nat]
    BY <2>2 DEF LeagueTyped, Claimed
  <2>5. Max({standing[u].unlocked, league}) \in Nat /\ Max({standing[u].current, league, 1}) \in Nat
    <3>1. \A m, n \in Nat : Max({m, n}) \in Nat /\ Max({m, n, 1}) \in Nat
      BY MaxFacts
    <3>2. QED
      BY <2>2, <2>4, <3>1, Ladder DEF Claimed
  <2>6. standing' \in [Members -> [earned : Nat, unlocked : Nat, current : Nat]]
    BY <2>2, <2>4, <2>5 DEF LeagueTyped, Claimed
  <2>7. rituals # <<>>
    BY <2>1
  <2>8. rituals'[i] \in [user : Members, league : Tiers, status : {"ascending", "due", "completed"}]
    BY <2>2 DEF Claimed
  <2>9. QED
    BY <2>1, <2>2, <2>3, <2>6, <2>7, <2>8 DEF LeagueTyped, Claimed
<1>8. CASE Elsewhere
  BY <1>8, NewEntry DEF Elsewhere, NoLeague, LeagueTyped, leagueVars
<1>9. QED
  BY <1>0, <1>1, <1>2, <1>3, <1>4, <1>5, <1>6, <1>7, <1>8 DEF Leaguing

------------------------------------------------------------------------------
(* Rituals.                                                                  *)

\* A ritual that has ended has its release, one that lasts has none; a user has
\* one at a time, and what is locked is what it locks.
RitualInv ==
  /\ \A i, j \in DOMAIN rituals :
       Ongoing(i) /\ Ongoing(j) /\ rituals[i].user = rituals[j].user => i = j
  /\ \A x \in DOMAIN txns : txns[x].type = "ritual_release" =>
       txns[x].ref \in DOMAIN rituals /\ ~Ongoing(txns[x].ref)
  /\ \A x, y \in DOMAIN txns :
       txns[x].type = "ritual_release" /\ txns[y].type = "ritual_release" /\ txns[x].ref = txns[y].ref => x = y
  /\ \A i \in DOMAIN rituals : ~Ongoing(i) =>
       \E x \in DOMAIN txns : txns[x].type = "ritual_release" /\ txns[x].ref = i
  /\ part = "leagues" =>
       /\ \A i \in DOMAIN rituals : Ongoing(i) => bal[Locked(rituals[i].user)] = Unlocks[rituals[i].league]
       /\ \A u \in Members : (\A i \in DOMAIN rituals : Ongoing(i) => rituals[i].user # u) => bal[Locked(u)] = 0

\* What is locked is a number.
LEMMA LockedTyped ==
  ASSUME LeagueTyped, RitualInv, part = "leagues"
  PROVE  \A u \in Members : bal[Locked(u)] \in Int
BY Ladder DEF LeagueTyped, RitualInv

\* The rituals stay as far as the invariant can tell, and no release is posted.
RitualsStay ==
  /\ DOMAIN rituals' = DOMAIN rituals /\ UNCHANGED part
  /\ \A i \in DOMAIN rituals : /\ (Ongoing(i))' <=> Ongoing(i)
                               /\ rituals'[i].user = rituals[i].user /\ rituals'[i].league = rituals[i].league
  /\ UNCHANGED txns \/ \E x : x.type # "ritual_release" /\ Grown(txns, txns', x)
  /\ part = "leagues" => \A u \in Members : bal'[Locked(u)] = bal[Locked(u)]

LEMMA RitualsStayInv == ASSUME LeagueTyped, RitualInv, RitualsStay PROVE RitualInv'
<1>1. /\ \A x \in DOMAIN txns : x \in DOMAIN txns' /\ txns'[x] = txns[x]
      /\ \A x \in DOMAIN txns' : txns'[x].type = "ritual_release" => x \in DOMAIN txns
  BY NewEntry DEF RitualsStay, LeagueTyped
<1>2. /\ \A i, j \in DOMAIN rituals' :
           (Ongoing(i))' /\ (Ongoing(j))' /\ rituals'[i].user = rituals'[j].user => i = j
      /\ \A i \in DOMAIN rituals : ~Ongoing(i) => rituals'[i].status = "completed"
  BY DEF RitualsStay, RitualInv, Ongoing
<1>3. \A x \in DOMAIN txns' : txns'[x].type = "ritual_release" =>
           txns'[x].ref \in DOMAIN rituals' /\ rituals'[txns'[x].ref].status = "completed"
  BY <1>1, <1>2 DEF RitualsStay, RitualInv
<1>4. /\ \A x, y \in DOMAIN txns' :
           txns'[x].type = "ritual_release" /\ txns'[y].type = "ritual_release" /\ txns'[x].ref = txns'[y].ref => x = y
      /\ \A i \in DOMAIN rituals' : ~(Ongoing(i))' =>
           \E x \in DOMAIN txns' : txns'[x].type = "ritual_release" /\ txns'[x].ref = i
  BY <1>1 DEF RitualsStay, RitualInv
<1>5. part' = "leagues" =>
       /\ \A i \in DOMAIN rituals' : (Ongoing(i))' => bal'[Locked(rituals'[i].user)] = Unlocks[rituals'[i].league]
       /\ \A u \in Members : (\A i \in DOMAIN rituals' : (Ongoing(i))' => rituals'[i].user # u) => bal'[Locked(u)] = 0
  BY DEF RitualsStay, RitualInv, LeagueTyped
<1>6. QED
  BY <1>2, <1>3, <1>4, <1>5 DEF RitualInv, Ongoing

LEMMA RitualStep == ASSUME LeagueTyped, RitualInv, Leaguing PROVE RitualInv'
<1>0. IsSeq(txns) /\ IsSeq(rituals) /\ DOMAIN rituals = 1 .. Len(rituals)
  BY AppendFacts DEF LeagueTyped
<1>1. ASSUME UNCHANGED <<rituals, part>>,
             UNCHANGED txns \/ \E x : x.type # "ritual_release" /\ Grown(txns, txns', x),
             part = "leagues" => \A u \in Members : bal'[Locked(u)] = bal[Locked(u)]
      PROVE  RitualInv'
  BY <1>1, RitualsStayInv DEF RitualsStay, Ongoing
<1>2. CASE \E k \in DOMAIN Rewards, u \in Members, w \in Asks : RewardGiven(k, u, w) /\ part = "leagues"
  <2>1. \E x : x.type = "milestone" /\ Grown(txns, txns', x)
    BY <1>2 DEF RewardGiven, Posted1
  <2>2. QED
    BY <1>1, <1>2, <2>1, LockedTyped DEF RewardGiven
<1>3. CASE (\E k \in DOMAIN Rewards, u \in Members, w \in Asks : AddEarned(k, u, w) /\ UNCHANGED part) \/ CallMoves
  BY <1>1, <1>3 DEF AddEarned, CallMoves
<1>4. CASE LoseCredits /\ AsksKept /\ UNCHANGED part
  BY <1>1, <1>4 DEF LoseCredits
<1>5. CASE UNCHANGED <<bal, txns, standing, rituals, grants, credits, overlapped, part>> /\ AsksKept
  BY <1>1, <1>5
<1>6. CASE Elsewhere
  <2>1. UNCHANGED txns \/ \E x : x.type # "ritual_release" /\ Grown(txns, txns', x)
    BY <1>6 DEF Elsewhere, NoLeague, LeagueTypes
  <2>2. QED
    BY <1>1, <1>6, <2>1 DEF Elsewhere, leagueVars
<1>7. CASE \E i \in DOMAIN rituals : Mature(i) /\ UNCHANGED part
  <2>1. PICK i : i \in DOMAIN rituals /\ Mature(i) /\ UNCHANGED part
    BY <1>7
  <2>2. /\ rituals[i].status = "ascending" /\ DOMAIN rituals' = DOMAIN rituals
        /\ rituals'[i] = [user |-> rituals[i].user, league |-> rituals[i].league, status |-> "due"]
        /\ \A j \in DOMAIN rituals : j # i => rituals'[j] = rituals[j]
        /\ UNCHANGED <<bal, txns>>
    BY <2>1, MatureFacts
  <2>3. /\ \A j \in DOMAIN rituals :
             /\ rituals'[j].status # "completed" <=> rituals[j].status # "completed"
             /\ rituals'[j].user = rituals[j].user /\ rituals'[j].league = rituals[j].league
    BY <2>1, <2>2
  <2>4. RitualsStay
    BY <2>1, <2>2, <2>3 DEF RitualsStay, Ongoing
  <2>5. QED
    BY <2>4, RitualsStayInv
<1>8. CASE \E w \in Asks : StartRitual(w) /\ AsksKept /\ part = "leagues" /\ UNCHANGED part
  <2>1. PICK w : w \in Asks /\ StartRitual(w) /\ part = "leagues" /\ UNCHANGED part
    BY <1>8
  <2>2. PICK u, league, row, n :
           /\ u \in Members /\ league \in Tiers /\ n = Len(rituals) + 1
           /\ Post("ritual_lock", n, <<"lr:lock", n>>, Available(u), Credit(Locked(u), Unlocks[league]))
           /\ \A j \in DOMAIN rituals : Ongoing(j) => rituals[j].user # u
           /\ row = [user |-> u, league |-> league, status |-> "ascending"]
           /\ Grown(rituals, rituals', row)
    <3>1. \E u \in Members : \E league \in Tiers : \E row :
            /\ Post("ritual_lock", Len(rituals) + 1, <<"lr:lock", Len(rituals) + 1>>,
                    Available(u), Credit(Locked(u), Unlocks[league]))
            /\ \A j \in DOMAIN rituals : Ongoing(j) => rituals[j].user # u
            /\ row = [user |-> u, league |-> league, status |-> "ascending"]
            /\ Grown(rituals, rituals', row)
      BY <2>1, StartFacts
    <3>2. QED
      BY <3>1
  <2>3. /\ DOMAIN rituals' = DOMAIN rituals \union {n} /\ n \notin DOMAIN rituals
        /\ \A i \in DOMAIN rituals : rituals'[i] = rituals[i]
        /\ rituals'[n] = row
    BY <1>0, <2>2 DEF Grown
  <2>4. /\ \A i \in DOMAIN rituals : (Ongoing(i))' <=> Ongoing(i)
        /\ (Ongoing(n))' /\ rituals'[n].user = u /\ rituals'[n].league = league
    BY <2>2, <2>3 DEF Ongoing
  <2>5. PICK type, from, to, amount, key :
          /\ type = "ritual_lock" /\ from = Available(u) /\ to = Locked(u) /\ amount = Unlocks[league]
          /\ Post(type, n, key, from, Credit(to, amount))
    BY <2>2
  <2>6. \E x : x.type = "ritual_lock" /\ Grown(txns, txns', x)
    BY <1>0, <2>5, PostGrows DEF Posted1
  <2>7. /\ \A x \in DOMAIN txns : x \in DOMAIN txns' /\ txns'[x] = txns[x]
        /\ \A x \in DOMAIN txns' : txns'[x].type = "ritual_release" => x \in DOMAIN txns
    BY <1>0, <2>6, NewEntry
  <2>8. \A v \in Members : bal'[Locked(v)] = IF v = u THEN Unlocks[league] ELSE bal[Locked(v)]
    <3>1. \A v \in Members : /\ Locked(v) \in Accounts /\ Locked(v) # from
                             /\ Locked(v) = to <=> v = u
      BY <2>5, RewardAssumption DEF Locked, Available
    <3>2. amount \in Int
      BY <2>2, <2>5, Ladder
    <3>3. \A v \in Members : bal'[Locked(v)] = bal[Locked(v)] - 0 + (IF v = u THEN amount ELSE 0)
      BY <2>5, <3>1, <3>2, PostMoves
    <3>4. bal[Locked(u)] = 0 /\ \A v \in Members : bal[Locked(v)] \in Int
      BY <2>1, <2>2, LockedTyped DEF RitualInv
    <3>5. QED
      BY <2>5, <3>2, <3>3, <3>4
  <2>9. /\ \A i, j \in DOMAIN rituals' :
             (Ongoing(i))' /\ (Ongoing(j))' /\ rituals'[i].user = rituals'[j].user => i = j
    BY <2>2, <2>3, <2>4 DEF RitualInv
  <2>10. \A x \in DOMAIN txns' : txns'[x].type = "ritual_release" =>
           txns'[x].ref \in DOMAIN rituals' /\ rituals'[txns'[x].ref].status = "completed"
    BY <2>3, <2>7 DEF RitualInv, Ongoing
  <2>11. /\ \A x, y \in DOMAIN txns' :
             txns'[x].type = "ritual_release" /\ txns'[y].type = "ritual_release" /\ txns'[x].ref = txns'[y].ref => x = y
         /\ \A i \in DOMAIN rituals' : ~(Ongoing(i))' =>
             \E x \in DOMAIN txns' : txns'[x].type = "ritual_release" /\ txns'[x].ref = i
    BY <2>3, <2>4, <2>7 DEF RitualInv
  <2>12. /\ \A i \in DOMAIN rituals' : (Ongoing(i))' => bal'[Locked(rituals'[i].user)] = Unlocks[rituals'[i].league]
         /\ \A v \in Members : (\A i \in DOMAIN rituals' : (Ongoing(i))' => rituals'[i].user # v) => bal'[Locked(v)] = 0
    <3>1. ASSUME NEW i \in DOMAIN rituals', (Ongoing(i))'
          PROVE  bal'[Locked(rituals'[i].user)] = Unlocks[rituals'[i].league]
      <4>1. CASE i = n
        BY <2>2, <2>4, <2>8, <4>1
      <4>2. CASE i # n
        <5>1. i \in DOMAIN rituals /\ Ongoing(i) /\ rituals'[i] = rituals[i]
          BY <2>3, <2>4, <3>1, <4>2
        <5>2. rituals[i].user \in Members /\ rituals[i].user # u
          BY <2>2, <5>1 DEF LeagueTyped
        <5>3. bal[Locked(rituals[i].user)] = Unlocks[rituals[i].league]
          BY <2>1, <5>1 DEF RitualInv
        <5>4. QED
          BY <2>8, <5>1, <5>2, <5>3
      <4>3. QED
        BY <4>1, <4>2
    <3>2. ASSUME NEW v \in Members, \A i \in DOMAIN rituals' : (Ongoing(i))' => rituals'[i].user # v
          PROVE  bal'[Locked(v)] = 0
      <4>1. v # u
        BY <2>3, <2>4, <3>2
      <4>2. \A i \in DOMAIN rituals : Ongoing(i) => rituals[i].user # v
        BY <2>3, <2>4, <3>2
      <4>3. bal[Locked(v)] = 0
        BY <2>1, <4>2 DEF RitualInv
      <4>4. QED
        BY <2>8, <4>1, <4>3
    <3>3. QED
      BY <3>1, <3>2
  <2>13. QED
    BY <2>9, <2>10, <2>11, <2>12 DEF RitualInv, Ongoing
<1>9. CASE \E i \in DOMAIN rituals : ClaimRitual(i) /\ UNCHANGED part
  <2>1. PICK i : i \in DOMAIN rituals /\ ClaimRitual(i) /\ UNCHANGED part
    BY <1>9
  <2>2. PICK u, league : Claimed(i, u, league)
    BY <2>1, ClaimFacts
  <2>3. /\ u \in Members /\ league \in Tiers /\ u = rituals[i].user /\ league = rituals[i].league
        /\ DOMAIN rituals' = DOMAIN rituals
        /\ \A j \in DOMAIN rituals : j # i => rituals'[j] = rituals[j]
    BY <2>2 DEF Claimed
  <2>4. /\ Ongoing(i) /\ ~(Ongoing(i))'
        /\ rituals'[i].user = u
        /\ \A j \in DOMAIN rituals : j # i => (Ongoing(j))' <=> Ongoing(j)
    BY <2>2 DEF Claimed, Ongoing
  <2>5. part = "leagues"
    BY <2>1 DEF LeagueTyped
  <2>6. PICK type, from, to, amount, key :
          /\ type = "ritual_release" /\ from = Locked(u) /\ to = Available(u) /\ amount = Unlocks[league]
          /\ Post(type, i, key, from, Credit(to, amount))
    BY <2>2 DEF Claimed
  <2>7. PICK x : x.type = "ritual_release" /\ x.ref = i /\ Grown(txns, txns', x)
    BY <1>0, <2>6, PostGrows DEF Posted1
  <2>8. /\ \A t \in DOMAIN txns : t \in DOMAIN txns' /\ txns'[t] = txns[t]
        /\ \A t \in DOMAIN txns' : t \in DOMAIN txns \/ (t = Len(txns) + 1 /\ txns'[t] = x)
        /\ Len(txns) + 1 \in DOMAIN txns' /\ txns'[Len(txns) + 1] = x
    BY <1>0, <2>7, NewEntry
  <2>9. \A v \in Members : bal'[Locked(v)] = IF v = u THEN 0 ELSE bal[Locked(v)]
    <3>1. \A v \in Members : /\ Locked(v) \in Accounts /\ Locked(v) # to
                             /\ Locked(v) = from <=> v = u
      BY <2>6, RewardAssumption DEF Locked, Available
    <3>2. amount \in Int
      BY <2>3, <2>6, Ladder
    <3>3. \A v \in Members : bal'[Locked(v)] = bal[Locked(v)] - (IF v = u THEN amount ELSE 0) + 0
      BY <2>6, <3>1, <3>2, PostMoves
    <3>4. bal[Locked(u)] = amount /\ \A v \in Members : bal[Locked(v)] \in Int
      BY <2>1, <2>3, <2>4, <2>5, <2>6, LockedTyped DEF RitualInv
    <3>5. QED
      BY <3>2, <3>3, <3>4
  <2>10. \A j, k \in DOMAIN rituals' :
           (Ongoing(j))' /\ (Ongoing(k))' /\ rituals'[j].user = rituals'[k].user => j = k
    BY <2>3, <2>4 DEF RitualInv
  <2>11. \A j \in DOMAIN rituals : j # i /\ Ongoing(j) => rituals[j].user # u
    BY <2>1, <2>3, <2>4 DEF RitualInv
  <2>12. \A t \in DOMAIN txns : txns[t].type = "ritual_release" => txns[t].ref # i
    BY <2>4 DEF RitualInv
  <2>13. \A t \in DOMAIN txns' : txns'[t].type = "ritual_release" =>
           txns'[t].ref \in DOMAIN rituals' /\ rituals'[txns'[t].ref].status = "completed"
    BY <2>1, <2>3, <2>4, <2>7, <2>8, <2>12 DEF RitualInv, Ongoing
  <2>14. /\ \A s, t \in DOMAIN txns' :
             txns'[s].type = "ritual_release" /\ txns'[t].type = "ritual_release" /\ txns'[s].ref = txns'[t].ref => s = t
         /\ \A j \in DOMAIN rituals' : ~(Ongoing(j))' =>
             \E t \in DOMAIN txns' : txns'[t].type = "ritual_release" /\ txns'[t].ref = j
    BY <2>3, <2>4, <2>7, <2>8, <2>12 DEF RitualInv
  <2>15. /\ \A j \in DOMAIN rituals' : (Ongoing(j))' => bal'[Locked(rituals'[j].user)] = Unlocks[rituals'[j].league]
         /\ \A v \in Members : (\A j \in DOMAIN rituals' : (Ongoing(j))' => rituals'[j].user # v) => bal'[Locked(v)] = 0
    <3>1. \A j \in DOMAIN rituals' : (Ongoing(j))' =>
            j # i /\ Ongoing(j) /\ rituals'[j] = rituals[j] /\ rituals[j].user # u /\ rituals[j].user \in Members
      BY <2>3, <2>4, <2>11 DEF LeagueTyped
    <3>2. \A v \in Members : v # u /\ (\A j \in DOMAIN rituals' : (Ongoing(j))' => rituals'[j].user # v)
            => \A j \in DOMAIN rituals : Ongoing(j) => rituals[j].user # v
      BY <2>3, <2>4
    <3>3. QED
      BY <2>3, <2>5, <2>9, <3>1, <3>2 DEF RitualInv
  <2>16. QED
    BY <2>10, <2>13, <2>14, <2>15 DEF RitualInv, Ongoing
<1>10. QED
  BY <1>2, <1>3, <1>4, <1>5, <1>6, <1>7, <1>8, <1>9 DEF Leaguing

LEMMA LeagueInit ==
  ASSUME EconomyInit
  PROVE  LeagueTyped /\ RitualInv
<1>1. /\ txns = <<>> /\ rituals = <<>> /\ asks = [w \in Asks |-> NoAsk]
      /\ standing = [u \in Members |-> [earned |-> 0, unlocked |-> 0, current |-> 0]]
  BY DEF EconomyInit, LeaguesInit
<1>2. NoAsk.stage # "start"
  BY DEF NoAsk
<1>3. IsSeq(<<>>) /\ DOMAIN <<>> = {}
  BY DEF IsSeq
<1>4. LeagueTyped
  BY <1>1, <1>2, <1>3 DEF LeagueTyped
<1>5. ASSUME part = "leagues", NEW u \in Members
      PROVE  bal[Locked(u)] = 0
  <2>1. Locked(u) \in Accounts
    BY RewardAssumption
  <2>2. /\ Locked(u) # Genesis /\ Locked(u) # RewardPool
        /\ Locked(u) \notin {Available(v) : v \in Members}
    BY DEF Locked, Available, Genesis, RewardPool
  <2>3. bal[Locked(u)] = CASE Locked(u) = Genesis -> -PoolFunds
                           [] Locked(u) = RewardPool -> PoolFunds
                           [] Locked(u) \in {Available(v) : v \in Members} -> EconomyFunds
                           [] OTHER -> 0
    BY <1>5, <2>1 DEF EconomyInit
  <2>4. QED
    BY <2>2, <2>3
<1>6. RitualInv
  BY <1>1, <1>3, <1>5 DEF RitualInv
<1>7. QED
  BY <1>4, <1>6

\* However often its user claims it and however the sweeper and the claims cross:
\* a ritual gives its tokens back once, when it ends, and while it lasts what the
\* user has locked is what that one ritual locks.
THEOREM RitualsReleaseOnce == EconomySpec => []RitualReleasedOnce
<1>1. EconomyInit => LeagueTyped /\ RitualInv
  BY LeagueInit
<1>2. LeagueTyped /\ RitualInv /\ [EconomyNext]_economyVars => (LeagueTyped /\ RitualInv)'
  BY LeagueSteps, LeagueTypedStep, RitualStep
<1>3. LeagueTyped /\ RitualInv => RitualReleasedOnce
  <2> SUFFICES ASSUME LeagueTyped, RitualInv PROVE RitualReleasedOnce
    OBVIOUS
  <2>1. ASSUME NEW i \in DOMAIN rituals
        PROVE  Cardinality(Moves("ritual_release", i)) = IF Ongoing(i) THEN 0 ELSE 1
    <3>1. \A x, y \in Moves("ritual_release", i) : x = y
      BY DEF RitualInv, Moves
    <3>2. Moves("ritual_release", i) = {} <=> Ongoing(i)
      BY DEF RitualInv, Moves
    <3>3. QED
      BY <3>1, <3>2, AtMostOne
  <2>2. ASSUME NEW u \in Members, NEW i \in DOMAIN rituals, Ongoing(i), rituals[i].user = u
        PROVE  bal[Locked(u)] = Unlocks[rituals[i].league]
    <3>1. part = "leagues"
      BY DEF LeagueTyped
    <3>2. QED
      BY <2>2, <3>1 DEF RitualInv
  <2>3. QED
    BY <2>1, <2>2 DEF RitualReleasedOnce
<1>4. QED
  BY <1>1, <1>2, <1>3, PTL DEF EconomySpec

------------------------------------------------------------------------------
(* Rewards.                                                                  *)

\* What some rewards are worth.
LEMMA OwedFacts ==
  ASSUME NEW S \in SUBSET DOMAIN Rewards
  PROVE  /\ IsFiniteSet(S) /\ Owed(S) \in Nat
         /\ \A k \in DOMAIN Rewards \ S : Owed(S \union {k}) = Rewards[k] + Owed(S)
         /\ \A k \in S : Owed(S) = Rewards[k] + Owed(S \ {k})
<1>1. IsFiniteSet(S) /\ \A k \in DOMAIN Rewards : Rewards[k] \in Int /\ Rewards[k] \in Nat
  BY RewardAssumption, FS_Subset
<1>2. Owed(S) \in Int /\ \A k \in S : Owed(S) = Rewards[k] + Owed(S \ {k})
  BY <1>1, SumTakesOut DEF Owed
<1>3. Owed(S) >= 0
  <2>1. PICK zero : zero = [k \in S |-> 0]
    OBVIOUS
  <2>2. \A k \in S : zero[k] \in Int /\ Rewards[k] \in Int /\ zero[k] <= Rewards[k] /\ zero[k] = 0
    BY <1>1, <2>1
  <2>3. SumFunctionOnSet(zero, S) <= SumFunctionOnSet(Rewards, S)
    BY <1>1, <2>2, SumMonotone
  <2>4. SumFunctionOnSet(zero, S) = 0
    BY <1>1, <2>2, SumOfZeros
  <2>5. QED
    BY <2>3, <2>4 DEF Owed
<1>4. ASSUME NEW k \in DOMAIN Rewards \ S
      PROVE  Owed(S \union {k}) = Rewards[k] + Owed(S)
  <2>1. k \notin S /\ \A y \in S \union {k} : Rewards[y] \in Int
    BY <1>1
  <2>2. QED
    BY <1>1, <2>1, SumAdds DEF Owed
<1>5. QED
  BY <1>1, <1>2, <1>3, <1>4

\* Fewer rewards are worth no more.
LEMMA OwedLess ==
  ASSUME NEW S \in SUBSET DOMAIN Rewards, NEW R \in SUBSET S
  PROVE  Owed(R) <= Owed(S) /\ Owed(R) \in Nat /\ Owed(S) \in Nat
<1>1. PICK T : T = S \ R
  OBVIOUS
<1>2. R \in SUBSET DOMAIN Rewards /\ T \in SUBSET DOMAIN Rewards /\ R \cap T = {} /\ S = R \union T
  BY <1>1
<1>3. /\ IsFiniteSet(R) /\ IsFiniteSet(T)
      /\ Owed(R) \in Nat /\ Owed(T) \in Nat /\ Owed(S) \in Nat
  BY <1>2, OwedFacts
<1>4. \A k \in R \union T : Rewards[k] \in Int
  BY <1>2, RewardAssumption
<1>5. Owed(R \union T) = Owed(R) + Owed(T)
  BY <1>2, <1>3, <1>4, SumOfUnion DEF Owed
<1>6. QED
  BY <1>2, <1>3, <1>5

\* Calls for one reward of one user: under way, and how many.
Calling(k, u, w) == <<k, u, w>> \in grants \union credits

\* A reward was paid once, under the key of the user and the milestone; what is still to
\* be counted was paid.  As long as no two calls for it have overlapped, there is one at
\* a time, and while it has not posted nobody has.
EarnInv ==
  /\ \A u \in Members : standing[u].current = Reached(standing[u].earned, standing[u].unlocked)
  /\ \A x \in DOMAIN txns : txns[x].type = "milestone" =>
       \E k \in DOMAIN Rewards, u \in Members : txns[x].ref = <<k, u>> /\ txns[x].key = RewardKey(k, u)
  /\ \A x, y \in DOMAIN txns :
       txns[x].type = "milestone" /\ txns[y].type = "milestone" /\ txns[x].ref = txns[y].ref => x = y
  /\ part = "leagues" =>
       \A k \in DOMAIN Rewards, u \in Members : Committed(RewardKey(k, u)) => k \in PaidTo(u)
  /\ part # "leagues" => grants = {} /\ credits = {}
  /\ \A u \in Members : DueTo(u) \subseteq PaidTo(u)
  /\ \A k \in DOMAIN Rewards, u \in Members : <<k, u>> \notin overlapped =>
       /\ \A v, w \in Asks : Calling(k, u, v) /\ Calling(k, u, w) => v = w
       /\ \A w \in Asks : <<k, u, w>> \in grants => ~Committed(RewardKey(k, u))
  /\ \A u \in Members : InTurn(u) => standing[u].earned + Owed(DueTo(u)) <= Owed(PaidTo(u))

\* No reward is paid.
NoReward ==
  \/ UNCHANGED txns
  \/ \E x : /\ x.type # "milestone" /\ Grown(txns, txns', x)
            /\ part = "leagues" => \A k \in DOMAIN Rewards, u \in Members : x.key # RewardKey(k, u)

\* What has been paid stays paid, and nothing else is.
LEMMA PaidStays ==
  ASSUME IsSeq(txns), NoReward
  PROVE  /\ \A u \in Members : PaidTo(u)' = PaidTo(u)
         /\ part = "leagues" => \A k \in DOMAIN Rewards, u \in Members :
              Committed(RewardKey(k, u))' <=> Committed(RewardKey(k, u))
         /\ \A x \in DOMAIN txns : x \in DOMAIN txns' /\ txns'[x] = txns[x]
         /\ \A x \in DOMAIN txns' : txns'[x].type = "milestone" => x \in DOMAIN txns /\ txns'[x] = txns[x]
<1>1. /\ \A x \in DOMAIN txns : x \in DOMAIN txns' /\ txns'[x] = txns[x]
      /\ \A x \in DOMAIN txns' : txns'[x].type = "milestone" => x \in DOMAIN txns /\ txns'[x] = txns[x]
  BY NewEntry DEF NoReward
<1>2. \A r : Moves("milestone", r)' = Moves("milestone", r)
  BY <1>1 DEF Moves
<1>3. ASSUME part = "leagues", NEW k \in DOMAIN Rewards, NEW u \in Members
      PROVE  Committed(RewardKey(k, u))' <=> Committed(RewardKey(k, u))
  <2>1. PICK key : key = RewardKey(k, u)
    OBVIOUS
  <2>2. \A x \in DOMAIN txns' : (x \in DOMAIN txns /\ txns'[x] = txns[x]) \/ txns'[x].key # key
    BY <1>3, <2>1, NewEntry DEF NoReward
  <2>3. Committed(key)' <=> Committed(key)
    BY <1>1, <2>2 DEF Committed
  <2>4. QED
    BY <2>1, <2>3 DEF RewardKey
<1>4. QED
  BY <1>1, <1>2, <1>3 DEF PaidTo

\* The rewards stay, as far as the invariant can tell.
LEMMA RewardsStay ==
  ASSUME LeagueTyped, EarnInv, NoReward,
         \A u \in Members : /\ standing'[u].earned = standing[u].earned
                            /\ standing'[u].current = Reached(standing[u].earned, standing'[u].unlocked),
         UNCHANGED <<grants, credits, overlapped, part>>
  PROVE  EarnInv'
<1>1. IsSeq(txns)
  BY DEF LeagueTyped
<1>2. /\ \A x \in DOMAIN txns' : txns'[x].type = "milestone" =>
           \E k \in DOMAIN Rewards, u \in Members : txns'[x].ref = <<k, u>> /\ txns'[x].key = RewardKey(k, u)
      /\ \A x, y \in DOMAIN txns' :
           txns'[x].type = "milestone" /\ txns'[y].type = "milestone" /\ txns'[x].ref = txns'[y].ref => x = y
  BY <1>1, PaidStays DEF EarnInv
<1>3. \A u \in Members : PaidTo(u)' = PaidTo(u) /\ DueTo(u)' = DueTo(u) /\ InTurn(u)' = InTurn(u)
  BY <1>1, PaidStays DEF DueTo, InTurn
<1>4. \A u \in Members : /\ DueTo(u)' \subseteq PaidTo(u)'
                         /\ InTurn(u)' => standing'[u].earned + Owed(DueTo(u)') <= Owed(PaidTo(u)')
  BY <1>3 DEF EarnInv
<1>5. part = "leagues" => \A k \in DOMAIN Rewards, u \in Members :
        (Committed(RewardKey(k, u)) => k \in PaidTo(u))'
  BY <1>1, <1>3, PaidStays DEF EarnInv
<1>6. \A k \in DOMAIN Rewards, u \in Members : <<k, u>> \notin overlapped =>
       /\ \A v, w \in Asks : Calling(k, u, v)' /\ Calling(k, u, w)' => v = w
       /\ \A w \in Asks : <<k, u, w>> \in grants => ~Committed(RewardKey(k, u))'
  <2>1. \A k, u, w : Calling(k, u, w)' <=> Calling(k, u, w)
    BY DEF Calling
  <2>2. QED
    BY <1>1, <2>1, PaidStays DEF EarnInv
<1>7. \A u \in Members : standing'[u].current = Reached(standing'[u].earned, standing'[u].unlocked)
  OBVIOUS
<1>8. QED
  BY <1>2, <1>4, <1>5, <1>6, <1>7 DEF EarnInv, Reached, Owed

\* The calls move and the ledger does not.
LEMMA CallsMove ==
  ASSUME LeagueTyped, EarnInv, CallMoves \/ (LoseCredits /\ UNCHANGED part)
  PROVE  EarnInv'
<1>1. UNCHANGED <<txns, standing, part>>
  BY DEF CallMoves, LoseCredits
<1>2. /\ \A u \in Members : PaidTo(u)' = PaidTo(u)
      /\ \A k, u : Committed(RewardKey(k, u))' <=> Committed(RewardKey(k, u))
  BY <1>1 DEF PaidTo, Moves, Committed, RewardKey
<1>3. /\ \A u \in Members : DueTo(u) \in SUBSET DOMAIN Rewards /\ PaidTo(u) \in SUBSET DOMAIN Rewards
      /\ \A u \in Members : DueTo(u)' \in SUBSET DOMAIN Rewards
      /\ \A u \in Members : standing[u].earned \in Nat
  BY DEF DueTo, PaidTo, LeagueTyped
\* What has to be shown of each of them.
<1> DEFINE Due == \A u \in Members :
             DueTo(u)' \subseteq PaidTo(u) /\ (InTurn(u)' => InTurn(u) /\ DueTo(u)' \subseteq DueTo(u))
           Calls == \A k \in DOMAIN Rewards, u \in Members : <<k, u>> \notin overlapped' =>
             /\ \A v, w \in Asks : Calling(k, u, v)' /\ Calling(k, u, w)' => v = w
             /\ \A w \in Asks : <<k, u, w>> \in grants' => ~Committed(RewardKey(k, u))
           None == part # "leagues" => grants' = {} /\ credits' = {}
<1>4. ASSUME Due, Calls, None
      PROVE  EarnInv'
  <2>1. \A u \in Members : DueTo(u)' \subseteq PaidTo(u)'
    BY <1>2, <1>4
  <2>2. ASSUME NEW u \in Members, InTurn(u)'
        PROVE  standing'[u].earned + Owed(DueTo(u)') <= Owed(PaidTo(u)')
    <3>1. InTurn(u) /\ DueTo(u)' \subseteq DueTo(u)
      BY <1>4, <2>2
    <3>2. standing[u].earned + Owed(DueTo(u)) <= Owed(PaidTo(u))
      BY <3>1 DEF EarnInv
    <3>3. PICK D, E : D = DueTo(u) /\ E = DueTo(u)'
      OBVIOUS
    <3>4. Owed(E) <= Owed(D) /\ Owed(E) \in Nat /\ Owed(D) \in Nat
      BY <1>3, <3>1, <3>3, OwedLess
    <3>5. Owed(PaidTo(u)) \in Nat /\ standing[u].earned \in Nat
      BY <1>3, OwedFacts
    <3>6. standing[u].earned + Owed(E) <= Owed(PaidTo(u))
      BY <3>2, <3>3, <3>4, <3>5
    <3>7. QED
      BY <1>1, <1>2, <3>3, <3>6
  <2>3. \A k \in DOMAIN Rewards, u \in Members : <<k, u>> \notin overlapped' =>
             /\ \A v, w \in Asks : Calling(k, u, v)' /\ Calling(k, u, w)' => v = w
             /\ \A w \in Asks : <<k, u, w>> \in grants' => ~Committed(RewardKey(k, u))'
    BY <1>2, <1>4
  <2>4. part' = "leagues" =>
       \A k \in DOMAIN Rewards, u \in Members : (Committed(RewardKey(k, u)) => k \in PaidTo(u))'
    BY <1>1, <1>2 DEF EarnInv
  <2>5. \A u \in Members : standing'[u].current = Reached(standing'[u].earned, standing'[u].unlocked)
    BY <1>1 DEF EarnInv
  <2>6. /\ \A x \in DOMAIN txns' : txns'[x].type = "milestone" =>
             \E k \in DOMAIN Rewards, u \in Members : txns'[x].ref = <<k, u>> /\ txns'[x].key = RewardKey(k, u)
        /\ \A x, y \in DOMAIN txns' :
             txns'[x].type = "milestone" /\ txns'[y].type = "milestone" /\ txns'[x].ref = txns'[y].ref => x = y
    BY <1>1 DEF EarnInv
  <2>7. part' # "leagues" => grants' = {} /\ credits' = {}
    BY <1>1, <1>4
  <2>8. QED
    BY <2>1, <2>2, <2>3, <2>4, <2>5, <2>6, <2>7 DEF EarnInv, Reached, Owed, RewardKey
<1>5. CASE LoseCredits /\ UNCHANGED part
  <2>1. grants' = {} /\ credits' = {} /\ UNCHANGED overlapped
    BY <1>5 DEF LoseCredits
  <2>2. Due
    BY <2>1 DEF DueTo, InTurn
  <2>3. Calls
    BY <2>1 DEF Calling
  <2>4. QED
    BY <1>4, <2>1, <2>2, <2>3
<1>6. CASE CallMoves
  <2>1. PICK k \in DOMAIN Rewards, u \in Members, w \in Asks :
          AskGrant(k, u, w) \/ RewardReplayed(k, u, w) \/ FailGrant(k, u, w)
    BY <1>6 DEF CallMoves
  <2>2. None
    BY <1>6 DEF CallMoves
  <2>3. CASE FailGrant(k, u, w)
    <3>1. grants' \subseteq grants /\ credits' \subseteq credits /\ UNCHANGED overlapped
      BY <2>3 DEF FailGrant
    <3>2. Due
      BY <3>1 DEF DueTo, InTurn, EarnInv
    <3>3. \A l, v, y : Calling(l, v, y)' => Calling(l, v, y)
      BY <3>1 DEF Calling
    <3>4. Calls
      BY <3>1, <3>3 DEF EarnInv
    <3>5. QED
      BY <1>4, <2>2, <3>2, <3>4
  <2>4. CASE RewardReplayed(k, u, w)
    <3>1. /\ Committed(RewardKey(k, u)) /\ <<k, u, w>> \in grants /\ UNCHANGED overlapped
          /\ grants' = grants \ {<<k, u, w>>} /\ credits' = credits \union {<<k, u, w>>}
      BY <2>4 DEF RewardReplayed
    <3>2. <<k, u>> \in overlapped /\ ~InTurn(u)
      BY <3>1 DEF EarnInv, InTurn
    <3>3. k \in PaidTo(u)
      BY <1>6, <3>1 DEF CallMoves, EarnInv
    <3>4. \A v \in Members : DueTo(v)' \subseteq DueTo(v) \union (IF v = u THEN {k} ELSE {})
      BY <3>1 DEF DueTo
    <3>5. Due
      BY <3>1, <3>2, <3>3, <3>4 DEF EarnInv, InTurn
    <3>6. \A l, v, y : Calling(l, v, y)' => Calling(l, v, y)
      BY <3>1 DEF Calling
    <3>7. Calls
      BY <3>1, <3>6 DEF EarnInv
    <3>8. QED
      BY <1>4, <2>2, <3>5, <3>7
  <2>5. CASE AskGrant(k, u, w)
    <3>1. /\ ~Committed(RewardKey(k, u)) /\ credits' = credits
          /\ grants' = grants \union {<<k, u, w>>}
          /\ overlapped \subseteq overlapped'
          /\ \A v \in Asks : <<k, u, v>> \in grants => <<k, u>> \in overlapped'
      BY <2>5 DEF AskGrant
    <3>2. Due
      BY <3>1 DEF DueTo, InTurn, EarnInv
    <3>3. \A v \in Asks : <<k, u, v>> \notin credits
      <4>1. ASSUME NEW v \in Asks, <<k, u, v>> \in credits
            PROVE  FALSE
        <5>1. k \in PaidTo(u)
          BY <4>1 DEF EarnInv, DueTo
        <5>2. PICK x \in DOMAIN txns : txns[x].type = "milestone" /\ txns[x].ref = <<k, u>>
          BY <5>1 DEF PaidTo, Moves
        <5>3. txns[x].key = RewardKey(k, u)
          <6>1. PICK l, m : txns[x].ref = <<l, m>> /\ txns[x].key = RewardKey(l, m)
            BY <5>2 DEF EarnInv
          <6>2. l = k /\ m = u
            BY <5>2, <6>1
          <6>3. QED
            BY <6>1, <6>2
        <5>4. RewardKey(k, u) # NoKey
          BY RewardAssumption DEF RewardKey
        <5>5. QED
          BY <3>1, <5>3, <5>4 DEF Committed
      <4>2. QED
        BY <4>1
    <3>4. \A l, v, y : Calling(l, v, y)' => Calling(l, v, y) \/ (l = k /\ v = u /\ y = w)
      BY <3>1 DEF Calling
    <3>5. <<k, u>> \notin overlapped' => \A v \in Asks : ~Calling(k, u, v)
      BY <3>1, <3>3 DEF Calling
    <3>6. Calls
      BY <3>1, <3>4, <3>5 DEF EarnInv
    <3>7. QED
      BY <1>4, <2>2, <3>2, <3>6
  <2>6. QED
    BY <2>1, <2>3, <2>4, <2>5
<1>7. QED
  BY <1>5, <1>6

LEMMA EarnStep == ASSUME LeagueTyped, EarnInv, Leaguing PROVE EarnInv'
<1>0. LeagueTyped' /\ IsSeq(txns)
  BY LeagueTypedStep DEF LeagueTyped
<1>1. \A u \in Members :
        /\ DueTo(u) \in SUBSET DOMAIN Rewards /\ PaidTo(u) \in SUBSET DOMAIN Rewards
        /\ standing[u].earned \in Nat /\ standing[u].unlocked \in Nat /\ standing[u].current \in Nat
  BY DEF DueTo, PaidTo, LeagueTyped
<1>2. \A u \in Members : Owed(DueTo(u)) \in Nat /\ Owed(PaidTo(u)) \in Nat
  BY <1>1, OwedFacts
<1>3. CASE UNCHANGED <<txns, grants, credits, overlapped, part, standing>>
  BY <1>0, <1>3, RewardsStay DEF EarnInv, NoReward
<1>4. CASE \E k \in DOMAIN Rewards, u \in Members, w \in Asks : RewardGiven(k, u, w) /\ part = "leagues"
  <2>1. PICK k, u, w : k \in DOMAIN Rewards /\ u \in Members /\ w \in Asks /\ RewardGiven(k, u, w) /\ part = "leagues"
    BY <1>4
  <2>2. PICK x : /\ Grown(txns, txns', x) /\ x.type = "milestone"
                 /\ x.ref = <<k, u>> /\ x.key = RewardKey(k, u)
    BY <2>1 DEF RewardGiven, Posted1
  <2>3. /\ \A t \in DOMAIN txns : t \in DOMAIN txns' /\ txns'[t] = txns[t]
        /\ \A t \in DOMAIN txns' : t \in DOMAIN txns \/ (t = Len(txns) + 1 /\ txns'[t] = x)
        /\ Len(txns) + 1 \in DOMAIN txns' /\ txns'[Len(txns) + 1] = x
    BY <1>0, <2>2, NewEntry
  <2>4. /\ \A t \in DOMAIN txns : txns[t].key # RewardKey(k, u)
        /\ ~Committed(RewardKey(k, u))
    BY <2>1, RewardAssumption DEF RewardGiven, Posted1, Committed, RewardKey
  <2>5. \A t \in DOMAIN txns : txns[t].type = "milestone" => txns[t].ref # <<k, u>>
    <3>1. ASSUME NEW t \in DOMAIN txns, txns[t].type = "milestone", txns[t].ref = <<k, u>>
          PROVE  FALSE
      <4>1. PICK l, v : txns[t].ref = <<l, v>> /\ txns[t].key = RewardKey(l, v)
        BY <3>1 DEF EarnInv
      <4>2. l = k /\ v = u
        BY <3>1, <4>1
      <4>3. QED
        BY <2>4, <4>1, <4>2
    <3>2. QED
      BY <3>1
  <2>6. k \notin PaidTo(u) /\ k \notin DueTo(u)
    <3>1. k \notin PaidTo(u)
      BY <2>5 DEF PaidTo, Moves
    <3>2. QED
      BY <2>1, <3>1 DEF EarnInv
  <2>7. \A r : r # <<k, u>> => Moves("milestone", r)' = Moves("milestone", r)
    BY <2>2, <2>3 DEF Moves
  <2>8. Moves("milestone", <<k, u>>)' # {}
    BY <2>2, <2>3 DEF Moves
  <2>a. /\ grants' = grants \ {<<k, u, w>>} /\ credits' = credits \union {<<k, u, w>>}
        /\ <<k, u, w>> \in grants /\ UNCHANGED <<overlapped, part, standing>>
    BY <2>1 DEF RewardGiven
  <2>9. \A v : v # u => PaidTo(v)' = PaidTo(v) /\ DueTo(v)' = DueTo(v)
    <3>1. \A v : v # u => \A l : <<l, v>> # <<k, u>> /\ \A y : <<l, v, y>> # <<k, u, w>>
      OBVIOUS
    <3>2. QED
      BY <2>7, <2>a, <3>1 DEF PaidTo, DueTo
  <2>10. PaidTo(u)' = PaidTo(u) \union {k} /\ DueTo(u)' = DueTo(u) \union {k}
    <3>1. \A l : l # k => <<l, u>> # <<k, u>> /\ \A y : <<l, u, y>> # <<k, u, w>>
      OBVIOUS
    <3>2. PaidTo(u)' = PaidTo(u) \union {k}
      BY <2>1, <2>7, <2>8, <3>1 DEF PaidTo
    <3>3. DueTo(u)' = DueTo(u) \union {k}
      BY <2>1, <2>a, <3>1 DEF DueTo
    <3>4. QED
      BY <3>2, <3>3
  <2>11. /\ Owed(PaidTo(u) \union {k}) = Rewards[k] + Owed(PaidTo(u))
         /\ Owed(DueTo(u) \union {k}) = Rewards[k] + Owed(DueTo(u))
         /\ Rewards[k] \in Nat
    BY <1>1, <2>1, <2>6, OwedFacts, RewardAssumption
  <2>12. ASSUME NEW v \in Members
         PROVE  /\ DueTo(v)' \subseteq PaidTo(v)'
                /\ InTurn(v)' => standing'[v].earned + Owed(DueTo(v)') <= Owed(PaidTo(v)')
    <3>1. InTurn(v)' <=> InTurn(v)
      BY <2>a DEF InTurn
    <3>2. CASE v # u
      BY <2>9, <2>a, <3>1, <3>2 DEF EarnInv
    <3>3. CASE v = u
      <4>1. DueTo(u) \subseteq PaidTo(u)
        BY <2>1 DEF EarnInv
      <4>2. ASSUME InTurn(u)
            PROVE  standing'[u].earned + Owed(DueTo(u)') <= Owed(PaidTo(u)')
        <5>1. standing[u].earned + Owed(DueTo(u)) <= Owed(PaidTo(u))
          BY <2>1, <4>2 DEF EarnInv
        <5>2. PICK e, d, p \in Nat : e = standing[u].earned /\ d = Owed(DueTo(u)) /\ p = Owed(PaidTo(u))
          BY <1>1, <1>2, <2>1
        <5>3. e + (Rewards[k] + d) <= Rewards[k] + p
          BY <2>11, <5>1, <5>2
        <5>4. QED
          BY <2>10, <2>11, <2>a, <5>2, <5>3
      <4>3. QED
        BY <2>10, <3>1, <3>3, <4>1, <4>2
    <3>4. QED
      BY <3>2, <3>3
  <2>13. /\ \A t \in DOMAIN txns' : txns'[t].type = "milestone" =>
              \E l \in DOMAIN Rewards, v \in Members : txns'[t].ref = <<l, v>> /\ txns'[t].key = RewardKey(l, v)
         /\ \A t, s \in DOMAIN txns' :
              txns'[t].type = "milestone" /\ txns'[s].type = "milestone" /\ txns'[t].ref = txns'[s].ref => t = s
    BY <2>1, <2>2, <2>3, <2>5 DEF EarnInv
  <2>14. ASSUME NEW l \in DOMAIN Rewards, NEW v \in Members, l # k \/ v # u
         PROVE  Committed(RewardKey(l, v))' <=> Committed(RewardKey(l, v))
    <3>1. PICK key : key = RewardKey(l, v)
      OBVIOUS
    <3>2. key # x.key
      BY <2>2, <2>14, <3>1 DEF RewardKey
    <3>3. Committed(key)' <=> Committed(key)
      BY <2>3, <3>2 DEF Committed
    <3>4. QED
      BY <3>1, <3>3 DEF RewardKey
  <2>15. ASSUME NEW l \in DOMAIN Rewards, NEW v \in Members, Committed(RewardKey(l, v))'
         PROVE  l \in PaidTo(v)'
    <3>1. CASE l = k /\ v = u
      BY <2>10, <3>1
    <3>2. CASE l # k \/ v # u
      <4>1. l \in PaidTo(v)
        BY <2>1, <2>14, <2>15, <3>2 DEF EarnInv
      <4>2. QED
        BY <2>9, <2>10, <4>1
    <3>3. QED
      BY <3>1, <3>2
  <2>16. ASSUME NEW l \in DOMAIN Rewards, NEW v \in Members, <<l, v>> \notin overlapped'
         PROVE  /\ \A y, z \in Asks : Calling(l, v, y)' /\ Calling(l, v, z)' => y = z
                /\ \A y \in Asks : <<l, v, y>> \in grants' => ~Committed(RewardKey(l, v))'
    <3>1. \A y : Calling(l, v, y)' => Calling(l, v, y)
      BY <2>a DEF Calling
    <3>2. \A y, z \in Asks : Calling(l, v, y) /\ Calling(l, v, z) => y = z
      BY <2>16, <2>a DEF EarnInv
    <3>3. ASSUME NEW y \in Asks, <<l, v, y>> \in grants'
          PROVE  ~Committed(RewardKey(l, v))'
      <4>1. <<l, v, y>> \in grants /\ <<l, v, y>> # <<k, u, w>>
        BY <2>a, <3>3
      <4>2. ~Committed(RewardKey(l, v))
        BY <2>16, <2>a, <4>1 DEF EarnInv
      <4>3. l # k \/ v # u
        <5>1. ASSUME l = k, v = u
              PROVE  FALSE
          <6>1. y = w
            BY <2>1, <2>a, <3>2, <4>1, <5>1 DEF Calling
          <6>2. QED
            BY <4>1, <5>1, <6>1
        <5>2. QED
          BY <5>1
      <4>4. QED
        BY <2>14, <4>2, <4>3
    <3>4. QED
      BY <3>1, <3>2, <3>3
  <2>17. \A v \in Members : standing'[v].current = Reached(standing'[v].earned, standing'[v].unlocked)
    BY <2>a DEF EarnInv
  <2>18. part' = "leagues"
    BY <2>1, <2>a
  <2>19. QED
    BY <2>12, <2>13, <2>15, <2>16, <2>17, <2>18 DEF EarnInv, Owed, Reached, RewardKey
<1>5. CASE \E k \in DOMAIN Rewards, u \in Members, w \in Asks : AddEarned(k, u, w) /\ UNCHANGED part
  <2>1. PICK k, u, w : /\ k \in DOMAIN Rewards /\ u \in Members /\ w \in Asks
                       /\ AddEarned(k, u, w) /\ UNCHANGED part
    BY <1>5
  <2>2. PICK earned \in Nat :
           /\ earned = standing[u].earned + Rewards[k]
           /\ standing' = [standing EXCEPT ![u] =
                [earned |-> earned, unlocked |-> standing[u].unlocked,
                 current |-> Reached(earned, standing[u].unlocked)]]
           /\ <<k, u, w>> \in credits /\ credits' = credits \ {<<k, u, w>>}
           /\ UNCHANGED <<txns, grants, overlapped>>
    BY <2>1, AddEarnedFacts
  <2>3. /\ \A v \in Members : PaidTo(v)' = PaidTo(v) /\ (InTurn(v)' <=> InTurn(v))
        /\ \A l, v : Committed(RewardKey(l, v))' <=> Committed(RewardKey(l, v))
    BY <2>2 DEF PaidTo, Moves, InTurn, Committed, RewardKey
  <2>4. /\ \A v \in Members : DueTo(v)' \subseteq DueTo(v)
        /\ \A v \in Members : v # u => DueTo(v)' = DueTo(v)
    <3>1. \A v : v # u => \A l, y : <<l, v, y>> # <<k, u, w>>
      OBVIOUS
    <3>2. QED
      BY <2>2, <3>1 DEF DueTo
  <2>5. k \in DueTo(u)
    BY <2>1, <2>2 DEF DueTo
  <2>6. InTurn(u) => DueTo(u)' = DueTo(u) \ {k}
    <3>1. ASSUME InTurn(u)
          PROVE  \A y \in Asks : <<k, u, y>> \in credits => y = w
      BY <2>1, <2>2, <3>1 DEF EarnInv, InTurn, Calling
    <3>2. \A l, y : l # k => <<l, u, y>> # <<k, u, w>>
      OBVIOUS
    <3>3. QED
      BY <2>1, <2>2, <3>1, <3>2 DEF DueTo
  <2>7. /\ \A v \in Members : v # u => standing'[v] = standing[v]
        /\ standing'[u].earned = earned /\ standing'[u].unlocked = standing[u].unlocked
        /\ standing'[u].current = Reached(earned, standing[u].unlocked)
    BY <2>1, <2>2 DEF LeagueTyped
  <2>8. ASSUME NEW v \in Members
        PROVE  /\ DueTo(v)' \subseteq PaidTo(v)'
               /\ InTurn(v)' => standing'[v].earned + Owed(DueTo(v)') <= Owed(PaidTo(v)')
    <3>1. CASE v # u
      BY <2>3, <2>4, <2>7, <3>1 DEF EarnInv
    <3>2. CASE v = u
      <4>1. DueTo(u) \subseteq PaidTo(u)
        BY <2>1 DEF EarnInv
      <4>2. ASSUME InTurn(u)
            PROVE  earned + Owed(DueTo(u) \ {k}) <= Owed(PaidTo(u))
        <5>1. standing[u].earned + Owed(DueTo(u)) <= Owed(PaidTo(u))
          BY <2>1, <4>2 DEF EarnInv
        <5>2. DueTo(u) \ {k} \in SUBSET DOMAIN Rewards
          BY <1>1, <2>1
        <5>3. /\ Owed(DueTo(u)) = Rewards[k] + Owed(DueTo(u) \ {k}) /\ Rewards[k] \in Nat
              /\ Owed(DueTo(u) \ {k}) \in Nat
          BY <1>1, <2>1, <2>5, <5>2, OwedFacts, RewardAssumption
        <5>4. QED
          BY <1>1, <1>2, <2>1, <2>2, <5>1, <5>3
      <4>3. QED
        BY <2>1, <2>3, <2>4, <2>6, <2>7, <3>2, <4>1, <4>2
    <3>3. QED
      BY <3>1, <3>2
  <2>9. \A v \in Members : standing'[v].current = Reached(standing'[v].earned, standing'[v].unlocked)
    BY <2>7 DEF EarnInv
  <2>10. \A l \in DOMAIN Rewards, v \in Members : <<l, v>> \notin overlapped' =>
             /\ \A y, z \in Asks : Calling(l, v, y)' /\ Calling(l, v, z)' => y = z
             /\ \A y \in Asks : <<l, v, y>> \in grants' => ~Committed(RewardKey(l, v))'
    <3>1. \A l, v, y : Calling(l, v, y)' => Calling(l, v, y)
      BY <2>2 DEF Calling
    <3>2. QED
      BY <2>2, <2>3, <3>1 DEF EarnInv
  <2>11. /\ part' = "leagues" =>
              \A l \in DOMAIN Rewards, v \in Members : (Committed(RewardKey(l, v)) => l \in PaidTo(v))'
         /\ part' # "leagues" => grants' = {} /\ credits' = {}
    BY <2>1, <2>2, <2>3 DEF EarnInv
  <2>12. /\ \A x \in DOMAIN txns' : txns'[x].type = "milestone" =>
             \E l \in DOMAIN Rewards, v \in Members : txns'[x].ref = <<l, v>> /\ txns'[x].key = RewardKey(l, v)
         /\ \A x, y \in DOMAIN txns' :
             txns'[x].type = "milestone" /\ txns'[y].type = "milestone" /\ txns'[x].ref = txns'[y].ref => x = y
    BY <2>2 DEF EarnInv
  <2>13. QED
    BY <2>8, <2>9, <2>10, <2>11, <2>12 DEF EarnInv, Owed, Reached, RewardKey
<1>6. CASE CallMoves \/ (LoseCredits /\ AsksKept /\ UNCHANGED part)
  BY <1>6, CallsMove
<1>7. CASE \E w \in Asks : StartRitual(w) /\ AsksKept /\ part = "leagues" /\ UNCHANGED part
  <2>1. PICK w : w \in Asks /\ StartRitual(w) /\ UNCHANGED part
    BY <1>7
  <2>2. UNCHANGED <<standing, grants, credits, overlapped>>
    BY <2>1 DEF StartRitual
  <2>3. PICK type, ref, key, from, cs :
          type = "ritual_lock" /\ key = <<"lr:lock", ref>> /\ Post(type, ref, key, from, cs)
    BY <2>1 DEF StartRitual
  <2>4. NoReward
    <3>1. \A k, u : key # RewardKey(k, u)
      BY <2>3 DEF RewardKey
    <3>2. QED
      BY <1>0, <2>3, <3>1, PostGrows DEF Posted1, NoReward
  <2>5. QED
    BY <1>7, <2>1, <2>2, <2>4, RewardsStay DEF EarnInv
<1>8. CASE \E i \in DOMAIN rituals : ClaimRitual(i) /\ UNCHANGED part
  <2>1. PICK i : i \in DOMAIN rituals /\ ClaimRitual(i) /\ UNCHANGED part
    BY <1>8
  <2>2. PICK u, league : Claimed(i, u, league)
    BY <2>1, ClaimFacts
  <2>3. /\ u \in Members /\ league \in Tiers /\ UNCHANGED <<grants, credits, overlapped>>
        /\ standing' = [standing EXCEPT ![u] =
             [earned |-> standing[u].earned, unlocked |-> Max({standing[u].unlocked, league}),
              current |-> Max({standing[u].current, league, 1})]]
    BY <2>2 DEF Claimed
  <2>4. PICK type, key, from, cs :
          type = "ritual_release" /\ key = <<"lr:release", i>> /\ Post(type, i, key, from, cs)
    BY <2>2 DEF Claimed
  <2>5. NoReward
    <3>1. \A k, v : key # RewardKey(k, v)
      BY <2>4 DEF RewardKey
    <3>2. QED
      BY <1>0, <2>4, <3>1, PostGrows DEF Posted1, NoReward
  <2>6. PICK m, n : m = Max({standing[u].unlocked, league}) /\ n = Max({standing[u].current, league, 1})
    OBVIOUS
  <2>7. n = Reached(standing[u].earned, m)
    <3>1. standing[u].current = Reached(standing[u].earned, standing[u].unlocked)
      BY <2>3 DEF EarnInv
    <3>2. QED
      BY <1>1, <2>3, <2>6, <3>1, ReachedAfter
  <2>8. standing' = [standing EXCEPT ![u] = [earned |-> standing[u].earned, unlocked |-> m, current |-> n]]
    BY <2>3, <2>6, Zenon
  <2>9. \A v \in Members : /\ standing'[v].earned = standing[v].earned
                           /\ standing'[v].current = Reached(standing[v].earned, standing'[v].unlocked)
    BY <2>3, <2>7, <2>8 DEF EarnInv, LeagueTyped
  <2>10. QED
    BY <2>1, <2>3, <2>5, <2>9, RewardsStay
<1>9. CASE Elsewhere
  <2>1. NoReward
    BY <1>9 DEF Elsewhere, NoLeague, NoReward, LeagueTypes
  <2>2. UNCHANGED <<standing, grants, credits, overlapped, part>>
    BY <1>9 DEF Elsewhere, leagueVars
  <2>3. QED
    BY <2>1, <2>2, RewardsStay DEF EarnInv
<1>10. CASE UNCHANGED <<bal, txns, standing, rituals, grants, credits, overlapped, part>> /\ AsksKept
  BY <1>3, <1>10
<1>11. CASE \E i \in DOMAIN rituals : Mature(i) /\ UNCHANGED part
  BY <1>3, <1>11 DEF Mature
<1>12. QED
  BY <1>3, <1>4, <1>5, <1>6, <1>7, <1>8, <1>9, <1>10, <1>11 DEF Leaguing

\* Whichever calls of grant interleave, fail or are lost between looking, paying and
\* counting: each reward is paid once and none is counted that was not paid; a user of
\* whom no two calls for one reward have overlapped has earned no more than was paid; and
\* the league the row keeps is the one that its other columns add up to.
THEOREM StandingFollowsPayments == EconomySpec => []StandingEarned
<1>1. EconomyInit => LeagueTyped /\ EarnInv
  <2> SUFFICES ASSUME EconomyInit PROVE LeagueTyped /\ EarnInv
    OBVIOUS
  <2>1. txns = <<>> /\ grants = {} /\ credits = {} /\ overlapped = {}
        /\ standing = [u \in Members |-> [earned |-> 0, unlocked |-> 0, current |-> 0]]
    BY DEF EconomyInit, LeaguesInit
  <2>2. DOMAIN txns = {}
    BY <2>1
  <2>3. \A u \in Members : DueTo(u) = {} /\ PaidTo(u) = {}
    BY <2>1, <2>2 DEF DueTo, PaidTo, Moves
  <2>4. Owed({}) = 0
    BY SumEmpty DEF Owed
  <2>5. Reached(0, 0) = 0
    <3>1. ~(0 >= Thresholds[1])
      BY LadderAssumption, Ladder
    <3>2. QED
      BY <3>1, ReachedIs
  <2>6. \A u \in Members : standing[u].earned = 0 /\ standing[u].unlocked = 0 /\ standing[u].current = 0
    BY <2>1
  <2>7. \A u \in Members : /\ DueTo(u) \subseteq PaidTo(u)
                           /\ standing[u].earned + Owed(DueTo(u)) <= Owed(PaidTo(u))
    BY <2>3, <2>4, <2>6
  <2>8. \A u \in Members : standing[u].current = Reached(standing[u].earned, standing[u].unlocked)
    BY <2>5, <2>6
  <2>9. \A k, u, w : ~Calling(k, u, w) /\ ~Committed(RewardKey(k, u))
    BY <2>1, <2>2 DEF Calling, Committed
  <2>10. QED
    BY <2>1, <2>2, <2>7, <2>8, <2>9, LeagueInit DEF EarnInv
<1>2. LeagueTyped /\ EarnInv /\ [EconomyNext]_economyVars => (LeagueTyped /\ EarnInv)'
  BY LeagueSteps, LeagueTypedStep, EarnStep
<1>3. LeagueTyped /\ EarnInv => StandingEarned
  <2> SUFFICES ASSUME LeagueTyped, EarnInv PROVE StandingEarned
    OBVIOUS
  <2>1. CurrentIsReached
    BY DEF EarnInv, CurrentIsReached
  <2>2. ASSUME NEW u \in Members
        PROVE  /\ DueTo(u) \subseteq PaidTo(u)
               /\ \A k \in PaidTo(u) : Cardinality(Moves("milestone", <<k, u>>)) = 1
               /\ InTurn(u) => standing[u].earned + Owed(DueTo(u)) <= Owed(PaidTo(u))
    <3>1. ASSUME NEW k \in PaidTo(u)
          PROVE  Cardinality(Moves("milestone", <<k, u>>)) = 1
      <4>1. \A x, y \in Moves("milestone", <<k, u>>) : x = y
        BY DEF EarnInv, Moves
      <4>2. Moves("milestone", <<k, u>>) # {}
        BY DEF PaidTo
      <4>3. QED
        BY <4>1, <4>2, AtMostOne
    <3>2. QED
      BY <3>1 DEF EarnInv
  <2>3. EarnedWasPaid
    BY <2>2 DEF EarnedWasPaid
  <2>4. QED
    BY <2>1, <2>3 DEF StandingEarned
<1>4. QED
  BY <1>1, <1>2, <1>3, PTL DEF EconomySpec

------------------------------------------------------------------------------
(* Row locks.                                                                *)

Rows == Wallets \union {RoundRow}
Locks == [row : Rows, mode : {"update", "share"}]

\* The order in which postings lock rows: the game's row, then wallets by their ids.
Before(r, s) ==
  \/ r = RoundRow /\ s \in Wallets
  \/ r \in Wallets /\ s \in Wallets /\ r < s

Ascending(w) == \A i, j \in DOMAIN w : i < j => Before(w[i].row, w[j].row)

\* Two wallets are locked in the order of their ids, whichever way they are named.
LEMMA LocksOfTwo ==
  ASSUME NEW a \in Wallets, NEW b \in Wallets
  PROVE  /\ LockWallets(<<a, b>>) \in Seq([row : Wallets, mode : {"update"}])
         /\ Ascending(LockWallets(<<a, b>>))
<1>1. a \in Int /\ b \in Int
  BY RowsAssumption
<1>2. Range(<<a, b>>) = {a, b}
  <2>1. DOMAIN <<a, b>> = {1, 2} /\ <<a, b>>[1] = a /\ <<a, b>>[2] = b
    OBVIOUS
  <2>2. QED
    BY <2>1, Zenon DEF Range
<1>3. PICK n \in Nat : n = Cardinality({a, b}) /\ \E s \in [1..n -> {a, b}] : Rising(s)
  <2>1. CASE a = b
    <3>1. {a, b} = {a} /\ Cardinality({a, b}) = 1
      BY <2>1, FS_Singleton
    <3>2. [i \in 1..1 |-> a] \in [1..1 -> {a, b}] /\ Rising([i \in 1..1 |-> a])
      BY DEF Rising
    <3>3. 1 = Cardinality({a, b}) /\ \E s \in [1..1 -> {a, b}] : Rising(s)
      BY <3>1, <3>2, Zenon
    <3>4. 1 \in Nat
      OBVIOUS
    <3>5. QED
      BY <3>3, <3>4, Zenon
  <2>2. CASE a # b
    <3>1. Cardinality({a, b}) = 2
      <4>1. IsFiniteSet({a}) /\ Cardinality({a}) = 1 /\ {a} \union {b} = {a, b} /\ b \notin {a}
        BY <2>2, FS_Singleton
      <4>2. Cardinality({a} \union {b}) = Cardinality({a}) + 1
        BY <4>1, FS_AddElement
      <4>3. QED
        BY <4>1, <4>2
    <3>2. PICK lo \in {a, b}, hi \in {a, b} : lo < hi
      BY <1>1, <2>2
    <3>3. [i \in 1..2 |-> IF i = 1 THEN lo ELSE hi] \in [1..2 -> {a, b}]
          /\ Rising([i \in 1..2 |-> IF i = 1 THEN lo ELSE hi])
      BY <1>1, <3>2 DEF Rising
    <3>4. 2 = Cardinality({a, b}) /\ \E s \in [1..2 -> {a, b}] : Rising(s)
      BY <3>1, <3>3, Zenon
    <3>5. 2 \in Nat
      OBVIOUS
    <3>6. QED
      BY <3>4, <3>5, Zenon
  <2>3. QED
    BY <2>1, <2>2, Zenon
<1>4. PICK s : s = InOrder({a, b})
  OBVIOUS
<1>5. s \in [1..n -> {a, b}] /\ Rising(s)
  <2>1. s = CHOOSE t \in [1..n -> {a, b}] : Rising(t)
    BY <1>3, <1>4, Zenon DEF InOrder
  <2>2. QED
    BY <1>3, <2>1, Zenon
<1>6. LockWallets(<<a, b>>) = [i \in 1..n |-> [row |-> s[i], mode |-> "update"]]
  <2>1. LockWallets(<<a, b>>) = [i \in DOMAIN s |-> Update(s[i])]
    BY <1>2, <1>4 DEF LockWallets
  <2>2. QED
    BY <1>5, <2>1 DEF Update
<1>7. \A i \in 1..n : s[i] \in Wallets
  BY <1>5
<1>8. LockWallets(<<a, b>>) \in Seq([row : Wallets, mode : {"update"}])
  <2> DEFINE W == [row : Wallets, mode : {"update"}]
             l == LockWallets(<<a, b>>)
  <2>1. l \in [1..n -> W]
    BY <1>6, <1>7
  <2> HIDE DEF W, l
  <2>2. l \in Seq(W)
    BY <2>1
  <2>3. QED
    BY <2>2 DEF W, l
<1>9. Ascending([i \in 1..n |-> [row |-> s[i], mode |-> "update"]])
  BY <1>5, <1>7 DEF Ascending, Rising, Before
<1>10. QED
  BY <1>6, <1>8, <1>9

\* A flow that only posts asks for its locks in ascending order.
LEMMA PostingsAscend ==
  ASSUME NEW f \in PostingFlows
  PROVE  Flows[f] \in Seq(Locks) /\ Ascending(Flows[f])
<1> DEFINE W == [row : Wallets, mode : {"update"}]
<1>1. Seq(W) \subseteq Seq(Locks)
  <2>1. W \subseteq Locks
    BY DEF Locks, Rows
  <2> HIDE DEF W
  <2>2. ASSUME NEW w \in Seq(W)
        PROVE  w \in Seq(Locks)
    <3>1. Len(w) \in Nat /\ w \in [1..Len(w) -> Locks]
      BY <2>1
    <3>2. QED
      BY <3>1
  <2>3. QED
    BY <2>2
<1>2. ASSUME NEW w \in Seq(W), Ascending(w)
      PROVE  <<Update(RoundRow)>> \o w \in Seq(Locks) /\ Ascending(<<Update(RoundRow)>> \o w)
  <2> DEFINE v == <<Update(RoundRow)>> \o w
  <2>1. Update(RoundRow) \in Locks
    BY DEF Update, Locks, Rows
  <2>2. v \in Seq(Locks)
    <3>1. w \in Seq(Locks)
      BY <1>1
    <3> HIDE DEF W
    <3>2. QED
      BY <2>1, <3>1
  <2>3. Len(v) = 1 + Len(w) /\ v[1].row = RoundRow /\ \A i \in 2..Len(v) : v[i] = w[i - 1]
    BY DEF Update
  <2>4. \A i \in DOMAIN w : w[i].row \in Wallets
    <3>1. \A l \in W : l.row \in Wallets
      OBVIOUS
    <3> HIDE DEF W
    <3>2. \A i \in DOMAIN w : w[i] \in W
      OBVIOUS
    <3>3. QED
      BY <3>1, <3>2
  <2>5. ASSUME NEW i \in DOMAIN v, NEW j \in DOMAIN v, i < j
        PROVE  Before(v[i].row, v[j].row)
    <3>1. j \in 2..Len(v) /\ v[j] = w[j - 1] /\ j - 1 \in DOMAIN w
      BY <2>2, <2>3, <2>5
    <3>2. CASE i = 1
      BY <2>3, <2>4, <3>1, <3>2 DEF Before
    <3>3. CASE i # 1
      <4>1. v[i] = w[i - 1] /\ i - 1 \in DOMAIN w /\ i - 1 < j - 1
        BY <2>2, <2>3, <2>5, <3>3
      <4>2. QED
        BY <1>2, <3>1, <4>1 DEF Ascending
    <3>4. QED
      BY <3>2, <3>3
  <2>6. QED
    BY <2>2, <2>5 DEF Ascending
<1>3. \A a, b \in Wallets : LockWallets(<<a, b>>) \in Seq(W) /\ Ascending(LockWallets(<<a, b>>))
  BY LocksOfTwo
<1>4. {Payer, Payee, TreasuryRow, GameRow} \subseteq Wallets
  BY DEF Wallets
<1> HIDE DEF W
<1>5. CASE f = "transfer"
  BY <1>1, <1>3, <1>4, <1>5 DEF Flows, Transfer
<1>6. CASE f = "reply"
  BY <1>1, <1>3, <1>4, <1>6 DEF Flows, Transfer
<1>7. CASE f = "spend"
  BY <1>1, <1>3, <1>4, <1>7 DEF Flows, Spend
<1>8. CASE f = "fund"
  BY <1>1, <1>3, <1>4, <1>8 DEF Flows, FundGame
<1>9. CASE f = "adjust"
  <2>1. Flows[f] = <<Update(RoundRow)>> \o LockWallets(<<Payer, TreasuryRow>>)
    BY <1>9 DEF Flows, Adjust
  <2>2. QED
    BY <1>2, <1>3, <1>4, <2>1
<1>10. QED
  BY <1>5, <1>6, <1>7, <1>8, <1>9 DEF PostingFlows

\* What an open transaction that only posts still wants comes after all that it holds.
Upward(w, h) ==
  /\ w \in Seq(Locks)
  /\ Ascending(w)
  /\ \A l \in h : \A i \in DOMAIN w : Before(l.row, w[i].row)

LocksInv ==
  /\ flow = [t \in Transactions |-> flow[t]]
  /\ want = [t \in Transactions |-> want[t]]
  /\ held = [t \in Transactions |-> held[t]]
  /\ \A t \in Transactions : flow[t] = "none" => want[t] = <<>> /\ held[t] = {}
  /\ \A t \in Transactions : flow[t] \in PostingFlows => Upward(want[t], held[t])

LEMMA LocksStep ==
  ASSUME LocksInv, [EconomyNext]_economyVars
  PROVE  LocksInv'
<1>1. CASE UNCHANGED lockVars
  BY <1>1 DEF LocksInv, lockVars
<1>2. ASSUME NEW t \in Transactions, NEW f \in Opened, Begin(t, f)
      PROVE  LocksInv'
  <2>1. /\ flow[t] = "none" /\ flow' = [flow EXCEPT ![t] = f]
        /\ want' = [want EXCEPT ![t] = Flows[f]] /\ held' = held
    BY <1>2 DEF Begin
  <2>2. held[t] = {}
    BY <2>1 DEF LocksInv
  <2>3. f \in PostingFlows => Upward(Flows[f], held[t])
    BY <2>2, PostingsAscend DEF Upward
  <2>4. f # "none"
    BY <1>2, FlowsAssumption DEF Flows
  <2>5. QED
    BY <2>1, <2>2, <2>3, <2>4 DEF LocksInv
<1>3. ASSUME NEW t \in Transactions, Acquire(t)
      PROVE  LocksInv'
  <2>1. /\ want[t] # <<>> /\ flow' = flow
        /\ want' = [want EXCEPT ![t] = Tail(want[t])]
        /\ held' = [held EXCEPT ![t] = held[t] \union {Head(want[t])}]
    BY <1>3 DEF Acquire
  <2>2. ASSUME flow[t] \in PostingFlows
        PROVE  Upward(Tail(want[t]), held[t] \union {Head(want[t])})
    <3> DEFINE w == want[t]
               v == Tail(w)
    <3>1. w \in Seq(Locks) /\ Ascending(w)
          /\ \A l \in held[t] : \A i \in DOMAIN w : Before(l.row, w[i].row)
      BY <2>2 DEF LocksInv, Upward
    <3> HIDE DEF w
    <3>2. v \in Seq(Locks) /\ Head(w) = w[1] /\ 1 \in DOMAIN w
          /\ \A i \in DOMAIN v : v[i] = w[i + 1] /\ i + 1 \in DOMAIN w /\ 1 < i + 1
      BY <2>1, <3>1 DEF w
    <3> HIDE DEF v
    <3>3. \A i, j \in DOMAIN v : i < j => Before(v[i].row, v[j].row)
      <4>1. \A i, j \in DOMAIN v : i < j => i + 1 < j + 1
        BY <3>2
      <4>2. QED
        BY <3>1, <3>2, <4>1 DEF Ascending
    <3>4. \A i \in DOMAIN v : Before(Head(w).row, v[i].row)
      BY <3>1, <3>2 DEF Ascending
    <3>5. \A l \in held[t] \union {Head(w)} : \A i \in DOMAIN v : Before(l.row, v[i].row)
      BY <3>1, <3>2, <3>4
    <3>6. Upward(v, held[t] \union {Head(w)})
      BY <3>2, <3>3, <3>5 DEF Upward, Ascending
    <3>7. QED
      BY <3>6 DEF v, w
  <2>3. flow[t] # "none"
    BY <2>1 DEF LocksInv
  <2>4. QED
    BY <2>1, <2>2, <2>3 DEF LocksInv
<1>4. ASSUME NEW t \in Transactions, End(t)
      PROVE  LocksInv'
  <2>1. /\ flow' = [flow EXCEPT ![t] = "none"]
        /\ want' = [want EXCEPT ![t] = <<>>] /\ held' = [held EXCEPT ![t] = {}]
    BY <1>4 DEF End
  <2>2. "none" \notin PostingFlows
    BY DEF PostingFlows
  <2>3. QED
    BY <2>1, <2>2 DEF LocksInv
<1>5. CASE LocksNext
  <2>1. PICK t \in Transactions : (\E f \in Opened : Begin(t, f)) \/ Acquire(t) \/ End(t)
    BY <1>5 DEF LocksNext, Commit, AbortVictim
  <2>2. QED
    BY <1>2, <1>3, <1>4, <2>1
<1>6. QED
  BY <1>1, <1>5 DEF EconomyNext, Leagueing, Emitting, economyVars

\* Among rows that are waited for, one comes after all others.
LEMMA LastRow ==
  ASSUME NEW R \in SUBSET Rows, R # {}
  PROVE  \E r \in R : \A s \in R : ~Before(r, s)
<1>1. CASE R \intersect Wallets = {}
  BY <1>1, RowsAssumption DEF Rows, Before
<1>2. CASE R \intersect Wallets # {}
  <2> DEFINE T == R \intersect Wallets
  <2>1. \E r \in T : \A s \in T : r >= s
    BY <1>2, RowsAssumption DEF Wallets
  <2>2. QED
    BY <2>1, RowsAssumption DEF Rows, Before
<1>3. QED
  BY <1>1, <1>2

\* The order that lockWallets takes its rows in keeps the transactions that only
\* post from waiting for each other in a circle: in every cycle that the database
\* breaks there is one that has upserted a wallet before.
THEOREM PostingsWaitInOrder == EconomySpec => []PostingsNeverCycle
<1>1. EconomyInit => LocksInv
  <2>1. EconomyInit => LocksInit
    BY DEF EconomyInit
  <2>2. LocksInit => LocksInv
    BY DEF LocksInit, LocksInv, PostingFlows
  <2>3. QED
    BY <2>1, <2>2
<1>2. LocksInv /\ [EconomyNext]_economyVars => LocksInv'
  BY LocksStep
<1>3. LocksInv => PostingsNeverCycle
  <2> SUFFICES ASSUME LocksInv,
                      NEW S \in SUBSET Transactions, S # {}, Stuck(S),
                      \A t \in S : flow[t] \in PostingFlows
               PROVE  FALSE
    <3>1. \A S \in Cycles : S \in SUBSET Transactions /\ S # {} /\ Stuck(S)
      BY DEF Cycles
    <3>2. QED
      BY <3>1 DEF PostingsNeverCycle
  <2> DEFINE Wanted(t) == Head(want[t]).row
             R == {Wanted(t) : t \in S}
  <2>1. ASSUME NEW t \in S
        PROVE  /\ want[t] # <<>>
               /\ \E s \in S : \E l \in held[s] : l.row = Wanted(t)
    BY DEF Stuck, Blockers, Conflict
  <2>2. ASSUME NEW t \in S
        PROVE  /\ Wanted(t) \in Rows
               /\ \A l \in held[t] : Before(l.row, Wanted(t))
    <3>1. Upward(want[t], held[t]) /\ want[t] # <<>>
      BY <2>1 DEF LocksInv
    <3>2. want[t] \in Seq(Locks) /\ 1 \in DOMAIN want[t] /\ Head(want[t]) = want[t][1]
      BY <3>1 DEF Upward
    <3>3. want[t][1] \in Locks
      BY <3>2
    <3>4. QED
      BY <3>1, <3>2, <3>3 DEF Upward, Locks
  <2> HIDE DEF Wanted
  <2>3. R \in SUBSET Rows /\ R # {}
    BY <2>2
  <2>4. PICK t \in S : \A s \in S : ~Before(Wanted(t), Wanted(s))
    BY <2>3, LastRow
  <2>5. PICK s \in S : \E l \in held[s] : l.row = Wanted(t)
    BY <2>1
  <2>6. QED
    BY <2>2, <2>4, <2>5
<1>4. QED
  BY <1>1, <1>2, <1>3, PTL DEF EconomySpec

------------------------------------------------------------------------------
(* Top-ups and subscriptions: orders are credited once, and subscriptions are *)
(* paid through what was paid for.                                           *)

\* What a posting of either flow adds to the ledger.
LEMMA FlowPostGrows ==
  ASSUME IsSeq(txns), NEW type, NEW ref, NEW key, NEW from, NEW cs,
         \/ Sub!Post(type, ref, key, from, cs)
         \/ Order!Post(type, ref, key, from, cs)
  PROVE  \E x : /\ Grown(txns, txns', x)
                /\ x.type = type /\ x.ref = ref /\ x.key = key
                /\ \A t \in DOMAIN txns : key # NoKey => txns[t].key # key
<1>1. PICK amount :
          txns' = Append(txns, [type |-> type, ref |-> ref, key |-> key, amount |-> amount])
  BY DEF Sub!Post, Order!Post
<1>2. \A t \in DOMAIN txns : key # NoKey => txns[t].key # key
  BY DEF Sub!Post, Order!Post, Sub!Committed, Order!Committed
<1> DEFINE x == [type |-> type, ref |-> ref, key |-> key, amount |-> amount]
<1>3. x.type = type /\ x.ref = ref /\ x.key = key
  OBVIOUS
<1> HIDE DEF x
<1>4. Grown(txns, txns', x)
  BY <1>1, AppendGrows DEF x
<1>5. QED
  BY <1>2, <1>3, <1>4

\* A credit of one account is posted with its amount.
LEMMA CreditGrows ==
  ASSUME IsSeq(txns), NEW type, NEW ref, NEW key, NEW from, NEW to, NEW amount \in Int,
         Order!Post(type, ref, key, from, Order!Credit(to, amount))
  PROVE  \E x : /\ Grown(txns, txns', x)
                /\ x.type = type /\ x.ref = ref /\ x.key = key /\ x.amount = amount
<1> DEFINE cs == Order!Credit(to, amount)
           x == [type |-> type, ref |-> ref, key |-> key, amount |-> Order!Total(cs)]
<1>1. Order!Total(cs) = amount
  <2>1. cs = [a \in {to} |-> amount]
    BY DEF Order!Credit
  <2>2. \A f : Order!Total(f) = SumFunctionOnSet(f, DOMAIN f)
    BY DEF SumFunctionOnSet, FoldFunctionOnSet, MapThenFoldSet, Order!Total, Order!SumFunction,
           Order!SumFunctionOnSet, Order!FoldFunctionOnSet, Order!MapThenFoldSet
  <2>3. QED
    BY <2>1, <2>2, SumOfSingle
<1>2. txns' = Append(txns, x)
  BY DEF Order!Post
<1>3. x.type = type /\ x.ref = ref /\ x.key = key /\ x.amount = amount
  BY <1>1
<1> HIDE DEF x
<1>4. Grown(txns, txns', x)
  BY <1>2, AppendGrows
<1>5. QED
  BY <1>3, <1>4

\* The flows count as this module does.
LEMMA CountsAgree ==
  \A S : Order!Cardinality(S) = Cardinality(S) /\ Sub!Cardinality(S) = Cardinality(S)
BY DEF Cardinality, Order!Cardinality, Sub!Cardinality

------------------------------------------------------------------------------
(* Orders are credited once.                                                 *)

\* A transaction that cs no order, nor uses the key of one.
Foreign(x) == x.type # "purchase" /\ (x.key # NoKey => \A o : x.key # Order!OrderKey(o))

\* How a step touches the orders.
OrdersKept ==
  /\ UNCHANGED <<orders, creating, invoices>>
  /\ UNCHANGED txns \/ \E x : Foreign(x) /\ Grown(txns, txns', x)

Orders1 ==
  \E row : /\ {"status", "amount"} \subseteq DOMAIN row
           /\ row.status = "pending" /\ row.amount \in Int
           /\ orders' = Append(orders, row)
           /\ creating' = creating \union {Len(orders) + 1}
           /\ UNCHANGED <<txns, invoices>>

\* The request of an order ends: it has an invoice, or failed, or is lost.
Answers ==
  \E o \in creating, status \in {"awaiting_webhook", "failed"} :
    /\ UNCHANGED txns
    /\ creating' = creating \ {o}
    /\ \/ orders' = [orders EXCEPT ![o].status = status] /\ invoices' = invoices \union {o}
       \/ orders' = [orders EXCEPT ![o].status = "failed"] /\ invoices' = invoices
       \/ UNCHANGED <<orders, invoices>>

\* A webhook or an administrator finds that it is not paid, or cannot be credited.
Refuses ==
  \E o \in DOMAIN orders, status \in {"failed", "paid_pending_credit"} :
    /\ orders[o].status # "completed"
    /\ status = "failed" \/ o \in invoices
    /\ orders' = [orders EXCEPT ![o].status = status]
    /\ UNCHANGED <<txns, creating, invoices>>

\* It is credited; a replay of its key would complete it as well.
Completes ==
  \E o \in DOMAIN orders :
    /\ orders[o].status # "completed"
    /\ o \in invoices \/ orders[o].status \in {"paid_pending_credit", "awaiting_webhook"}
    /\ orders' = [orders EXCEPT ![o].status = "completed"]
    /\ UNCHANGED <<creating, invoices>>
    /\ \/ \E x : /\ Grown(txns, txns', x)
                 /\ x.type = "purchase" /\ x.ref = o /\ x.key = Order!OrderKey(o)
                 /\ x.amount = orders[o].amount
       \/ /\ UNCHANGED txns
          /\ Order!OrderKey(o) # NoKey /\ \E t \in DOMAIN txns : txns[t].key = Order!OrderKey(o)

\* A key of an order belongs to its credit; an order whose request still runs has
\* no invoice yet, and nobody can credit it.
OrderInv ==
  /\ IsSeq(txns) /\ IsSeq(orders)
  /\ creating \subseteq DOMAIN orders /\ invoices \subseteq DOMAIN orders
  /\ \A o \in DOMAIN orders : {"status", "amount"} \subseteq DOMAIN orders[o] /\ orders[o].amount \in Int
  /\ \A o \in creating : o \notin invoices /\ orders[o].status \in {"pending", "failed"}
  /\ \A t \in DOMAIN txns : txns[t].type = "purchase" =>
       /\ txns[t].ref \in DOMAIN orders
       /\ orders[txns[t].ref].status = "completed"
       /\ txns[t].amount = orders[txns[t].ref].amount
  /\ \A t \in DOMAIN txns : txns[t].key # NoKey =>
       \A o : txns[t].key = Order!OrderKey(o) => txns[t].type = "purchase" /\ txns[t].ref = o
  /\ \A t, u \in DOMAIN txns :
       txns[t].type = "purchase" /\ txns[u].type = "purchase" /\ txns[t].ref = txns[u].ref => t = u
  /\ \A o \in DOMAIN orders : orders[o].status = "completed" =>
       \E t \in DOMAIN txns : txns[t].type = "purchase" /\ txns[t].ref = o

\* Every step is one of these for the orders.
LEMMA OrderSteps ==
  ASSUME OrderInv, [Next]_vars
  PROVE  OrdersKept \/ Orders1 \/ Answers \/ Refuses \/ Completes
<1>0. IsSeq(txns)
  BY DEF OrderInv
<1>1. CASE Sub!Next /\ UNCHANGED <<orders, creating, invoices>>
  <2>1. ASSUME NEW w, NEW s, Sub!Renew(w, s)
        PROVE  OrdersKept
    <3>1. CASE Sub!Post("subscription_payment", s, Sub!PeriodKey(s),
                        Sub!Available(subs[s].user), Sub!Credits)
      <4>1. PICK x : /\ Grown(txns, txns', x) /\ x.type = "subscription_payment"
                     /\ x.key = Sub!PeriodKey(s)
        BY <1>0, <3>1, FlowPostGrows
      <4>2. \A o : x.key # Order!OrderKey(o)
        BY <4>1 DEF Sub!PeriodKey, Order!OrderKey
      <4>3. QED
        BY <1>1, <4>1, <4>2 DEF OrdersKept, Foreign
    <3>2. CASE UNCHANGED txns
      BY <1>1, <3>2 DEF OrdersKept
    <3>3. QED
      BY <2>1, <3>1, <3>2 DEF Sub!Renew
  <2>2. CASE UNCHANGED txns
    BY <1>1, <2>2 DEF OrdersKept
  <2>3. QED
    BY <1>1, <2>1, <2>2
    DEF Sub!Next, Sub!Create, Sub!Tick, Sub!Dun, Sub!Skip, Sub!Cancel, Sub!Wait
<1>2. CASE Order!Next
  <2>1. ASSUME NEW user, NEW amount \in TopUps, Order!CreateOrder(user, amount)
        PROVE  Orders1
    <3> DEFINE row == [user |-> user, amount |-> amount, status |-> "pending"]
    <3>1. {"status", "amount"} \subseteq DOMAIN row /\ row.status = "pending" /\ row.amount \in Int
      BY BillingAssumption
    <3>2. /\ orders' = Append(orders, row)
          /\ creating' = creating \union {Len(orders) + 1}
          /\ UNCHANGED <<txns, invoices>>
      BY <2>1 DEF Order!CreateOrder, Order!Ledger
    <3> HIDE DEF row
    <3>3. QED
      BY <3>1, <3>2 DEF Orders1
  <2>2. ASSUME NEW o \in creating,
               Order!StoreInvoice(o) \/ Order!InvoiceError(o) \/ Order!LoseRequest(o)
        PROVE  Answers
    BY <2>2 DEF Order!StoreInvoice, Order!InvoiceError, Order!LoseRequest, Order!SetOrder,
                Order!Ledger, Answers
  <2>3. ASSUME NEW o \in DOMAIN orders, Order!CreditPurchase(o),
               orders' = [orders EXCEPT ![o].status = "completed"], UNCHANGED <<creating, invoices>>,
               orders[o].status # "completed",
               o \in invoices \/ orders[o].status \in {"paid_pending_credit", "awaiting_webhook"}
        PROVE  Completes
    <3>1. CASE Order!Post("purchase", o, Order!OrderKey(o), Order!Treasury,
                   Order!Credit(Order!Available(orders[o].user), orders[o].amount))
      <4>1. orders[o].amount \in Int
        BY DEF OrderInv
      <4>2. PICK type, key, from, to, amount :
              /\ type = "purchase" /\ key = Order!OrderKey(o) /\ from = Order!Treasury
              /\ to = Order!Available(orders[o].user) /\ amount = orders[o].amount
        OBVIOUS
      <4>3. Order!Post(type, o, key, from, Order!Credit(to, amount)) /\ amount \in Int
        BY <3>1, <4>1, <4>2
      <4>4. \E x : /\ Grown(txns, txns', x)
                   /\ x.type = type /\ x.ref = o /\ x.key = key /\ x.amount = amount
        BY <1>0, <4>3, CreditGrows
      <4>5. QED
        BY <2>3, <4>2, <4>4 DEF Completes
    <3>2. CASE Order!Committed(Order!OrderKey(o)) /\ UNCHANGED txns
      BY <2>3, <3>2 DEF Completes, Order!Committed
    <3>3. QED
      BY <2>3, <3>1, <3>2 DEF Order!CreditPurchase, Order!Ledger
  <2>4. ASSUME NEW o \in DOMAIN orders, Order!Webhook(o)
        PROVE  Refuses \/ Completes
    <3>1. o \in invoices /\ orders[o].status # "completed" /\ UNCHANGED <<creating, invoices>>
      BY <2>4 DEF Order!Webhook
    <3>2. \/ Order!CreditPurchase(o) /\ orders' = [orders EXCEPT ![o].status = "completed"]
          \/ \E status \in {"failed", "paid_pending_credit"} :
               orders' = [orders EXCEPT ![o].status = status] /\ UNCHANGED txns
      BY <2>4 DEF Order!Webhook, Order!WebhookDead, Order!WebhookPaid, Order!Underfunded,
                  Order!SetOrder, Order!Ledger
    <3>3. QED
      BY <2>3, <3>1, <3>2 DEF Refuses
  <2>5. ASSUME NEW o \in DOMAIN orders, Order!ManualReCredit(o)
        PROVE  Completes
    BY <2>3, <2>5 DEF Order!ManualReCredit, Order!SetOrder
  <2>6. ASSUME NEW o \in DOMAIN orders, Order!MarkFailed(o)
        PROVE  Refuses
    BY <2>6 DEF Order!MarkFailed, Order!SetOrder, Order!Ledger, Refuses
  <2>7. QED
    BY <1>2, <2>1, <2>2, <2>4, <2>5, <2>6 DEF Order!Next
<1>3. CASE /\ \E amount \in Mints : MintToTreasury(amount)
           /\ UNCHANGED <<orders, creating, invoices>>
  <2>1. PICK amount : txns' = Append(txns, [type |-> "mint", ref |-> 0, key |-> NoKey, amount |-> amount])
    BY <1>3 DEF MintToTreasury
  <2> DEFINE x == [type |-> "mint", ref |-> 0, key |-> NoKey, amount |-> amount]
  <2>2. x.type # "purchase" /\ x.key = NoKey
    OBVIOUS
  <2> HIDE DEF x
  <2>3. Grown(txns, txns', x)
    BY <1>0, <2>1, AppendGrows DEF x
  <2>4. QED
    BY <1>3, <2>2, <2>3 DEF OrdersKept, Foreign
<1>4. CASE UNCHANGED vars
  BY <1>4 DEF vars, OrdersKept
<1>5. QED
  BY <1>1, <1>2, <1>3, <1>4 DEF Next

\* Every step keeps the cs in line with the orders.
LEMMA OrderStep == OrderInv /\ [Next]_vars => OrderInv'
<1> SUFFICES ASSUME OrderInv, [Next]_vars PROVE OrderInv'
  OBVIOUS
<1>1. CASE OrdersKept
  <2>1. CASE UNCHANGED txns
    BY <1>1, <2>1 DEF OrdersKept, OrderInv
  <2>2. CASE \E x : Foreign(x) /\ Grown(txns, txns', x)
    <3>1. PICK x : Foreign(x) /\ Grown(txns, txns', x)
      BY <2>2
    <3>2. PICK n : n = Len(txns) + 1
      OBVIOUS
    <3>3. /\ IsSeq(txns)' /\ DOMAIN txns' = DOMAIN txns \union {n}
          /\ \A t \in DOMAIN txns : txns'[t] = txns[t]
          /\ txns'[n].type # "purchase"
          /\ txns'[n].key # NoKey => \A o : txns'[n].key # Order!OrderKey(o)
      BY <3>1, <3>2 DEF Grown, Foreign
    <3>4. UNCHANGED <<orders, creating, invoices>>
      BY <1>1 DEF OrdersKept
    <3>5. QED
      BY <3>3, <3>4 DEF OrderInv
  <2>3. QED
    BY <1>1, <2>1, <2>2 DEF OrdersKept
<1>2. CASE Orders1
  <2>1. PICK row : /\ {"status", "amount"} \subseteq DOMAIN row
                   /\ row.status = "pending" /\ row.amount \in Int
                   /\ orders' = Append(orders, row)
                   /\ creating' = creating \union {Len(orders) + 1}
                   /\ UNCHANGED <<txns, invoices>>
    BY <1>2 DEF Orders1
  <2>2. Grown(orders, orders', row)
    BY <2>1, AppendGrows DEF OrderInv
  <2>3. PICK n : n = Len(orders) + 1
    OBVIOUS
  <2>4. /\ IsSeq(orders)' /\ DOMAIN orders' = DOMAIN orders \union {n} /\ n \notin DOMAIN orders
        /\ \A o \in DOMAIN orders : orders'[o] = orders[o]
        /\ orders'[n] = row
    BY <2>2, <2>3 DEF Grown
  <2>5. QED
    BY <2>1, <2>3, <2>4 DEF OrderInv
<1>3. ASSUME NEW o \in DOMAIN orders, NEW status, orders' = [orders EXCEPT ![o].status = status]
      PROVE  /\ IsSeq(orders)' /\ DOMAIN orders' = DOMAIN orders
             /\ \A d \in DOMAIN orders : /\ DOMAIN orders'[d] = DOMAIN orders[d]
                                         /\ orders'[d].amount = orders[d].amount
             /\ \A d \in DOMAIN orders \ {o} : orders'[d].status = orders[d].status
             /\ orders'[o].status = status
  BY <1>3, ExceptFacts DEF OrderInv
<1>4. CASE Answers
  <2>1. PICK o \in creating, status \in {"awaiting_webhook", "failed"} :
          /\ UNCHANGED txns
          /\ creating' = creating \ {o}
          /\ \/ orders' = [orders EXCEPT ![o].status = status] /\ invoices' = invoices \union {o}
             \/ orders' = [orders EXCEPT ![o].status = "failed"] /\ invoices' = invoices
             \/ UNCHANGED <<orders, invoices>>
    BY <1>4 DEF Answers
  <2>2. o \in DOMAIN orders /\ orders[o].status \in {"pending", "failed"} /\ invoices' \subseteq invoices \union {o}
    BY <2>1 DEF OrderInv
  <2>3. CASE UNCHANGED <<orders, invoices>>
    BY <2>1, <2>3 DEF OrderInv
  <2>4. CASE \E to \in {"awaiting_webhook", "failed"} : orders' = [orders EXCEPT ![o].status = to]
    <3>1. /\ IsSeq(orders)' /\ DOMAIN orders' = DOMAIN orders
          /\ \A d \in DOMAIN orders : /\ DOMAIN orders'[d] = DOMAIN orders[d]
                                      /\ orders'[d].amount = orders[d].amount
          /\ \A d \in DOMAIN orders \ {o} : orders'[d].status = orders[d].status
          /\ orders'[o].status # "completed"
      BY <1>3, <2>2, <2>4
    <3>2. \A t \in DOMAIN txns : txns[t].type = "purchase" => txns[t].ref # o
      BY <2>2 DEF OrderInv
    <3>3. QED
      BY <2>1, <2>2, <3>1, <3>2 DEF OrderInv
  <2>5. QED
    BY <2>1, <2>3, <2>4
<1>5. CASE Refuses
  <2>1. PICK o \in DOMAIN orders, status \in {"failed", "paid_pending_credit"} :
          /\ orders[o].status # "completed"
          /\ status = "failed" \/ o \in invoices
          /\ orders' = [orders EXCEPT ![o].status = status]
          /\ UNCHANGED <<txns, creating, invoices>>
    BY <1>5 DEF Refuses
  <2>2. /\ IsSeq(orders)' /\ DOMAIN orders' = DOMAIN orders
        /\ \A d \in DOMAIN orders : /\ DOMAIN orders'[d] = DOMAIN orders[d]
                                    /\ orders'[d].amount = orders[d].amount
        /\ \A d \in DOMAIN orders \ {o} : orders'[d].status = orders[d].status
        /\ orders'[o].status = status /\ status # "completed"
    BY <1>3, <2>1
  <2>3. \A t \in DOMAIN txns : txns[t].type = "purchase" => txns[t].ref # o
    BY <2>1 DEF OrderInv
  <2>4. QED
    BY <2>1, <2>2, <2>3 DEF OrderInv
<1>6. CASE Completes
  <2>1. PICK o \in DOMAIN orders :
          /\ orders[o].status # "completed"
          /\ o \in invoices \/ orders[o].status \in {"paid_pending_credit", "awaiting_webhook"}
          /\ orders' = [orders EXCEPT ![o].status = "completed"]
          /\ UNCHANGED <<creating, invoices>>
          /\ \/ \E x : /\ Grown(txns, txns', x)
                       /\ x.type = "purchase" /\ x.ref = o /\ x.key = Order!OrderKey(o)
                       /\ x.amount = orders[o].amount
             \/ /\ UNCHANGED txns
                /\ Order!OrderKey(o) # NoKey /\ \E t \in DOMAIN txns : txns[t].key = Order!OrderKey(o)
    BY <1>6 DEF Completes
  <2>2. \A t \in DOMAIN txns : txns[t].type = "purchase" => txns[t].ref # o
    BY <2>1 DEF OrderInv
  <2>3. ~\E t \in DOMAIN txns : txns[t].key = Order!OrderKey(o) /\ txns[t].key # NoKey
    BY <2>2 DEF OrderInv
  <2>4. PICK x : /\ Grown(txns, txns', x)
                 /\ x.type = "purchase" /\ x.ref = o /\ x.key = Order!OrderKey(o)
                 /\ x.amount = orders[o].amount
    BY <2>1, <2>3
  <2>5. PICK n : n = Len(txns) + 1
    OBVIOUS
  <2>6. /\ IsSeq(txns)' /\ DOMAIN txns' = DOMAIN txns \union {n} /\ n \notin DOMAIN txns
        /\ \A t \in DOMAIN txns : txns'[t] = txns[t]
        /\ txns'[n].type = "purchase" /\ txns'[n].ref = o /\ txns'[n].key = Order!OrderKey(o)
        /\ txns'[n].amount = orders[o].amount
    BY <2>4, <2>5 DEF Grown
  <2>7. /\ IsSeq(orders)' /\ DOMAIN orders' = DOMAIN orders
        /\ \A d \in DOMAIN orders : /\ DOMAIN orders'[d] = DOMAIN orders[d]
                                    /\ orders'[d].amount = orders[d].amount
        /\ \A d \in DOMAIN orders \ {o} : orders'[d].status = orders[d].status
        /\ orders'[o].status = "completed"
    BY <1>3, <2>1
  <2>8. o \notin creating
    BY <2>1 DEF OrderInv
  <2>9. \A p : Order!OrderKey(p) = Order!OrderKey(o) => p = o
    BY DEF Order!OrderKey
  <2>10. \A t \in DOMAIN txns' : txns'[t].type = "purchase" =>
           /\ txns'[t].ref \in DOMAIN orders'
           /\ orders'[txns'[t].ref].status = "completed"
           /\ txns'[t].amount = orders'[txns'[t].ref].amount
    BY <2>2, <2>6, <2>7 DEF OrderInv
  <2>11. \A t \in DOMAIN txns' : txns'[t].key # NoKey =>
           \A p : txns'[t].key = Order!OrderKey(p) => txns'[t].type = "purchase" /\ txns'[t].ref = p
    BY <2>6, <2>9 DEF OrderInv
  <2>12. \A t, u \in DOMAIN txns' :
           txns'[t].type = "purchase" /\ txns'[u].type = "purchase" /\ txns'[t].ref = txns'[u].ref => t = u
    BY <2>2, <2>6 DEF OrderInv
  <2>13. \A d \in DOMAIN orders' : orders'[d].status = "completed" =>
           \E t \in DOMAIN txns' : txns'[t].type = "purchase" /\ txns'[t].ref = d
    BY <2>6, <2>7 DEF OrderInv
  <2>14. /\ creating' \subseteq DOMAIN orders' /\ invoices' \subseteq DOMAIN orders'
         /\ \A d \in DOMAIN orders' : /\ {"status", "amount"} \subseteq DOMAIN orders'[d]
                                      /\ orders'[d].amount \in Int
         /\ \A d \in creating' : d \notin invoices' /\ orders'[d].status \in {"pending", "failed"}
    BY <2>1, <2>7, <2>8 DEF OrderInv
  <2>15. QED
    BY <2>6, <2>7, <2>10, <2>11, <2>12, <2>13, <2>14 DEF OrderInv
<1>7. CASE UNCHANGED vars
  BY <1>7 DEF vars, OrderInv
<1>8. QED
  BY <1>1, <1>2, <1>4, <1>5, <1>6, <1>7, OrderSteps

\* Whatever webhooks arrive, however often, and whatever administrators do: an
\* order is credited once, with its amount, exactly when it reads completed.
THEOREM OrdersAreCreditedOnce == Spec => []OrdersCreditOnce
<1>1. Init => OrderInv
  BY DEF Init, OrderInv, IsSeq
<1>2. OrderInv => OrdersCreditOnce
  <2> SUFFICES ASSUME OrderInv PROVE OrdersCreditOnce
    OBVIOUS
  <2>1. ASSUME NEW o \in DOMAIN orders, Order!CreditsOf(o) # {}
        PROVE  Cardinality(Order!CreditsOf(o)) = 1 /\ orders[o].status = "completed"
    <3>1. \A t, u \in Order!CreditsOf(o) : t = u
      BY DEF OrderInv, Order!CreditsOf
    <3>2. orders[o].status = "completed"
      BY <2>1 DEF OrderInv, Order!CreditsOf
    <3>3. QED
      BY <2>1, <3>1, <3>2, AtMostOne
  <2>2. ASSUME NEW o \in DOMAIN orders, orders[o].status = "completed"
        PROVE  \E t \in Order!CreditsOf(o) : txns[t].amount = orders[o].amount
    BY <2>2 DEF OrderInv, Order!CreditsOf
  <2>3. Order!CreditedIsFinal
    BY <2>1, CountsAgree DEF Order!CreditedIsFinal
  <2>4. Order!CompletedIsCredited
    BY <2>2 DEF Order!CompletedIsCredited
  <2>5. QED
    BY <2>3, <2>4 DEF OrdersCreditOnce
<1>3. QED
  BY <1>1, <1>2, OrderStep, PTL DEF Spec

------------------------------------------------------------------------------
(* Subscriptions are paid through what was paid for.                         *)

Row(row) == {"status", "attempts", "periodEnd", "start"} \subseteq DOMAIN row

\* A row whose status and failures agree.
Dunning(row) ==
  /\ row.attempts \in Nat
  /\ row.status = "past_due" => row.attempts \in 1 .. MAX_ATTEMPTS - 1

Listed == listed \in [Workers -> SUBSET DOMAIN subs]

\* A transaction that pays for no subscription.
NoPayment(x) ==
  x.type # "subscription_payment" /\ (x.key # NoKey => \A s, n : x.key # <<"sub", s, n>>)

\* How a step touches the subscriptions: not at all, or it adds one, changes the
\* status of one, or is paid for one and advances it.
SubsKept ==
  /\ UNCHANGED subs /\ Listed' /\ now' \in Int
  /\ UNCHANGED txns \/ \E x : NoPayment(x) /\ Grown(txns, txns', x)

SubCreated ==
  \E row : /\ Row(row) /\ Dunning(row) /\ row.periodEnd \in Int /\ row.start = row.periodEnd
           /\ subs' = Append(subs, row)
           /\ Listed' /\ UNCHANGED <<txns, now>>

SubChanged ==
  \E s \in DOMAIN subs : \E row :
    /\ Row(row) /\ Dunning(row) /\ row.periodEnd = subs[s].periodEnd /\ row.start = subs[s].start
    /\ subs' = [subs EXCEPT ![s] = row]
    /\ Listed' /\ UNCHANGED <<txns, now>>

SubRenewed ==
  \E s \in DOMAIN subs : \E row, x :
    /\ Row(row) /\ Dunning(row) /\ row.periodEnd = subs[s].periodEnd + 1 /\ row.start = subs[s].start
    /\ subs' = [subs EXCEPT ![s] = row]
    /\ Grown(txns, txns', x)
    /\ x.type = "subscription_payment" /\ x.ref = s /\ x.key = Sub!PeriodKey(s)
    /\ Listed' /\ UNCHANGED now

\* The keys of a subscription's payments name periods that it has left behind.
SubInv ==
  /\ IsSeq(txns) /\ IsSeq(subs) /\ now \in Int /\ Listed
  /\ \A s \in DOMAIN subs : /\ Row(subs[s]) /\ Dunning(subs[s])
                            /\ subs[s].periodEnd \in Int /\ subs[s].start \in Int
  /\ \A t \in DOMAIN txns : txns[t].type = "subscription_payment" => txns[t].ref \in DOMAIN subs
  /\ \A t \in DOMAIN txns : txns[t].key # NoKey =>
       \A s, n : txns[t].key = <<"sub", s, n>> =>
         s \in DOMAIN subs /\ n \in Int /\ n < subs[s].periodEnd
  /\ \A s \in DOMAIN subs : /\ IsFiniteSet(Sub!Payments(s))
                            /\ subs[s].periodEnd = subs[s].start + Cardinality(Sub!Payments(s))

LEMMA SubSteps ==
  ASSUME SubInv, [Next]_vars
  PROVE  SubsKept \/ SubCreated \/ SubChanged \/ SubRenewed
<1>0. IsSeq(txns) /\ IsSeq(subs) /\ Listed /\ now \in Int
  BY DEF SubInv
<1>1. CASE Sub!Next /\ UNCHANGED <<orders, creating, invoices>>
  <2>1. ASSUME NEW w \in Workers, NEW user, NEW trial \in BOOLEAN, Sub!Create(w, user, trial)
        PROVE  SubCreated
    <3> DEFINE row == [user |-> user, status |-> IF trial THEN "trialing" ELSE "active",
                       attempts |-> 0, periodEnd |-> now + 1, start |-> now + 1,
                       cancelAtPeriodEnd |-> FALSE]
    <3>1. Row(row) /\ Dunning(row) /\ row.periodEnd \in Int /\ row.start = row.periodEnd
      BY <1>0 DEF Row, Dunning
    <3>2. subs' = Append(subs, row) /\ UNCHANGED <<txns, now>>
          /\ listed' = [listed EXCEPT ![w] = IF trial THEN {} ELSE {Len(subs) + 1}]
      BY <2>1 DEF Sub!Create
    <3> HIDE DEF row
    <3>3. DOMAIN subs' = DOMAIN subs \union {Len(subs) + 1}
      BY <1>0, <3>2, AppendGrows DEF Grown
    <3>4. Listed'
      BY <1>0, <3>2, <3>3 DEF Listed
    <3>5. QED
      BY <3>1, <3>2, <3>4 DEF SubCreated
  <2>2. ASSUME NEW w \in Workers, Sub!Tick(w)
        PROVE  SubsKept
    <3>1. Sub!Due \subseteq DOMAIN subs
      BY DEF Sub!Due
    <3>2. Listed'
      BY <1>0, <2>2, <3>1 DEF Sub!Tick, Listed
    <3>3. QED
      BY <1>0, <2>2, <3>2 DEF Sub!Tick, SubsKept
  <2>3. ASSUME NEW w \in Workers, NEW s \in listed[w]
        PROVE  /\ s \in DOMAIN subs /\ Row(subs[s]) /\ Dunning(subs[s]) /\ subs[s].periodEnd \in Int
               /\ Sub!Leave(w, s) => /\ UNCHANGED now
                                     /\ DOMAIN subs' = DOMAIN subs => Listed'
    <3>1. s \in DOMAIN subs
      BY <1>0, <2>3 DEF Listed
    <3>2. QED
      BY <1>0, <3>1 DEF SubInv, Listed, Sub!Leave
  <2>4. ASSUME NEW w \in Workers, NEW s \in listed[w], Sub!Renew(w, s)
        PROVE  SubRenewed
    <3> DEFINE row == [subs[s] EXCEPT !.status = "active", !.attempts = 0, !.periodEnd = @ + 1]
    <3>1. /\ subs' = [subs EXCEPT ![s] = row]
          /\ UNCHANGED now /\ Listed'
      <4>1. subs' = [subs EXCEPT ![s] = row]
        BY <2>4 DEF Sub!Renew
      <4> HIDE DEF row
      <4>2. DOMAIN subs' = DOMAIN subs
        BY <4>1
      <4>3. QED
        BY <2>3, <2>4, <4>1, <4>2 DEF Sub!Renew
    <3>2. Row(row) /\ Dunning(row) /\ row.periodEnd = subs[s].periodEnd + 1 /\ row.start = subs[s].start
      BY <2>3 DEF Row, Dunning
    <3> HIDE DEF row
    <3>3. ~Sub!Committed(Sub!PeriodKey(s))
      <4>1. ASSUME NEW t \in DOMAIN txns, Sub!PeriodKey(s) # NoKey
            PROVE  txns[t].key # Sub!PeriodKey(s)
        <5>1. txns[t].key = <<"sub", s, subs[s].periodEnd>> /\ txns[t].key # NoKey =>
                subs[s].periodEnd < subs[s].periodEnd
          BY DEF SubInv
        <5>2. subs[s].periodEnd \in Int
          BY <2>3, <2>4
        <5>3. ~(subs[s].periodEnd < subs[s].periodEnd)
          BY <5>2
        <5>4. QED
          BY <4>1, <5>1, <5>3 DEF Sub!PeriodKey
      <4>2. QED
        BY <4>1 DEF Sub!Committed
    <3>4. Sub!Post("subscription_payment", s, Sub!PeriodKey(s), Sub!Available(subs[s].user), Sub!Credits)
      BY <2>4, <3>3 DEF Sub!Renew
    <3>5. PICK x : /\ Grown(txns, txns', x)
                   /\ x.type = "subscription_payment" /\ x.ref = s /\ x.key = Sub!PeriodKey(s)
      BY <1>0, <3>4, FlowPostGrows
    <3>6. QED
      BY <2>3, <3>1, <3>2, <3>5 DEF SubRenewed
  <2>5. ASSUME NEW w \in Workers, NEW s \in listed[w], Sub!Dun(w, s)
        PROVE  SubChanged
    <3> DEFINE row == [subs[s] EXCEPT !.status = Sub!Dunned(subs[s].attempts + 1), !.attempts = @ + 1]
    <3>1. subs' = [subs EXCEPT ![s] = row]
      BY <2>5 DEF Sub!Dun
    <3>2. /\ Row(row) /\ row.attempts = subs[s].attempts + 1
          /\ row.status = Sub!Dunned(row.attempts)
          /\ row.periodEnd = subs[s].periodEnd /\ row.start = subs[s].start
      BY <2>3 DEF Row
    <3> HIDE DEF row
    <3>3. Dunning(row)
      <4>1. subs[s].attempts \in Nat /\ MAX_ATTEMPTS \in Nat
        BY <2>3, BillingAssumption DEF Dunning
      <4>2. row.status = "past_due" => ~(row.attempts >= MAX_ATTEMPTS)
        BY <3>2 DEF Sub!Dunned
      <4>3. QED
        BY <3>2, <4>1, <4>2 DEF Dunning
    <3>4. DOMAIN subs' = DOMAIN subs
      BY <3>1
    <3>5. UNCHANGED <<txns, now>> /\ Listed'
      BY <2>3, <2>5, <3>4 DEF Sub!Dun
    <3>6. QED
      BY <2>3, <3>1, <3>2, <3>3, <3>5 DEF SubChanged
  <2>6. ASSUME NEW w \in Workers, NEW s \in listed[w], Sub!Skip(w, s)
        PROVE  SubsKept
    BY <1>0, <2>3, <2>6 DEF Sub!Skip, SubsKept
  <2>7. ASSUME NEW s \in DOMAIN subs, NEW atPeriodEnd \in BOOLEAN, Sub!Cancel(s, atPeriodEnd)
        PROVE  SubChanged
    <3> DEFINE row == [subs[s] EXCEPT !.status = IF atPeriodEnd THEN "active" ELSE "cancelled",
                                      !.cancelAtPeriodEnd = atPeriodEnd]
    <3>1. subs' = [subs EXCEPT ![s] = row]
      BY <2>7 DEF Sub!Cancel
    <3>2. /\ Row(row) /\ Dunning(row)
          /\ row.periodEnd = subs[s].periodEnd /\ row.start = subs[s].start
      BY DEF SubInv, Row, Dunning
    <3> HIDE DEF row
    <3>3. UNCHANGED <<txns, now>> /\ Listed'
      BY <1>0, <2>7, <3>1 DEF Sub!Cancel, Listed
    <3>4. QED
      BY <3>1, <3>2, <3>3 DEF SubChanged
  <2>8. ASSUME Sub!Wait
        PROVE  SubsKept
    BY <1>0, <2>8 DEF Sub!Wait, SubsKept, Listed
  <2>9. QED
    BY <1>1, <2>1, <2>2, <2>4, <2>5, <2>6, <2>7, <2>8 DEF Sub!Next
<1>2. ASSUME UNCHANGED <<subs, listed, now>>,
             UNCHANGED txns \/ \E x : NoPayment(x) /\ Grown(txns, txns', x)
      PROVE  SubsKept
  BY <1>0, <1>2 DEF SubsKept, Listed
<1>3. CASE Order!Next /\ UNCHANGED <<subs, listed, now>>
  <2>1. ASSUME NEW o, Order!CreditPurchase(o)
        PROVE  UNCHANGED txns \/ \E x : NoPayment(x) /\ Grown(txns, txns', x)
    <3>1. CASE Order!Post("purchase", o, Order!OrderKey(o), Order!Treasury,
                   Order!Credit(Order!Available(orders[o].user), orders[o].amount))
      <4>1. PICK x : /\ Grown(txns, txns', x) /\ x.type = "purchase"
                     /\ x.key = Order!OrderKey(o)
        BY <1>0, <3>1, FlowPostGrows
      <4>2. \A s, n : x.key # <<"sub", s, n>>
        BY <4>1 DEF Order!OrderKey
      <4>3. QED
        BY <4>1, <4>2 DEF NoPayment
    <3>2. QED
      BY <2>1, <3>1 DEF Order!CreditPurchase, Order!Ledger
  <2>2. UNCHANGED txns \/ \E o : Order!CreditPurchase(o)
    BY <1>3 DEF Order!Next, Order!CreateOrder, Order!StoreInvoice, Order!InvoiceError,
                Order!LoseRequest, Order!Webhook, Order!WebhookDead, Order!WebhookPaid,
                Order!Underfunded, Order!ManualReCredit, Order!MarkFailed, Order!Ledger
  <2>3. QED
    BY <1>2, <1>3, <2>1, <2>2
<1>4. CASE /\ \E amount \in Mints : MintToTreasury(amount)
           /\ UNCHANGED <<subs, listed, now, orders, creating, invoices>>
  <2>1. PICK amount : txns' = Append(txns, [type |-> "mint", ref |-> 0, key |-> NoKey, amount |-> amount])
    BY <1>4 DEF MintToTreasury
  <2> DEFINE x == [type |-> "mint", ref |-> 0, key |-> NoKey, amount |-> amount]
  <2>2. x.type # "subscription_payment" /\ x.key = NoKey
    OBVIOUS
  <2> HIDE DEF x
  <2>3. Grown(txns, txns', x)
    BY <1>0, <2>1, AppendGrows DEF x
  <2>4. QED
    BY <1>2, <1>4, <2>2, <2>3 DEF NoPayment
<1>5. CASE UNCHANGED vars
  BY <1>2, <1>5 DEF vars
<1>6. QED
  BY <1>1, <1>3, <1>4, <1>5 DEF Next

\* Every step keeps what is paid for and what was paid in line.
LEMMA SubStep == SubInv /\ [Next]_vars => SubInv'
<1> SUFFICES ASSUME SubInv, [Next]_vars PROVE SubInv'
  OBVIOUS
<1> DEFINE paid(s) == Sub!Payments(s)
<1>1. ASSUME UNCHANGED txns, NEW s
      PROVE  paid(s)' = paid(s)
  BY <1>1 DEF Sub!Payments
<1>2. ASSUME NEW x, Grown(txns, txns', x), NEW s,
             ~(x.type = "subscription_payment" /\ x.ref = s)
      PROVE  paid(s)' = paid(s)
  BY <1>2 DEF Grown, Sub!Payments
<1>3. ASSUME NEW x, Grown(txns, txns', x), NEW s,
             x.type = "subscription_payment" /\ x.ref = s
      PROVE  paid(s)' = paid(s) \union {Len(txns) + 1} /\ Len(txns) + 1 \notin paid(s)
  BY <1>3 DEF Grown, Sub!Payments
<1>4. CASE SubsKept
  <2>1. CASE UNCHANGED txns
    <3>1. \A s : paid(s)' = paid(s)
      BY <1>1, <2>1
    <3> HIDE DEF paid
    <3>2. QED
      BY <1>4, <2>1, <3>1 DEF SubsKept, SubInv, paid
  <2>2. CASE \E x : NoPayment(x) /\ Grown(txns, txns', x)
    <3>1. PICK x : NoPayment(x) /\ Grown(txns, txns', x)
      BY <2>2
    <3>2. \A s : paid(s)' = paid(s)
      BY <1>2, <3>1 DEF NoPayment
    <3>3. PICK n : n = Len(txns) + 1
      OBVIOUS
    <3>4. /\ IsSeq(txns)' /\ DOMAIN txns' = DOMAIN txns \union {n}
          /\ \A t \in DOMAIN txns : txns'[t] = txns[t]
          /\ txns'[n].type # "subscription_payment"
          /\ txns'[n].key # NoKey => \A s, m : txns'[n].key # <<"sub", s, m>>
      BY <3>1, <3>3 DEF Grown, NoPayment
    <3>5. UNCHANGED subs /\ Listed' /\ now' \in Int
      BY <1>4 DEF SubsKept
    <3>6. \A s \in DOMAIN subs' : /\ IsFiniteSet(Sub!Payments(s))'
                                  /\ subs'[s].periodEnd = subs'[s].start + Cardinality(Sub!Payments(s))'
      BY <3>2, <3>5 DEF SubInv
    <3>7. QED
      BY <3>4, <3>5, <3>6 DEF SubInv
  <2>3. QED
    BY <1>4, <2>1, <2>2 DEF SubsKept
<1>5. CASE SubCreated
  <2>1. PICK row : /\ Row(row) /\ Dunning(row) /\ row.periodEnd \in Int /\ row.start = row.periodEnd
                   /\ subs' = Append(subs, row)
                   /\ Listed' /\ UNCHANGED <<txns, now>>
    BY <1>5 DEF SubCreated
  <2>2. PICK n : n = Len(subs) + 1
    OBVIOUS
  <2>3. /\ IsSeq(subs)' /\ DOMAIN subs' = DOMAIN subs \union {n} /\ n \notin DOMAIN subs
        /\ \A s \in DOMAIN subs : subs'[s] = subs[s]
        /\ subs'[n] = row
    BY <2>1, <2>2, AppendGrows DEF Grown, SubInv
  <2>4. \A s : paid(s)' = paid(s)
    BY <1>1, <2>1
  <2>5. paid(n) = {}
    BY <2>3 DEF SubInv, Sub!Payments
  <2>6. IsFiniteSet(paid(n)) /\ row.periodEnd = row.start + Cardinality(paid(n))
    BY <2>1, <2>5, FS_EmptySet
  <2>7. \A s \in DOMAIN subs' : /\ IsFiniteSet(Sub!Payments(s))'
                                /\ subs'[s].periodEnd = subs'[s].start + Cardinality(Sub!Payments(s))'
    BY <2>3, <2>4, <2>6 DEF SubInv
  <2>8. QED
    BY <2>1, <2>3, <2>7 DEF SubInv, Dunning
<1>6. ASSUME NEW s \in DOMAIN subs, NEW row, subs' = [subs EXCEPT ![s] = row]
      PROVE  /\ IsSeq(subs)' /\ DOMAIN subs' = DOMAIN subs
             /\ \A d \in DOMAIN subs \ {s} : subs'[d] = subs[d]
             /\ subs'[s] = row
  BY <1>6, ExceptFacts DEF SubInv
<1>7. CASE SubChanged
  <2>1. PICK s, row :
          /\ s \in DOMAIN subs
          /\ Row(row) /\ Dunning(row) /\ row.periodEnd = subs[s].periodEnd /\ row.start = subs[s].start
          /\ subs' = [subs EXCEPT ![s] = row]
          /\ Listed' /\ UNCHANGED <<txns, now>>
    BY <1>7 DEF SubChanged
  <2>2. /\ IsSeq(subs)' /\ DOMAIN subs' = DOMAIN subs
        /\ \A d \in DOMAIN subs \ {s} : subs'[d] = subs[d]
        /\ subs'[s] = row
    BY <1>6, <2>1
  <2>3. \A d : paid(d)' = paid(d)
    BY <1>1, <2>1
  <2>4. \A d \in DOMAIN subs' : /\ IsFiniteSet(Sub!Payments(d))'
                                /\ subs'[d].periodEnd = subs'[d].start + Cardinality(Sub!Payments(d))'
    BY <2>1, <2>2, <2>3 DEF SubInv
  <2>5. \A d \in DOMAIN subs' : /\ Row(subs'[d]) /\ Dunning(subs'[d])
                                /\ subs'[d].periodEnd = subs[d].periodEnd
                                /\ subs'[d].start = subs[d].start
    BY <2>1, <2>2 DEF SubInv
  <2>6. QED
    BY <2>1, <2>2, <2>4, <2>5 DEF SubInv, Dunning
<1>8. CASE SubRenewed
  <2>1. PICK s, row, x :
          /\ s \in DOMAIN subs
          /\ Row(row) /\ Dunning(row) /\ row.periodEnd = subs[s].periodEnd + 1 /\ row.start = subs[s].start
          /\ subs' = [subs EXCEPT ![s] = row]
          /\ Grown(txns, txns', x)
          /\ x.type = "subscription_payment" /\ x.ref = s /\ x.key = Sub!PeriodKey(s)
          /\ Listed' /\ UNCHANGED now
    BY <1>8 DEF SubRenewed
  <2>2. /\ IsSeq(subs)' /\ DOMAIN subs' = DOMAIN subs
        /\ \A d \in DOMAIN subs \ {s} : subs'[d] = subs[d]
        /\ subs'[s] = row
    BY <1>6, <2>1
  <2>3. /\ subs[s].periodEnd \in Int /\ subs[s].start \in Int
        /\ IsFiniteSet(paid(s)) /\ subs[s].periodEnd = subs[s].start + Cardinality(paid(s))
    BY <2>1 DEF SubInv
  <2>4. PICK n : n = Len(txns) + 1
    OBVIOUS
  <2>5. paid(s)' = paid(s) \union {n} /\ n \notin paid(s)
    BY <1>3, <2>1, <2>4
  <2>6. \A d \in DOMAIN subs \ {s} : paid(d)' = paid(d)
    BY <1>2, <2>1
  <2>7. IsFiniteSet(paid(s)') /\ subs'[s].periodEnd = subs'[s].start + Cardinality(paid(s)')
    <3> HIDE DEF paid
    <3>1. /\ IsFiniteSet(paid(s)') /\ Cardinality(paid(s)') = Cardinality(paid(s)) + 1
          /\ Cardinality(paid(s)) \in Nat
      BY <2>3, <2>5, FS_AddElement, FS_CardinalityType
    <3>2. QED
      BY <2>1, <2>2, <2>3, <3>1
  <2>8. \A d \in DOMAIN subs' : /\ IsFiniteSet(Sub!Payments(d))'
                                /\ subs'[d].periodEnd = subs'[d].start + Cardinality(Sub!Payments(d))'
    BY <2>2, <2>6, <2>7 DEF SubInv
  <2>9. \A d \in DOMAIN subs' : /\ Row(subs'[d]) /\ Dunning(subs'[d])
                                /\ subs'[d].periodEnd \in Int /\ subs[d].periodEnd <= subs'[d].periodEnd
                                /\ subs'[d].start = subs[d].start
    BY <2>1, <2>2, <2>3 DEF SubInv
  <2>10. /\ IsSeq(txns)' /\ DOMAIN txns' = DOMAIN txns \union {n}
         /\ \A t \in DOMAIN txns : txns'[t] = txns[t]
         /\ txns'[n] = x
    BY <2>1, <2>4 DEF Grown
  <2>11. \A t \in DOMAIN txns' : txns'[t].key # NoKey =>
           \A d, m : txns'[t].key = <<"sub", d, m>> =>
             d \in DOMAIN subs' /\ m \in Int /\ m < subs'[d].periodEnd
    <3>1. \A d, m : <<"sub", d, m>> = Sub!PeriodKey(s) =>
             d \in DOMAIN subs' /\ m \in Int /\ m < subs'[d].periodEnd
      BY <2>1, <2>2, <2>3 DEF Sub!PeriodKey
    <3>2. \A t \in DOMAIN txns : txns[t].key # NoKey =>
            \A d, m : txns[t].key = <<"sub", d, m>> =>
              d \in DOMAIN subs' /\ m \in Int /\ m < subs'[d].periodEnd
      <4>1. \A d \in DOMAIN subs, m \in Int : m < subs[d].periodEnd => m < subs'[d].periodEnd
        BY <2>2, <2>9 DEF SubInv
      <4>2. QED
        BY <2>2, <4>1 DEF SubInv
    <3>3. ASSUME NEW t \in DOMAIN txns'
          PROVE  (t \in DOMAIN txns /\ txns'[t] = txns[t]) \/ txns'[t].key = Sub!PeriodKey(s)
      BY <2>1, <2>10
    <3>4. QED
      BY <3>1, <3>2, <3>3
  <2>12. \A t \in DOMAIN txns' : txns'[t].type = "subscription_payment" => txns'[t].ref \in DOMAIN subs'
    BY <2>1, <2>2, <2>10 DEF SubInv
  <2>13. QED
    <3>1. now' \in Int /\ Listed'
      BY <2>1 DEF SubInv
    <3>2. \A d \in DOMAIN subs' : subs'[d].start \in Int
      BY <2>2, <2>9 DEF SubInv
    <3>3. QED
      BY <2>2, <2>8, <2>9, <2>10, <2>11, <2>12, <3>1, <3>2 DEF SubInv, Dunning
<1>9. QED
  BY <1>4, <1>5, <1>7, <1>8, SubSteps

\* However many workers charge it, however stale what they listed, and however
\* often it is cancelled and taken up again: a subscription is paid through exactly
\* as many intervals as the ledger holds payments for, and its failures are
\* counted until they cancel it.
THEOREM SubscriptionsArePaidThrough == Spec => []SubscriptionPaidThrough
<1>1. Init => SubInv
  BY DEF Init, SubInv, IsSeq, Listed
<1>2. SubInv => SubscriptionPaidThrough
  BY CountsAgree DEF SubInv, Dunning, SubscriptionPaidThrough, Sub!PaidThrough, Sub!OverdueCounts
<1>3. QED
  BY <1>1, <1>2, SubStep, PTL DEF Spec
==============================================================================
