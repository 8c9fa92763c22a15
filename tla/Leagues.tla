------------------------------ MODULE Leagues ------------------------------
(***************************************************************************)
(* Leagues (src/services/leagues.js), the unlock rituals that lead to them *)
(* (league-rituals.js) and the milestone rewards that qualify for them     *)
(* (rewards.js).  A ritual locks tokens of the user for a week and gives   *)
(* them back; a reward is looked up, paid by the ledger and then counted   *)
(* as earned in a transaction of its own, and such calls interleave.       *)
(***************************************************************************)
EXTENDS Postings, FiniteSetsExt

CONSTANTS
  Members,     \* users
  Admins,      \* the members who need not qualify
  Thresholds,  \* league_definitions: what one must have earned, a sequence
  Unlocks,     \* league_definitions: what a ritual locks, 0 for the first league
  Rewards,     \* the milestones, and what each pays
  Asks,        \* requests that may be under way
  MaxRituals   \* bound on the number of rituals

ASSUME LadderAssumption ==
  /\ Thresholds \in Seq(Nat) /\ Unlocks \in Seq(Nat) /\ Len(Unlocks) = Len(Thresholds)
  /\ Len(Unlocks) > 0 /\ Unlocks[1] = 0 /\ Thresholds[1] > 0

ASSUME RewardAssumption ==
  /\ IsFiniteSet(DOMAIN Rewards) /\ \A k \in DOMAIN Rewards : Rewards[k] \in Nat
  /\ \A u \in Members : {Available(u), Locked(u)} \subseteq Accounts
  /\ \A k \in DOMAIN Rewards, u \in Members : NoKey # <<"reward", k, u>>

VARIABLES
  standing,  \* user_league_status
  rituals,   \* league_unlock_rituals
  asks,      \* what each request for a ritual is doing
  grants,    \* calls of grant that have looked and not posted: milestone, user, request
  credits,   \* those that have answered granted, and are still to be counted as earned
  overlapped \* history: the milestones and users of which two calls have looked at once

leagueVars == <<standing, rituals, asks, grants, credits, overlapped>>

RewardPool == Available("reward_pool")
NoAsk == [stage |-> "idle"]
Tiers == DOMAIN Thresholds

LeaguesInit ==
  /\ standing = [u \in Members |-> [earned |-> 0, unlocked |-> 0, current |-> 0]]
  /\ rituals = <<>>
  /\ asks = [w \in Asks |-> NoAsk]
  /\ grants = {}
  /\ credits = {}
  /\ overlapped = {}

\* Discovery, the first league, comes with what one has earned, the others with
\* a ritual.
Reached(earned, unlocked) == Max({IF earned >= Thresholds[1] THEN 1 ELSE 0, unlocked})

------------------------------------------------------------------------------
RewardKey(k, u) == <<"reward", k, u>>
Free(w) ==
  /\ asks[w] = NoAsk
  /\ \A k \in DOMAIN Rewards, u \in Members : <<k, u, w>> \notin grants \union credits

\* Faulty: grant does not look whether the reward was paid.
AskGrantBlindly(k, u, w) ==
  /\ Free(w)
  /\ grants' = grants \union {<<k, u, w>>}
  /\ overlapped' = overlapped \union {<<k, u>> : v \in {v \in Asks : <<k, u, v>> \in grants}}
  /\ UNCHANGED <<bal, txns, standing, rituals, asks, credits>>

\* grant looks whether the reward was paid; if so it answers, and nothing follows.
AskGrant(k, u, w) ==
  /\ Free(w)
  /\ ~Committed(RewardKey(k, u))
  /\ grants' = grants \union {<<k, u, w>>}
  /\ overlapped' = overlapped \union {<<k, u>> : v \in {v \in Asks : <<k, u, v>> \in grants}}
  /\ UNCHANGED <<bal, txns, standing, rituals, asks, credits>>

\* It posts under the reward's key.  A call that finds the key taken by now is answered
\* with the first one's transaction, and it says that it has granted, too.
GrantReward(k, u, w) ==
  /\ <<k, u, w>> \in grants
  /\ \/ Committed(RewardKey(k, u)) /\ UNCHANGED <<bal, txns>>
     \/ Post("milestone", <<k, u>>, RewardKey(k, u), RewardPool, Credit(Available(u), Rewards[k]))
  /\ grants' = grants \ {<<k, u, w>>}
  /\ credits' = credits \union {<<k, u, w>>}
  /\ UNCHANGED <<standing, rituals, asks, overlapped>>

\* The pool is short of it, or a statement fails: of the grant, or of what counts it.
FailGrant(k, u, w) ==
  /\ <<k, u, w>> \in grants \union credits
  /\ grants' = grants \ {<<k, u, w>>}
  /\ credits' = credits \ {<<k, u, w>>}
  /\ UNCHANGED <<bal, txns, standing, rituals, asks, overlapped>>

\* Faulty: _recalc forgets what the rituals have unlocked.
AddEarnedForgetting(k, u, w) ==
  /\ <<k, u, w>> \in credits
  /\ credits' = credits \ {<<k, u, w>>}
  /\ LET earned == standing[u].earned + Rewards[k] IN
     standing' = [standing EXCEPT ![u].earned = earned, ![u].current = Reached(earned, 0)]
  /\ UNCHANGED <<bal, txns, rituals, asks, grants, overlapped>>

\* addEarned and _recalc hold the lock of the user's row from the first write on.
AddEarned(k, u, w) ==
  /\ <<k, u, w>> \in credits
  /\ credits' = credits \ {<<k, u, w>>}
  /\ LET earned == standing[u].earned + Rewards[k] IN
     standing' = [standing EXCEPT ![u].earned = earned,
                                  ![u].current = Reached(earned, standing[u].unlocked)]
  /\ UNCHANGED <<bal, txns, rituals, asks, grants, overlapped>>

\* The process ends: what it was about to pay may be asked for again, but what is paid
\* and not counted is counted by nobody later.
LoseCredits ==
  /\ grants \union credits # {}
  /\ grants' = {} /\ credits' = {}
  /\ asks' = [w \in Asks |-> NoAsk]
  /\ UNCHANGED <<bal, txns, standing, rituals, overlapped>>

------------------------------------------------------------------------------
Ongoing(i) == rituals[i].status # "completed"

\* startRitual, before its transaction.
AskRitual(w, u, league) ==
  /\ Free(w)
  /\ Unlocks[league] > 0
  /\ u \in Admins \/ standing[u].earned >= Thresholds[league]
  /\ league > standing[u].current
  /\ bal[Available(u)] >= Unlocks[league]
  /\ asks' = [asks EXCEPT ![w] = [stage |-> "start", user |-> u, league |-> league]]
  /\ UNCHANGED <<bal, txns, standing, rituals, grants, credits, overlapped>>

\* Its transaction.  A unique index allows one ongoing ritual per user.
StartRitual(w) ==
  LET i == Len(rituals) + 1  u == asks[w].user  league == asks[w].league IN
  /\ asks[w].stage = "start"
  /\ i <= MaxRituals
  /\ \A j \in DOMAIN rituals : Ongoing(j) => rituals[j].user # u
  /\ Post("ritual_lock", i, <<"lr:lock", i>>, Available(u), Credit(Locked(u), Unlocks[league]))
  /\ rituals' = Append(rituals, [user |-> u, league |-> league, status |-> "ascending"])
  /\ asks' = [asks EXCEPT ![w] = NoAsk]
  /\ UNCHANGED <<standing, grants, credits, overlapped>>

AbandonAsk(w) ==
  /\ asks[w] # NoAsk
  /\ asks' = [asks EXCEPT ![w] = NoAsk]
  /\ UNCHANGED <<bal, txns, standing, rituals, grants, credits, overlapped>>

\* unlock_at passes.
Mature(i) ==
  /\ rituals[i].status = "ascending"
  /\ rituals' = [rituals EXCEPT ![i].status = "due"]
  /\ UNCHANGED <<bal, txns, standing, asks, grants, credits, overlapped>>

\* _settle: gives the tokens back and unlocks the league.
Complete(i, key) ==
  LET u == rituals[i].user  league == rituals[i].league IN
  /\ Post("ritual_release", i, key, Locked(u), Credit(Available(u), Unlocks[league]))
  /\ rituals' = [rituals EXCEPT ![i].status = "completed"]
  /\ standing' = [standing EXCEPT ![u].unlocked = Max({@, league}), ![u].current = Max({@, league, 1})]
  /\ UNCHANGED <<asks, grants, credits, overlapped>>

\* Faulty: claims a ritual whatever has become of it.
ClaimAnyRitual(i) == rituals[i].status # "ascending" /\ Complete(i, NoKey)

\* claimRitual and sweepMatured look at the row again under its lock.
ClaimRitual(i) == rituals[i].status = "due" /\ Complete(i, <<"lr:release", i>>)

\* Faulty: the sweeper passes over the rituals of those who still earn.
SweepIdle(i) == rituals[i].status = "due" /\ standing[rituals[i].user].earned = 0 /\ ClaimRitual(i)

SweepRitual(i) == ClaimRitual(i)

\* getStatus: what the page shows of a league.
Shown(u, league) ==
  IF league <= Reached(standing[u].earned, standing[u].unlocked) THEN "Unlocked"
  ELSE IF \E i \in DOMAIN rituals : Ongoing(i) /\ rituals[i].user = u /\ rituals[i].league = league THEN "Ascending"
  ELSE IF u \in Admins \/ standing[u].earned >= Thresholds[league] THEN "Qualified" ELSE "Locked"

------------------------------------------------------------------------------
LeaguesNext ==
  \/ \E u \in Members, k \in DOMAIN Rewards, w \in Asks :
       AskGrant(k, u, w) \/ GrantReward(k, u, w) \/ FailGrant(k, u, w) \/ AddEarned(k, u, w)
  \/ LoseCredits
  \/ \E w \in Asks :
       \/ \E u \in Members, league \in Tiers : AskRitual(w, u, league)
       \/ StartRitual(w)
       \/ AbandonAsk(w)
  \/ \E i \in DOMAIN rituals : Mature(i) \/ ClaimRitual(i) \/ SweepRitual(i)

------------------------------------------------------------------------------
Moves(type, i) == {x \in DOMAIN txns : txns[x].type = type /\ txns[x].ref = i}

\* Claims and the sweeper release a ritual once between them, and while it lasts
\* the user's locked tokens are those of the one ritual.
RitualReleasedOnce ==
  /\ \A i \in DOMAIN rituals :
       Cardinality(Moves("ritual_release", i)) = IF Ongoing(i) THEN 0 ELSE 1
  /\ \A u \in Members : \A i \in DOMAIN rituals :
       Ongoing(i) /\ rituals[i].user = u => bal[Locked(u)] = Unlocks[rituals[i].league]

\* The league the row keeps is the one that getStatus works out from its other
\* columns, whichever of addEarned and _settle wrote it last.
CurrentIsReached ==
  \A u \in Members : standing[u].current = Reached(standing[u].earned, standing[u].unlocked)

Owed(S) == SumFunctionOnSet(Rewards, S)
PaidTo(u) == {k \in DOMAIN Rewards : Moves("milestone", <<k, u>>) # {}}
DueTo(u) == {k \in DOMAIN Rewards : \E w \in Asks : <<k, u, w>> \in credits}
InTurn(u) == \A k \in DOMAIN Rewards : <<k, u>> \notin overlapped

\* Each reward is paid once and nothing is about to be counted that was not paid,
\* whatever calls overlap, fail or are lost; and unless two calls for the same reward of
\* a user have overlapped, no more counts as earned than was paid.
EarnedWasPaid ==
  \A u \in Members :
    /\ DueTo(u) \subseteq PaidTo(u)
    /\ \A k \in PaidTo(u) : Cardinality(Moves("milestone", <<k, u>>)) = 1
    /\ InTurn(u) => standing[u].earned + Owed(DueTo(u)) <= Owed(PaidTo(u))

\* Violated by the code: replays do not double-count (the comment in fire).  Two calls
\* that overlap both answer that they have granted, and both are counted.
ReplaysCountOnce == \A u \in Members : standing[u].earned <= Owed(PaidTo(u))

\* A ritual ends, and not only when its user claims it.
RitualsEnd ==
  \A i \in 1..MaxRituals :
    (i \in DOMAIN rituals /\ Ongoing(i)) ~> (i \in DOMAIN rituals /\ ~Ongoing(i))

\* Violated by the code: the check that the league is above the current one
\* ("already_unlocked") is made before the transaction, so that a league one ascends to
\* may be shown as unlocked.
RitualsClimb ==
  \A i \in DOMAIN rituals : Ongoing(i) => Shown(rituals[i].user, rituals[i].league) = "Ascending"
============================================================================
