----------------------------- MODULE MCEconomy -----------------------------
(***************************************************************************)
(* Small instances of Economy for TLC.                                     *)
(***************************************************************************)
EXTENDS Economy

CONSTANTS u1, u2, o1, o2, w1, w2, d1, d2

MCAccounts ==
  {Available(u) : u \in Members \union Holders} \union {Locked(u) : u \in Members}
    \union {Genesis, RewardPool, Treasury}
MCThresholds == <<10, 20, 30>>
MCUnlocks == <<0, 10, 20>>
MCRewards == [signup |-> 20]
MCAllocations == Rewarding :> 20
============================================================================
