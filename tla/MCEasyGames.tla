---------------------------- MODULE MCEasyGames ----------------------------
(***************************************************************************)
(* Small instances of EasyGames for TLC.                                   *)
(***************************************************************************)
EXTENDS EasyGames

CONSTANTS u1, u2, w1, w2, p1, h1, e1, e2

MCAccounts == {Available(u) : u \in Users} \union {EasyPool, Treasury}
\* The order of the transactions in the ledger makes no difference.
MCView ==
  <<bal, [x \in Range(txns) |-> Cardinality({i \in DOMAIN txns : txns[i] = x})], easyVars, pickVars>>
MCSymmetry == Permutations({u1, u2}) \union Permutations({w1, w2})
==============================================================================
