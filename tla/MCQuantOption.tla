--------------------------- MODULE MCQuantOption ---------------------------
(***************************************************************************)
(* Small instances of QuantOption for TLC.  With a stake of 20 a win pays  *)
(* 37, and a buffer of 17 lets the pool carry exactly one open position.   *)
(***************************************************************************)
EXTENDS QuantOption

CONSTANTS u1, u2, w1, w2, g1

MCAccounts == {Available(u) : u \in Users} \union {QuantPool, Treasury}
MCSymmetry == Permutations({u1, u2}) \union Permutations({w1, w2})
==============================================================================
