----------------------------- MODULE MCBilling -----------------------------
(***************************************************************************)
(* Small instances of Billing for TLC.  25 base units is the least fee     *)
(* whose burn share is a whole unit.                                       *)
(***************************************************************************)
EXTENDS Billing

CONSTANTS u1, c, w1, w2

MCAccounts == {Available(u) : u \in Users} \union {Available(Creator), Treasury, Burn, Genesis}
MCSymmetry == Permutations({w1, w2})
==============================================================================
