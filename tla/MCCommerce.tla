----------------------------- MODULE MCCommerce -----------------------------
(***************************************************************************)
(* Small instances of Commerce for TLC: two users, one creator, amounts in *)
(* base units.  20 is the least price whose burn share is a whole unit.    *)
(***************************************************************************)
EXTENDS Commerce

CONSTANTS u1, u2, c, t1, t2, k1

MCAccounts ==
  {Available(u) : u \in Users} \union {Locked(u) : u \in Users}
  \union {Pending(Creator), Available(Creator), Escrow, Pool, Treasury, Burn}

MCRake == [treasury |-> 1000, burn |-> 500]
MCSymmetry == Permutations({u1, u2}) \union Permutations({t1, t2})
==============================================================================
