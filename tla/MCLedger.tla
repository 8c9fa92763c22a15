------------------------------ MODULE MCLedger ------------------------------
(***************************************************************************)
(* Small instances of Ledger for TLC: a user's wallet beside genesis and   *)
(* the treasury, tokens in single units.                                   *)
(***************************************************************************)
EXTENDS Ledger, TLC

CONSTANTS s1, s2, k1

Move(w, k, d) == [wallet |-> w, kind |-> k, delta |-> d]

\* A grant to the user; the user's payment back, all of it; a stake, which
\* moves tokens between two balances of one wallet; and an unbalanced list,
\* which the ledger refuses.
MCPostings ==
  { <<Move(2, "available", -1), Move(3, "available", 1)>>,
    <<Move(3, "available", -1), Move(2, "available", 1)>>,
    <<Move(3, "available", -1), Move(3, "locked", 1)>>,
    <<Move(2, "available", -1), Move(3, "available", 2)>> }

MCFreezes == {<<3, "frozen">>, <<3, "active">>}
MCMintAmounts == {0, 1}
SessionSymmetry == Permutations({s1, s2})
==============================================================================
