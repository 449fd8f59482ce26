------------------------------ MODULE MCRound ------------------------------
(***************************************************************************)
(* A small instance of Round: three seeds (a deployment never runs out of  *)
(* them), two vaults, two byte values of which one is above the number of  *)
(* vaults, so that the reduction modulo the number of vaults is seen.      *)
(***************************************************************************)
EXTENDS Round

MCBytes == {0, 3}
=============================================================================
