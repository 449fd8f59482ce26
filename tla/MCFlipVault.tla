---------------------------- MODULE MCFlipVault ----------------------------
(***************************************************************************)
(* Small instances of FlipVault.  Two vaults, so that a settlement leaves  *)
(* one alone; two users, so that shares of one tranche have two owners;    *)
(* single-digit reserves, so that every rounding case of both legs is      *)
(* reached within two rounds.                                              *)
(***************************************************************************)
EXTENDS HouseRefinement, TLC

CONSTANTS u1, u2, founder

MCUsers == {u1, u2}
MCFunds == (u1 :> 3) @@ (u2 :> 1) @@ (founder :> 0)
MCOneUser == {u1}
MCOneUserFunds == (u1 :> 3) @@ (founder :> 0)
MCBytes == {0, 1}
=============================================================================
