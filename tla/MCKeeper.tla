------------------------------ MODULE MCKeeper ------------------------------
(***************************************************************************)
(* A small instance of Keeper: two seeds, so that a recovered round can be *)
(* followed by another one, and one byte, since which vault a settlement   *)
(* selects is no concern of a keeper.                                      *)
(***************************************************************************)
EXTENDS Keeper

MCBytes == {1}
=============================================================================
