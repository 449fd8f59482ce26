----------------------------- MODULE MCFrontend -----------------------------
(***************************************************************************)
(* A small instance of Frontend: one visitor, whose transactions also come *)
(* from elsewhere, and one vault, so that every settlement turns the slots *)
(* under the page.                                                         *)
(***************************************************************************)
EXTENDS Frontend, TLC

CONSTANTS u1, founder

MCUsers == {u1}
MCFunds == (u1 :> 2) @@ (founder :> 1)
MCBytes == {0}
=============================================================================
