--------------------------- MODULE MCTradeEngine ---------------------------
(***************************************************************************)
(* A small instance of TradeEngine: a curve of a few lamports whose        *)
(* deposits graduate it, overshoot its real tokens, pay a fee, and leave   *)
(* dust.                                                                   *)
(***************************************************************************)
EXTENDS TradeEngine, TLC

MCGenesis == [virtual_sol |-> 3, virtual_token |-> 17, real_sol |-> 0, real_token |-> 11]

ASSUME MCGenesisSuffices == SeedSuffices

\* Requests, signatures and wallets are interchangeable in the safety runs.
MCSymmetry == Permutations(Requests) \cup Permutations(Signatures)
                                     \cup Permutations(Wallets)
=============================================================================
