------------------------------- MODULE Curve -------------------------------
(***************************************************************************)
(* The constant-product bonding curve of the FlipVault program             *)
(* (programs/flipvault/src/curve.rs): pure functions of the two reserves   *)
(* r_sol (spendable lamports of the reserve account) and r_tok (virtual    *)
(* tokens) and of the genesis product k, which never changes.  Every value *)
(* is a u128 computed from u64 inputs, so no operation can overflow and    *)
(* the functions are over the natural numbers.  The checked divisions by   *)
(* zero are the guard DivisorsNonZero of FlipVault.                        *)
(***************************************************************************)
EXTENDS Integers

\* ceil(a / b), as quotient plus one when there is a remainder.  (Mutant: the
\* one is always added.)
DivAlwaysUp(a, b) == (a \div b) + 1
CeilDiv(a, b)     == (a \div b) + (IF a % b # 0 THEN 1 ELSE 0)

\* floor(a * b / c), the share and fee arithmetic of util.rs.
MulDivFloor(a, b, c) == (a * b) \div c

\* A leg of a trade that moves nothing.
NoTrade(r_sol, r_tok) == [out |-> 0, r_sol |-> r_sol, r_tok |-> r_tok]

(***************************************************************************)
(* Sell dy virtual tokens: r_tok grows by dy and the payout is what is     *)
(* left of r_sol above the rounded-up dependent reserve.  A sale that      *)
(* would pay nothing leaves the curve as it is, dy included.  (Mutant: a   *)
(* payout at the price before the sale.)                                   *)
(***************************************************************************)
SellAtSpot(r_sol, r_tok, k, dy) ==
    LET out == IF dy >= r_tok THEN r_sol ELSE MulDivFloor(dy, r_sol, r_tok)
    IN  IF dy = 0
        THEN NoTrade(r_sol, r_tok)
        ELSE [out |-> out, r_sol |-> r_sol - out, r_tok |-> r_tok + dy]
Sell(r_sol, r_tok, k, dy) ==
    LET denom     == r_tok + dy
        new_r_sol == CeilDiv(k, denom)
    IN  IF dy = 0 \/ new_r_sol >= r_sol
        THEN NoTrade(r_sol, r_tok)
        ELSE [out |-> r_sol - new_r_sol, r_sol |-> new_r_sol, r_tok |-> denom]

(***************************************************************************)
(* Buy with dx lamports: r_sol grows by dx and the credit is what is left  *)
(* of r_tok above floor(k / r_sol'), clamped at zero.  (Mutant: a credit   *)
(* at the price before the buy.)                                           *)
(***************************************************************************)
BuyAtSpot(r_sol, r_tok, k, dx) ==
    LET spot == MulDivFloor(dx, r_tok, r_sol)
        out  == IF spot > r_tok THEN r_tok ELSE spot
    IN  [out |-> out, r_sol |-> r_sol + dx, r_tok |-> r_tok - out]
Buy(r_sol, r_tok, k, dx) ==
    LET denom     == r_sol + dx
        raw       == k \div denom
        new_r_tok == IF raw > r_tok THEN r_tok ELSE raw
    IN  IF dx = 0
        THEN NoTrade(r_sol, r_tok)
        ELSE [out |-> r_tok - new_r_tok, r_sol |-> denom, r_tok |-> new_r_tok]

\* The sell-first flip of a vault that holds s lamports and t tokens.
Flip(r_sol, r_tok, k, s, t) ==
    LET sold   == Sell(r_sol, r_tok, k, t)
        bought == Buy(sold.r_sol, sold.r_tok, k, s)
    IN  [sol_out         |-> sold.out,
         tok_out         |-> bought.out,
         post_sell_r_sol |-> sold.r_sol,
         new_r_sol       |-> bought.r_sol,
         new_r_tok       |-> bought.r_tok]

-----------------------------------------------------------------------------
(***************************************************************************)
(* What the curve promises, stated on a pair of reserves.                  *)
(***************************************************************************)

\* The curve is never a whole token below its hyperbola: what rounding gives
\* away, over any number of trades, stays under one token.
NotBelow(r_sol, r_tok, k) == r_sol * (r_tok + 1) > k

\* Nor does rounding leave the curve a whole lamport above the hyperbola.
NotAbove(r_sol, r_tok, k) == (r_sol - 1) * r_tok < k
=============================================================================
