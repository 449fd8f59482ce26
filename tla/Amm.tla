-------------------------------- MODULE Amm --------------------------------
(***************************************************************************)
(* The bonding curve of the perpetual backend (src/amm.ts): a constant     *)
(* product of virtual reserves, whose product is recomputed before every   *)
(* trade, and real reserves that move along.  Amounts are JavaScript       *)
(* BigInts, so nothing overflows.  A trade the code rejects with an        *)
(* AmmError is one whose OK predicate is false.                            *)
(***************************************************************************)
EXTENDS Integers

CONSTANTS
    FeeBps,           \* the curve row's feeBps
    BpsDenominator    \* BPS_DENOMINATOR

ASSUME AmmAssumption ==
    /\ FeeBps \in Nat
    /\ BpsDenominator \in Nat \ {0}
    /\ FeeBps <= BpsDenominator

\* ceil(a / b) of amounts.  (Mutant: floor.)
FloorDiv(a, b) == a \div b
CeilDiv(a, b)  == (a + b - 1) \div b

FeeOn(amount) == (amount * FeeBps) \div BpsDenominator
LessFee(amount) == amount - FeeOn(amount)

\* The product the next trade keeps.
Invariant(r) == r.virtual_sol * r.virtual_token

(***************************************************************************)
(* applyBuy: lamports in, less the fee, against tokens out.                *)
(***************************************************************************)
TokensFor(r, amountSolIn) ==
    r.virtual_token - CeilDiv(Invariant(r), r.virtual_sol + LessFee(amountSolIn))

BuyOK(r, amountSolIn) ==
    /\ amountSolIn > 0
    /\ LessFee(amountSolIn) > 0
    /\ TokensFor(r, amountSolIn) > 0

AfterBuy(r, amountSolIn) ==
    LET net    == LessFee(amountSolIn)
        tokens == TokensFor(r, amountSolIn)
    IN  [r EXCEPT !.virtual_sol = @ + net, !.virtual_token = @ - tokens,
                  !.real_sol    = @ + net, !.real_token    = @ - tokens]

(***************************************************************************)
(* applySell: tokens in against lamports out, of which the fee is kept.    *)
(***************************************************************************)
GrossFor(r, amountTokIn) ==
    r.virtual_sol - CeilDiv(Invariant(r), r.virtual_token + amountTokIn)

SellOK(r, amountTokIn) ==
    /\ amountTokIn > 0
    /\ GrossFor(r, amountTokIn) > 0
    /\ LessFee(GrossFor(r, amountTokIn)) > 0

AfterSell(r, amountTokIn) ==
    LET gross == GrossFor(r, amountTokIn)
    IN  [r EXCEPT !.virtual_sol = @ - gross, !.virtual_token = @ + amountTokIn,
                  !.real_sol    = @ - gross, !.real_token    = @ + amountTokIn]

\* withdrawableSol, the part that comes from the tokens: the proceeds of
\* selling them all now.  (Mutant: their value at the spot price.)
QuoteAtSpot(r, tokenBalance) == (tokenBalance * r.virtual_sol) \div r.virtual_token
Quote(r, tokenBalance) ==
    IF tokenBalance <= 0 \/ GrossFor(r, tokenBalance) <= 0
    THEN 0
    ELSE LessFee(GrossFor(r, tokenBalance))

\* checkGraduation.  (Mutant: only above the threshold.)
OvershootsGraduation(r, graduationLamports) == r.real_sol > graduationLamports
HasGraduated(r, graduationLamports) == r.real_sol >= graduationLamports
=============================================================================
