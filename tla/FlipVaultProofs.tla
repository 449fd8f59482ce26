-------------------------- MODULE FlipVaultProofs --------------------------
(***************************************************************************)
(* The safety of the FlipVault program for any users, funds, vaults, seeds *)
(* and parameters that initialize accepts.                                 *)
(***************************************************************************)
EXTENDS FlipVault, SumProofs, RoundProofs

-----------------------------------------------------------------------------
(***************************************************************************)
(* What the operators of Curve return, for all reserves and amounts.       *)
(***************************************************************************)
\* Quotient and remainder, as the provers use them.
LEMMA DivMod ==
    ASSUME NEW a \in Nat, NEW b \in Nat \ {0}
    PROVE  /\ a \div b \in Nat
           /\ a % b \in Nat
           /\ a = (a \div b) * b + (a % b)
           /\ a % b < b
  BY SMT

\* floor(a / b) is the largest q with q * b <= a.
LEMMA FloorBounds ==
    ASSUME NEW a \in Nat, NEW b \in Nat \ {0}
    PROVE  /\ a \div b \in Nat
           /\ (a \div b) * b <= a
           /\ a < (a \div b + 1) * b
  <1>1. (a \div b + 1) * b = (a \div b) * b + b
    BY DivMod, SMT
  <1>2. QED
    BY <1>1, DivMod, SMT

\* CeilDiv(a, b) is the smallest q with q * b >= a.
LEMMA CeilBounds ==
    ASSUME NEW a \in Nat, NEW b \in Nat \ {0}
    PROVE  /\ CeilDiv(a, b) \in Nat
           /\ a <= CeilDiv(a, b) * b
           /\ a > 0 => (CeilDiv(a, b) - 1) * b < a
           /\ a > 0 => CeilDiv(a, b) > 0
  <1> DEFINE q == a \div b
             r == a % b
  <1>1. q \in Nat /\ r \in Nat /\ a = q * b + r /\ r < b
    BY DivMod
  <1>2. CASE r = 0
    <2>1. CeilDiv(a, b) = q
      BY <1>1, <1>2 DEF CeilDiv
    <2>2. (q - 1) * b = q * b - b
      BY <1>1, SMT
    <2>3. a > 0 => q > 0
      BY <1>1, <1>2, SMT
    <2>4. QED
      BY <1>1, <1>2, <2>1, <2>2, <2>3, SMT
  <1>3. CASE r # 0
    <2>1. CeilDiv(a, b) = q + 1
      BY <1>1, <1>3 DEF CeilDiv
    <2>2. (q + 1) * b = q * b + b /\ (q + 1 - 1) * b = q * b
      BY <1>1, SMT
    <2>3. QED
      BY <1>1, <1>3, <2>1, <2>2, SMT
  <1>4. QED
    BY <1>2, <1>3

\* a * b / c never exceeds a when b does not exceed c.
LEMMA MulDivBounds ==
    ASSUME NEW a \in Nat, NEW b \in Nat, NEW c \in Nat \ {0}
    PROVE  /\ MulDivFloor(a, b, c) \in Nat
           /\ MulDivFloor(a, b, c) * c <= a * b
           /\ b <= c => MulDivFloor(a, b, c) <= a
           /\ a <= c => MulDivFloor(a, b, c) <= b
           /\ a = c => MulDivFloor(a, b, c) = b
  <1> DEFINE m == MulDivFloor(a, b, c)
  <1>1. a * b \in Nat
    BY SMT
  <1>2. m \in Nat /\ m * c <= a * b /\ a * b < (m + 1) * c
    BY <1>1, FloorBounds DEF MulDivFloor
  <1> HIDE DEF m
  <1>3. ASSUME b <= c PROVE m <= a
    <2>1. a * b <= a * c
      BY <1>3, SMT
    <2>2. m * c <= a * c
      BY <1>1, <1>2, <2>1, SMT
    <2>3. QED
      BY <1>2, <2>2, SMT
  <1>4. ASSUME a <= c PROVE m <= b
    <2>1. a * b <= c * b
      BY <1>4, SMT
    <2>2. m * c <= b * c
      BY <1>1, <1>2, <2>1, SMT
    <2>3. QED
      BY <1>2, <2>2, SMT
  <1>5. ASSUME a = c PROVE m = b
    <2>1. b * c < (m + 1) * c
      BY <1>2, <1>5, SMT
    <2>2. b < m + 1
      BY <1>2, <2>1, SMT
    <2>3. QED
      BY <1>2, <1>4, <1>5, <2>2, SMT
  <1>6. QED
    BY <1>2, <1>3, <1>4, <1>5 DEF m

-----------------------------------------------------------------------------
\* A sale that moves the curve adds exactly dy tokens, pays what the reserve
\* loses, and leaves the curve between the hyperbola and one lamport above.
LEMMA SellMoves ==
    ASSUME NEW sol \in Nat, NEW tok \in Nat, NEW k \in Nat \ {0}, NEW dy \in Nat,
           Sell(sol, tok, k, dy) # NoTrade(sol, tok)
    PROVE  LET s == Sell(sol, tok, k, dy)
           IN  /\ dy > 0
               /\ s.r_tok = tok + dy
               /\ s.r_sol \in Nat
               /\ s.r_sol > 0
               /\ s.r_sol < sol
               /\ s.out = sol - s.r_sol
               /\ s.r_sol * s.r_tok >= k
               /\ NotAbove(s.r_sol, s.r_tok, k)
  <1> DEFINE d == tok + dy
             c == CeilDiv(k, d)
  <1>1. dy > 0 /\ c < sol
    BY SMT DEF Sell, CeilDiv
  <1>2. Sell(sol, tok, k, dy) = [out |-> sol - c, r_sol |-> c, r_tok |-> d]
    BY DEF Sell
  <1>3. d \in Nat \ {0}
    BY <1>1
  <1>4. c \in Nat /\ k <= c * d /\ (c - 1) * d < k /\ c > 0
    BY <1>3, CeilBounds
  <1> HIDE DEF c, d
  <1>5. QED
    BY <1>1, <1>2, <1>3, <1>4 DEF NotAbove, d

\* What every sale s of dy tokens does, whether it moves the curve or not.
SellEffect(s, sol, tok, k, dy) ==
    /\ s.out \in Nat /\ s.r_sol \in Nat /\ s.r_tok \in Nat
    /\ s.out = sol - s.r_sol
    /\ s.r_sol <= sol
    /\ s.r_tok <= tok + dy
    /\ dy = 0 => s.out = 0
    /\ NotBelow(sol, tok, k) => NotBelow(s.r_sol, s.r_tok, k)
    /\ NotAbove(sol, tok, k) => NotAbove(s.r_sol, s.r_tok, k)

LEMMA SellFacts ==
    ASSUME NEW sol \in Nat, NEW tok \in Nat, NEW k \in Nat \ {0}, NEW dy \in Nat
    PROVE  SellEffect(Sell(sol, tok, k, dy), sol, tok, k, dy)
  <1> DEFINE s == Sell(sol, tok, k, dy)
  <1>1. CASE s = NoTrade(sol, tok)
    BY <1>1 DEF NoTrade, SellEffect
  <1>2. CASE s # NoTrade(sol, tok)
    <2>1. /\ dy > 0 /\ s.r_tok = tok + dy /\ s.r_sol \in Nat /\ s.r_sol > 0
          /\ s.r_sol < sol /\ s.out = sol - s.r_sol
          /\ s.r_sol * s.r_tok >= k /\ NotAbove(s.r_sol, s.r_tok, k)
      BY <1>2, SellMoves
    <2>2. s.r_sol * (s.r_tok + 1) = s.r_sol * s.r_tok + s.r_sol
      BY <2>1, SMT
    <2>3. NotBelow(s.r_sol, s.r_tok, k)
      BY <2>1, <2>2, SMT DEF NotBelow
    <2> HIDE DEF s
    <2>4. SellEffect(s, sol, tok, k, dy)
      BY <2>1, <2>3 DEF SellEffect
    <2>5. QED
      BY <2>4 DEF s
  <1>3. QED
    BY <1>1, <1>2

\* A sale of tokens that were part of a supply of T never takes the reserve
\* below S, when k = S * T.
LEMMA SellKeepsSeed ==
    ASSUME NEW sol \in Nat, NEW tok \in Nat, NEW dy \in Nat,
           NEW S \in Nat \ {0}, NEW T \in Nat \ {0},
           sol >= S, tok + dy <= T
    PROVE  LET s == Sell(sol, tok, S * T, dy)
           IN  s.r_sol >= S
  <1> DEFINE s == Sell(sol, tok, S * T, dy)
  <1>0. S * T \in Nat \ {0}
    BY SMT
  <1>1. CASE s = NoTrade(sol, tok)
    BY <1>1 DEF NoTrade
  <1>2. CASE s # NoTrade(sol, tok)
    <2>1. s.r_tok = tok + dy /\ s.r_sol \in Nat /\ s.r_sol * s.r_tok >= S * T
      BY <1>0, <1>2, SellMoves
    <2>2. s.r_sol * s.r_tok <= s.r_sol * T
      BY <2>1, SMT
    <2>3. s.r_sol * T >= S * T
      BY <1>0, <2>1, <2>2, SMT
    <2>4. QED
      BY <2>1, <2>3, SMT
  <1>3. QED
    BY <1>1, <1>2

\* What every buy b with dx lamports does: the reserve takes exactly dx and
\* the credit is what tok loses.
BuyEffect(b, sol, tok, k, dx) ==
    /\ b.out \in Nat /\ b.r_sol \in Nat /\ b.r_tok \in Nat
    /\ b.r_sol = sol + dx
    /\ b.out = tok - b.r_tok
    /\ dx = 0 => b.out = 0
    /\ NotBelow(b.r_sol, b.r_tok, k)
    /\ NotAbove(sol, tok, k) => NotAbove(b.r_sol, b.r_tok, k)

\* On a curve less than a token below its hyperbola the clamp of buy never acts.
LEMMA BuyFacts ==
    ASSUME NEW sol \in Nat, NEW tok \in Nat, NEW k \in Nat \ {0}, NEW dx \in Nat,
           NotBelow(sol, tok, k)
    PROVE  BuyEffect(Buy(sol, tok, k, dx), sol, tok, k, dx)
  <1> DEFINE b == Buy(sol, tok, k, dx)
  <1>1. CASE dx = 0
    <2>1. b = NoTrade(sol, tok)
      BY <1>1 DEF Buy
    <2>2. QED
      BY <1>1, <2>1 DEF NoTrade, BuyEffect
  <1>2. CASE dx # 0
    <2> DEFINE d == sol + dx
               q == k \div d
    <2>1. d \in Nat \ {0}
      BY <1>2
    <2>2. q \in Nat /\ q * d <= k /\ k < (q + 1) * d
      BY <2>1, FloorBounds
    <2>3. k < d * (tok + 1)
      <3>1. sol * (tok + 1) <= d * (tok + 1)
        BY SMT
      <3>2. QED
        BY <2>1, <3>1, SMT DEF NotBelow
    <2>4. b = [out |-> tok - (IF q > tok THEN tok ELSE q),
               r_sol |-> d, r_tok |-> IF q > tok THEN tok ELSE q]
      BY <1>2 DEF Buy
    <2> HIDE DEF q, d
    <2>5. q <= tok
      <3>1. q * d < (tok + 1) * d
        BY <2>1, <2>2, <2>3, SMT
      <3>2. q < tok + 1
        BY <2>1, <2>2, <3>1, SMT
      <3>3. QED
        BY <2>2, <3>2
    <2>6. b = [out |-> tok - q, r_sol |-> d, r_tok |-> q]
      BY <2>2, <2>4, <2>5
    <2>7. NotBelow(d, q, k)
      BY <2>1, <2>2, SMT DEF NotBelow
    <2>8. NotAbove(d, q, k)
      <3>1. (d - 1) * q = q * d - q
        BY <2>1, <2>2, SMT
      <3>2. QED
        BY <2>1, <2>2, <3>1, SMT DEF NotAbove
    <2>9. QED
      BY <1>2, <2>1, <2>2, <2>5, <2>6, <2>7, <2>8 DEF d, BuyEffect
  <1>3. QED
    BY <1>1, <1>2

\* The two legs of a flip f of s lamports and t tokens: lamports and tokens
\* only change hands, and both bounds of the curve survive.
FlipEffect(f, sol, tok, k, s, t) ==
    /\ f.sol_out \in Nat /\ f.tok_out \in Nat /\ f.post_sell_r_sol \in Nat
    /\ f.new_r_sol \in Nat /\ f.new_r_tok \in Nat
    /\ f.post_sell_r_sol > 0
    /\ f.sol_out = sol - f.post_sell_r_sol
    /\ f.new_r_sol = (sol - f.sol_out) + s
    /\ f.new_r_tok + f.tok_out <= tok + t
    /\ t = 0 => f.sol_out = 0
    /\ s = 0 => f.tok_out = 0
    /\ NotBelow(f.new_r_sol, f.new_r_tok, k)
    /\ NotAbove(sol, tok, k) => NotAbove(f.new_r_sol, f.new_r_tok, k)

THEOREM FlipFacts ==
    ASSUME NEW sol \in Nat, NEW tok \in Nat, NEW k \in Nat \ {0},
           NEW s \in Nat, NEW t \in Nat,
           NotBelow(sol, tok, k)
    PROVE  FlipEffect(Flip(sol, tok, k, s, t), sol, tok, k, s, t)
  <1> DEFINE f      == Flip(sol, tok, k, s, t)
             sold   == Sell(sol, tok, k, t)
             x      == sold.r_sol
             y      == sold.r_tok
             bought == Buy(x, y, k, s)
  <1>1. f = [sol_out |-> sold.out, tok_out |-> bought.out, post_sell_r_sol |-> x,
             new_r_sol |-> bought.r_sol, new_r_tok |-> bought.r_tok]
    BY DEF Flip
  <1>2. SellEffect(sold, sol, tok, k, t)
    BY SellFacts
  <1> HIDE DEF f, sold
  <1>3. /\ sold.out \in Nat /\ x \in Nat /\ y \in Nat
        /\ sold.out = sol - x /\ x <= sol /\ y <= tok + t
        /\ t = 0 => sold.out = 0
        /\ NotBelow(x, y, k)
        /\ NotAbove(sol, tok, k) => NotAbove(x, y, k)
    BY <1>2 DEF SellEffect
  <1> HIDE DEF x, y
  <1>4. x > 0
    BY <1>3, SMT DEF NotBelow
  <1>5. BuyEffect(bought, x, y, k, s)
    BY <1>3, BuyFacts
  <1> HIDE DEF bought
  <1>6. FlipEffect(f, sol, tok, k, s, t)
    BY <1>1, <1>3, <1>4, <1>5 DEF BuyEffect, FlipEffect
  <1>7. QED
    BY <1>6 DEF f
-----------------------------------------------------------------------------
(***************************************************************************)
(* The inductive invariant.  The type of the pool is not inductive alone:  *)
(* that balances stay natural numbers needs the vaults solvent, and that   *)
(* the curve's results are natural numbers needs the curve less than a     *)
(* token below its hyperbola.  That the reserve keeps its seed also needs  *)
(* the tokens of the whole pool bounded by the genesis supply.             *)
(***************************************************************************)
PoolInv ==
    /\ PoolTypeOK
    /\ OneSolSlot
    /\ VaultsSolvent
    /\ EmptyTrancheHoldsNothing
    /\ CurveNotBelow
    /\ TokensBounded
    /\ reserve >= SeedSol

IInv == RoundInv /\ PoolInv

LEMMA ConstantFacts ==
    /\ K \in Nat \ {0}
    /\ SeedSol \in Nat \ {0}
    /\ InitRTok \in Nat \ {0}
    /\ BpsDenom \in Nat \ {0}
    /\ FeeBps \in Nat /\ FeeBps <= BpsDenom
    /\ MinDeposit \in Nat \ {0}
  <1>1. SeedSol * InitRTok \in Nat \ {0}
    BY FlipVaultAssumption, SMT
  <1>2. QED
    BY <1>1, FlipVaultAssumption DEF K

\* A vault with one SOL slot: its two slots, and what they hold.
LEMMA SlotFacts ==
    ASSUME PoolTypeOK, OneSolSlot, NEW v \in Vaults
    PROVE  /\ SolSlot(v) \in Slots /\ TokSlot(v) \in Slots /\ SolSlot(v) # TokSlot(v)
           /\ \A i \in Slots : i = SolSlot(v) \/ i = TokSlot(v)
           /\ tranches[v][SolSlot(v)].asset = "Sol"
           /\ tranches[v][TokSlot(v)].asset = "Token"
           /\ SolAmount(v) \in Nat /\ TokenAmount(v) \in Nat
           /\ HasSolSlot(v)
           /\ \A i \in Slots : tranches[v][i] \in Tranche
  <1>1. \A i \in Slots : tranches[v][i] \in Tranche
    BY DEF PoolTypeOK
  <1>2. tranches[v][0].asset # tranches[v][1].asset
    BY DEF OneSolSlot
  <1>3. QED
    BY <1>1, <1>2 DEF SolSlot, TokSlot, SolAmount, TokenAmount, HasSolSlot, Slots, Tranche

LEMMA VaultsFinite == IsFiniteSet(Vaults)
  BY RoundAssumption, FS_Interval DEF Vaults

LEMMA InitInv == Init => IInv
  <1> SUFFICES ASSUME Init PROVE IInv
    OBVIOUS
  <1>1. RoundInv
    BY RoundInitInv DEF Init
  <1>2. PoolTypeOK
    BY ConstantFacts, FlipVaultAssumption
    DEF Init, PoolTypeOK, Tranche, Slots, Wallets
  <1>3. OneSolSlot /\ VaultsSolvent /\ EmptyTrancheHoldsNothing
    BY DEF Init, OneSolSlot, VaultsSolvent, EmptyTrancheHoldsNothing, SolAmount, SolSlot, Slots
  <1>4. CurveNotBelow
    <2>1. SeedSol * (InitRTok + 1) = SeedSol * InitRTok + SeedSol
      BY ConstantFacts, SMT
    <2>2. QED
      BY <2>1, ConstantFacts, SMT DEF Init, CurveNotBelow, NotBelow, K
  <1>5. TokensBounded
    <2> DEFINE f == [v \in Vaults |-> TokenAmount(v)]
    <2>1. f = [v \in Vaults |-> 0]
      BY DEF Init, TokenAmount, TokSlot, SolSlot, Slots
    <2>2. SumFunction(f) = 0
      BY <2>1, VaultsFinite, SumZero
    <2>3. QED
      BY <2>2, ConstantFacts DEF Init, TokensBounded
  <1>6. reserve >= SeedSol
    BY ConstantFacts DEF Init
  <1>7. QED
    BY <1>1, <1>2, <1>3, <1>4, <1>5, <1>6 DEF IInv, PoolInv

\* A vault's tokens and the curve's are part of the genesis supply.
LEMMA TokensWithinSupply ==
    ASSUME PoolTypeOK, OneSolSlot, TokensBounded, NEW v \in Vaults
    PROVE  r_tok + TokenAmount(v) <= InitRTok
  <1> DEFINE f == [w \in Vaults |-> TokenAmount(w)]
  <1>1. f \in [Vaults -> Nat] /\ f[v] = TokenAmount(v)
    BY SlotFacts
  <1>2. r_tok + SumFunction(f) <= InitRTok /\ r_tok \in Nat /\ InitRTok \in Nat
    BY ConstantFacts DEF TokensBounded, PoolTypeOK
  <1> HIDE DEF f
  <1>3. SumFunction(f) \in Nat /\ f[v] <= SumFunction(f) /\ f[v] \in Nat
    BY <1>1, VaultsFinite, SumNat
  <1>4. QED
    BY <1>1, <1>2, <1>3

\* The tokens of one vault and of the curve change, and together they do
\* not become more.
LEMMA TokensStayBounded ==
    ASSUME TokensBounded, r_tok \in Nat, r_tok' \in Nat,
           NEW v \in Vaults, \A w \in Vaults : TokenAmount(w) \in Nat,
           TokenAmount(v)' \in Nat,
           \A w \in Vaults : w # v => TokenAmount(w)' = TokenAmount(w),
           r_tok' + TokenAmount(v)' <= r_tok + TokenAmount(v)
    PROVE  TokensBounded'
  <1>1. PICK f : f = [w \in Vaults |-> TokenAmount(w)]
    OBVIOUS
  <1>2. PICK g : g = [w \in Vaults |-> TokenAmount(w)']
    OBVIOUS
  <1>3. f \in [Vaults -> Nat] /\ g \in [Vaults -> Nat]
    BY <1>1, <1>2
  <1>4. f \in [Vaults -> Int] /\ g \in [Vaults -> Int]
        /\ \A w \in Vaults : w # v => g[w] = f[w]
    BY <1>1, <1>2, <1>3
  <1>5. SumFunction(g) = SumFunction(f) + (g[v] - f[v])
    BY <1>4, VaultsFinite, SumChange
  <1>6. SumFunction(f) \in Nat /\ SumFunction(g) \in Nat
    BY <1>3, VaultsFinite, SumNat
  <1>7. r_tok + SumFunction(f) <= InitRTok
    BY <1>1 DEF TokensBounded
  <1>8. /\ r_tok' + g[v] <= r_tok + f[v]
        /\ g[v] \in Nat /\ f[v] \in Nat
    BY <1>1, <1>2
  <1>9. r_tok' + SumFunction(g) <= InitRTok
    BY <1>5, <1>6, <1>7, <1>8, ConstantFacts
  <1>10. QED
    BY <1>2, <1>9 DEF TokensBounded

\* Deposits and withdrawals: a SOL tranche becomes tr, and the vault's
\* balance changes by the same amount.
LEMMA CashKeepsPoolInv ==
    ASSUME PoolInv, NEW v \in Vaults, NEW i \in Slots, NEW tr \in Tranche,
           tranches[v][i].asset = "Sol", tr.asset = "Sol",
           tr.total_shares = 0 => tr.amount = 0,
           tranches' = [tranches EXCEPT ![v][i] = tr],
           NEW held \in Nat,
           held - lamports[v] = tr.amount - tranches[v][i].amount,
           lamports' = [lamports EXCEPT ![v] = held],
           UNCHANGED <<r_tok, reserve>>,
           position' \in [Users -> [Vaults -> [Slots -> Nat]]],
           treasury' \in Nat, wallet' \in [Wallets -> Nat]
    PROVE  PoolInv'
  <1> USE DEF PoolInv
  <1>1. SolSlot(v) = i
    BY SlotFacts DEF SolSlot, Slots, Tranche
  <1>2. /\ tranches' \in [Vaults -> [Slots -> Tranche]]
        /\ lamports' \in [Vaults -> Nat]
    BY DEF PoolTypeOK
  <1>3. PoolTypeOK'
    BY <1>2 DEF PoolTypeOK
  <1>4. /\ \A w \in Vaults, j \in Slots : w # v \/ j # i => tranches'[w][j] = tranches[w][j]
        /\ tranches'[v][i] = tr
    BY DEF PoolTypeOK
  <1>5. /\ \A w \in Vaults : w # v => lamports'[w] = lamports[w]
        /\ lamports'[v] = held
    BY DEF PoolTypeOK
  <1>6. \A w \in Vaults, j \in Slots : tranches'[w][j].asset = tranches[w][j].asset
    BY <1>4
  <1>7. OneSolSlot'
    BY <1>6 DEF OneSolSlot, Slots
  <1>8. \A w \in Vaults : SolAmount(w)' = tranches'[w][SolSlot(w)].amount
    BY <1>6 DEF SolAmount, SolSlot, Slots
  <1>9. VaultsSolvent'
    <2>1. ASSUME NEW w \in Vaults
          PROVE  SolAmount(w)' <= lamports'[w]
      <3>1. CASE w = v
        <4>1. SolAmount(v)' = tr.amount /\ SolAmount(v) = tranches[v][i].amount
          BY <1>1, <1>4, <1>8 DEF SolAmount
        <4>2. SolAmount(v) <= lamports[v] /\ lamports[v] \in Nat /\ SolAmount(v) \in Nat
          BY SlotFacts DEF VaultsSolvent, PoolTypeOK
        <4>3. tr.amount \in Nat
          BY DEF Tranche
        <4>4. QED
          BY <1>5, <3>1, <4>1, <4>2, <4>3
      <3>2. CASE w # v
        BY <1>4, <1>5, <1>8, <3>2, SlotFacts DEF VaultsSolvent, SolAmount
      <3>3. QED
        BY <3>1, <3>2
    <2>2. QED
      BY <2>1 DEF VaultsSolvent
  <1>10. EmptyTrancheHoldsNothing'
    BY <1>4 DEF EmptyTrancheHoldsNothing
  <1>11. CurveNotBelow'
    BY DEF CurveNotBelow
  <1>12. TokensBounded'
    <2>1. \A w \in Vaults : TokenAmount(w)' = TokenAmount(w)
      <3>1. ASSUME NEW w \in Vaults PROVE TokenAmount(w)' = TokenAmount(w)
        <4>1. TokSlot(w)' = TokSlot(w)
          BY <1>6 DEF TokSlot, SolSlot, Slots
        <4>2. w # v \/ TokSlot(w) # i
          BY <1>1, SlotFacts
        <4>3. QED
          BY <1>4, <4>1, <4>2, SlotFacts DEF TokenAmount
      <3>2. QED
        BY <3>1
    <2>2. QED
      BY <2>1 DEF TokensBounded
  <1>13. QED
    BY <1>3, <1>7, <1>9, <1>10, <1>11, <1>12

-----------------------------------------------------------------------------
\* More lamports never take the curve further below its hyperbola.
LEMMA MoreSolStaysAbove ==
    ASSUME NEW a \in Nat, NEW b \in Nat, NEW y \in Nat, NEW k \in Nat,
           a <= b, NotBelow(a, y, k)
    PROVE  NotBelow(b, y, k)
  <1>1. a * (y + 1) <= b * (y + 1)
    BY SMT
  <1>2. QED
    BY <1>1, SMT DEF NotBelow

(***************************************************************************)
(* One lemma per instruction.                                              *)
(***************************************************************************)
LEMMA DepositKeepsPoolInv ==
    ASSUME PoolInv, NEW u \in Users, NEW v \in Vaults, NEW i \in Slots,
           NEW amount \in Nat, Deposit(u, v, i, amount)
    PROVE  PoolInv'
  <1> DEFINE tr     == tranches[v][i]
             shares == SharesFor(tr, amount)
             a      == tr.amount + amount
             b      == tr.total_shares + shares
             new    == [tr EXCEPT !.amount = a, !.total_shares = b]
  <1>1. tr \in Tranche /\ tr.amount \in Nat /\ tr.total_shares \in Nat
    BY DEF PoolInv, PoolTypeOK, Tranche
  <1>2. /\ tr.asset = "Sol" /\ shares > 0
        /\ tr.total_shares # 0 => tr.amount > 0
        /\ tranches' = [tranches EXCEPT ![v][i] = new]
        /\ lamports' = [lamports EXCEPT ![v] = lamports[v] + amount]
        /\ position' = [position EXCEPT ![u][v][i] = @ + shares]
        /\ wallet' = [wallet EXCEPT ![u] = @ - amount]
        /\ amount <= wallet[u]
        /\ UNCHANGED <<r_tok, reserve, treasury>>
    BY DEF Deposit, DepositOK, TakesSol, CreditShares
  <1>3. shares \in Nat
    BY <1>1, <1>2, MulDivBounds DEF SharesFor
  <1> HIDE DEF shares
  <1>4. new \in Tranche /\ new.asset = "Sol" /\ new.total_shares # 0
        /\ new.amount = tr.amount + amount
    <2>1. a \in Nat /\ b \in Nat
      BY <1>1, <1>3
    <2> HIDE DEF tr, a, b
    <2>2. new \in Tranche /\ new.asset = tr.asset /\ new.amount = a
          /\ new.total_shares = b
      BY <1>1, <2>1 DEF Tranche
    <2> HIDE DEF new
    <2>3. QED
      BY <1>1, <1>2, <1>3, <2>2 DEF a, b
  <1>5. lamports[v] \in Nat
    BY DEF PoolInv, PoolTypeOK
  <1>6. position' \in [Users -> [Vaults -> [Slots -> Nat]]]
    <2>1. position \in [Users -> [Vaults -> [Slots -> Nat]]]
      BY DEF PoolInv, PoolTypeOK
    <2>2. position[u][v][i] + shares \in Nat
      BY <1>3, <2>1
    <2>3. QED
      BY <1>2, <2>1, <2>2
  <1>7. treasury' \in Nat /\ wallet' \in [Wallets -> Nat]
    BY <1>2 DEF PoolInv, PoolTypeOK, Wallets
  <1> DEFINE held == lamports[v] + amount
  <1>8. held \in Nat /\ held - lamports[v] = new.amount - tr.amount
    BY <1>1, <1>4, <1>5
  <1> HIDE DEF new
  <1>9. QED
    BY <1>2, <1>4, <1>6, <1>7, <1>8, CashKeepsPoolInv

LEMMA WithdrawKeepsPoolInv ==
    ASSUME PoolInv, NEW u \in Users, NEW v \in Vaults, NEW i \in Slots,
           NEW shares \in Nat, Withdraw(u, v, i, shares)
    PROVE  PoolInv'
  <1> DEFINE tr    == tranches[v][i]
             gross == MulDivFloor(shares, tr.amount, tr.total_shares)
             fee   == MulDivFloor(gross, FeeBps, BpsDenom)
             a     == tr.amount - gross
             b     == tr.total_shares - shares
             new   == [tr EXCEPT !.amount = a, !.total_shares = b]
  <1>1. tr \in Tranche /\ tr.amount \in Nat /\ tr.total_shares \in Nat
    BY DEF PoolInv, PoolTypeOK, Tranche
  <1>2. /\ tr.asset = "Sol" /\ tr.total_shares > 0
        /\ shares <= position[u][v][i] /\ shares <= tr.total_shares
        /\ gross <= tr.amount /\ gross <= lamports[v]
        /\ tranches' = [tranches EXCEPT ![v][i] = new]
        /\ lamports' = [lamports EXCEPT ![v] = lamports[v] - gross]
        /\ position' = [position EXCEPT ![u][v][i] = @ - shares]
        /\ wallet' = [wallet EXCEPT ![u] = @ + (gross - fee)]
        /\ treasury' = treasury + fee
        /\ UNCHANGED <<r_tok, reserve>>
    BY DEF Withdraw, WithdrawOK, TakesSol, Holds, GrossOf, NetOf, FeeOf
  <1>3. gross \in Nat /\ (shares = tr.total_shares => gross = tr.amount)
    BY <1>1, <1>2, MulDivBounds
  <1> HIDE DEF gross
  <1>4. fee \in Nat /\ fee <= gross
    BY <1>3, MulDivBounds, ConstantFacts
  <1> HIDE DEF fee
  <1>5. new \in Tranche /\ new.asset = "Sol" /\ new.amount = tr.amount - gross
        /\ (new.total_shares = 0 => new.amount = 0)
    <2>1. a \in Nat /\ b \in Nat
      BY <1>1, <1>2, <1>3
    <2> HIDE DEF tr, a, b
    <2>2. new \in Tranche /\ new.asset = tr.asset /\ new.amount = a
          /\ new.total_shares = b
      BY <1>1, <2>1 DEF Tranche
    <2> HIDE DEF new
    <2>3. QED
      BY <1>1, <1>2, <1>3, <2>2 DEF a, b
  <1>6. lamports[v] \in Nat
    BY DEF PoolInv, PoolTypeOK
  <1>7. position' \in [Users -> [Vaults -> [Slots -> Nat]]]
    <2>1. position \in [Users -> [Vaults -> [Slots -> Nat]]]
      BY DEF PoolInv, PoolTypeOK
    <2>2. position[u][v][i] - shares \in Nat
      BY <1>2, <2>1
    <2>3. QED
      BY <1>2, <2>1, <2>2
  <1>8. treasury' \in Nat /\ wallet' \in [Wallets -> Nat]
    BY <1>2, <1>3, <1>4 DEF PoolInv, PoolTypeOK, Wallets
  <1> DEFINE held == lamports[v] - gross
  <1>9. held \in Nat /\ held - lamports[v] = new.amount - tr.amount
    BY <1>1, <1>2, <1>3, <1>5, <1>6
  <1> HIDE DEF new
  <1>10. QED
    BY <1>2, <1>5, <1>7, <1>8, <1>9, CashKeepsPoolInv

\* Steps that leave the tranches and the curve's tokens alone, and take
\* nothing from the reserve or from a vault.
LEMMA PoolAloneKeepsInv ==
    ASSUME PoolInv, UNCHANGED <<r_tok, tranches, position>>,
           reserve' \in Nat, reserve' >= reserve,
           lamports' \in [Vaults -> Nat], \A v \in Vaults : lamports'[v] >= lamports[v],
           treasury' \in Nat, wallet' \in [Wallets -> Nat]
    PROVE  PoolInv'
  <1> USE DEF PoolInv
  <1>1. PoolTypeOK'
    BY DEF PoolTypeOK
  <1>2. OneSolSlot' /\ EmptyTrancheHoldsNothing'
    BY DEF OneSolSlot, EmptyTrancheHoldsNothing
  <1>3. \A v \in Vaults : SolAmount(v)' = SolAmount(v) /\ TokenAmount(v)' = TokenAmount(v)
    BY DEF SolAmount, TokenAmount, TokSlot, SolSlot
  <1>4. VaultsSolvent'
    <2>1. ASSUME NEW v \in Vaults PROVE SolAmount(v)' <= lamports'[v]
      <3>1. SolAmount(v) \in Nat /\ lamports[v] \in Nat /\ lamports'[v] \in Nat
        BY SlotFacts DEF PoolTypeOK
      <3>2. SolAmount(v) <= lamports[v] /\ lamports'[v] >= lamports[v]
        BY DEF VaultsSolvent
      <3>3. QED
        BY <1>3, <3>1, <3>2
    <2>2. QED
      BY <2>1 DEF VaultsSolvent
  <1>5. CurveNotBelow'
    <2>1. reserve \in Nat /\ r_tok \in Nat /\ K \in Nat
      BY ConstantFacts DEF PoolTypeOK
    <2>2. NotBelow(reserve, r_tok, K)
      BY DEF CurveNotBelow
    <2>3. NotBelow(reserve', r_tok, K)
      BY <2>1, <2>2, MoreSolStaysAbove
    <2>4. QED
      BY <2>3 DEF CurveNotBelow
  <1>6. TokensBounded'
    BY <1>3 DEF TokensBounded
  <1>7. reserve' >= SeedSol
    BY ConstantFacts DEF PoolTypeOK
  <1>8. QED
    BY <1>1, <1>2, <1>4, <1>5, <1>6, <1>7

-----------------------------------------------------------------------------
(***************************************************************************)
(* The flip.                                                               *)
(***************************************************************************)

\* swap_flags: one vault's roles alternate, its ledgers stay.
LEMMA SwapFacts ==
    ASSUME PoolTypeOK, OneSolSlot, NEW v \in Vaults,
           NEW sol_out \in Nat, NEW tok_out \in Nat,
           SwapFlags(v, sol_out, tok_out)
    PROVE  /\ tranches' \in [Vaults -> [Slots -> Tranche]]
           /\ \A w \in Vaults : w # v => tranches'[w] = tranches[w]
           /\ \A i \in Slots : tranches'[v][i].total_shares = tranches[v][i].total_shares
           /\ tranches'[v][TokSlot(v)].asset = "Sol"
           /\ tranches'[v][SolSlot(v)].asset = "Token"
           /\ tranches'[v][TokSlot(v)].amount = sol_out
           /\ tranches'[v][SolSlot(v)].amount = tok_out
           /\ SolSlot(v)' = TokSlot(v) /\ TokSlot(v)' = SolSlot(v)
           /\ SolAmount(v)' = sol_out /\ TokenAmount(v)' = tok_out
           /\ \A w \in Vaults : w # v => SolAmount(w)' = SolAmount(w)
                                       /\ TokenAmount(w)' = TokenAmount(w)
  <1> DEFINE i == TokSlot(v)
             j == SolSlot(v)
  <1>1. i \in Slots /\ j \in Slots /\ i # j /\ (\A n \in Slots : n = i \/ n = j)
    BY SlotFacts
  <1>2. tranches \in [Vaults -> [Slots -> Tranche]]
    BY DEF PoolTypeOK
  <1>3. i = 1 - j
    BY DEF TokSlot
  <1> DEFINE trI == tranches[v][i]
             trJ == tranches[v][j]
             x   == [trI EXCEPT !.asset = "Sol", !.amount = sol_out]
             y   == [trJ EXCEPT !.asset = "Token", !.amount = tok_out]
  <1>4. tranches' = [tranches EXCEPT ![v][i] = x, ![v][j] = y]
    BY <1>1, <1>2 DEF SwapFlags
  <1> HIDE DEF i, j
  <1>5. /\ x \in Tranche /\ x.asset = "Sol" /\ x.amount = sol_out
        /\ x.total_shares = tranches[v][i].total_shares
        /\ y \in Tranche /\ y.asset = "Token" /\ y.amount = tok_out
        /\ y.total_shares = tranches[v][j].total_shares
    <2>1. trI \in Tranche /\ trJ \in Tranche
      BY <1>1, <1>2
    <2> HIDE DEF trI, trJ
    <2>2. /\ x \in Tranche /\ x.asset = "Sol" /\ x.amount = sol_out
          /\ x.total_shares = trI.total_shares
      BY <2>1 DEF Tranche
    <2>3. /\ y \in Tranche /\ y.asset = "Token" /\ y.amount = tok_out
          /\ y.total_shares = trJ.total_shares
      BY <2>1 DEF Tranche
    <2> HIDE DEF x, y
    <2>4. QED
      BY <2>2, <2>3 DEF trI, trJ
  <1> HIDE DEF x, y
  <1>6. /\ tranches' \in [Vaults -> [Slots -> Tranche]]
        /\ \A w \in Vaults : w # v => tranches'[w] = tranches[w]
        /\ tranches'[v][i] = x
        /\ tranches'[v][j] = y
    BY <1>1, <1>2, <1>4, <1>5
  <1>7. \A n \in Slots : tranches'[v][n].total_shares = tranches[v][n].total_shares
    BY <1>1, <1>5, <1>6
  <1>8. SolSlot(v)' = i /\ TokSlot(v)' = j
    BY <1>1, <1>3, <1>5, <1>6 DEF SolSlot, TokSlot, Slots
  <1>9. SolAmount(v)' = sol_out /\ TokenAmount(v)' = tok_out
    BY <1>5, <1>6, <1>8 DEF SolAmount, TokenAmount
  <1>10. \A w \in Vaults : w # v => SolAmount(w)' = SolAmount(w)
                                   /\ TokenAmount(w)' = TokenAmount(w)
    BY <1>6 DEF SolAmount, TokenAmount, SolSlot, TokSlot
  <1>11. QED
    BY <1>5, <1>6, <1>7, <1>8, <1>9, <1>10 DEF i, j

\* What execute_flip computes for a vault of a sound pool.
LEMMA FlipOfFacts ==
    ASSUME PoolInv, NEW v \in Vaults
    PROVE  /\ FlipEffect(FlipOf(v), reserve, r_tok, K, SolAmount(v), TokenAmount(v))
           /\ FlipOf(v).post_sell_r_sol >= SeedSol
  <1>1. /\ reserve \in Nat /\ r_tok \in Nat /\ K \in Nat \ {0}
        /\ SolAmount(v) \in Nat /\ TokenAmount(v) \in Nat
        /\ NotBelow(reserve, r_tok, K)
    BY SlotFacts, ConstantFacts DEF PoolInv, PoolTypeOK, CurveNotBelow
  <1>2. FlipEffect(FlipOf(v), reserve, r_tok, K, SolAmount(v), TokenAmount(v))
    BY <1>1, FlipFacts DEF FlipOf
  <1>3. /\ reserve >= SeedSol /\ r_tok + TokenAmount(v) <= InitRTok
        /\ SeedSol \in Nat \ {0} /\ InitRTok \in Nat \ {0}
    BY TokensWithinSupply, ConstantFacts DEF PoolInv
  <1>4. Sell(reserve, r_tok, SeedSol * InitRTok, TokenAmount(v)).r_sol >= SeedSol
    BY <1>1, <1>3, SellKeepsSeed
  <1>5. FlipOf(v).post_sell_r_sol = Sell(reserve, r_tok, K, TokenAmount(v)).r_sol
    BY DEF FlipOf, Flip
  <1>6. QED
    BY <1>2, <1>4, <1>5 DEF K

\* Both outcomes of execute_flip that swap a vault: pay sol_out and
\* tok_out, take the SOL tranche.
LEMMA SwapKeepsPoolInv ==
    ASSUME PoolInv, NEW v \in Vaults, NEW sol_out \in Nat, NEW tok_out \in Nat,
           SwapFlags(v, sol_out, tok_out),
           TokenAmount(v) = 0 => sol_out = 0,
           SolAmount(v) = 0 => tok_out = 0,
           lamports' = [lamports EXCEPT ![v] = (@ + sol_out) - SolAmount(v)],
           reserve' \in Nat, reserve' >= SeedSol,
           r_tok' \in Nat, r_tok' + tok_out <= r_tok + TokenAmount(v),
           NotBelow(reserve', r_tok', K),
           UNCHANGED <<position, treasury, wallet>>
    PROVE  PoolInv'
  <1> USE DEF PoolInv
  <1>1. /\ SolAmount(v) \in Nat /\ TokenAmount(v) \in Nat /\ lamports[v] \in Nat
        /\ SolAmount(v) <= lamports[v] /\ r_tok \in Nat
    BY SlotFacts DEF PoolTypeOK, VaultsSolvent
  <1>2. /\ lamports' \in [Vaults -> Nat]
        /\ lamports'[v] >= sol_out
        /\ \A w \in Vaults : w # v => lamports'[w] = lamports[w]
    <2>1. (lamports[v] + sol_out) - SolAmount(v) \in Nat
          /\ (lamports[v] + sol_out) - SolAmount(v) >= sol_out
      BY <1>1
    <2>2. lamports \in [Vaults -> Nat]
      BY DEF PoolTypeOK
    <2>3. QED
      BY <2>1, <2>2
  <1>3. PoolTypeOK'
    BY <1>2, SwapFacts DEF PoolTypeOK
  <1>4. OneSolSlot'
    <2>1. ASSUME NEW w \in Vaults
          PROVE  tranches'[w][0].asset # tranches'[w][1].asset
      <3>1. CASE w = v
        <4>1. (SolSlot(v) = 0 /\ TokSlot(v) = 1) \/ (SolSlot(v) = 1 /\ TokSlot(v) = 0)
          BY DEF SolSlot, TokSlot
        <4>2. QED
          BY <3>1, <4>1, SwapFacts
      <3>2. CASE w # v
        BY <3>2, SwapFacts DEF OneSolSlot
      <3>3. QED
        BY <3>1, <3>2
    <2>2. QED
      BY <2>1 DEF OneSolSlot
  <1>5. VaultsSolvent'
    <2>1. ASSUME NEW w \in Vaults PROVE SolAmount(w)' <= lamports'[w]
      <3>1. CASE w = v
        BY <1>2, <3>1, SwapFacts
      <3>2. CASE w # v
        BY <1>2, <3>2, SwapFacts DEF VaultsSolvent
      <3>3. QED
        BY <3>1, <3>2
    <2>2. QED
      BY <2>1 DEF VaultsSolvent
  <1>6. EmptyTrancheHoldsNothing'
    <2>1. ASSUME NEW w \in Vaults, NEW i \in Slots, tranches'[w][i].total_shares = 0
          PROVE  tranches'[w][i].amount = 0
      <3>1. CASE w # v
        BY <2>1, <3>1, SwapFacts DEF EmptyTrancheHoldsNothing
      <3>2. CASE w = v /\ i = TokSlot(v)
        <4>1. tranches[v][i].total_shares = 0
          BY <2>1, <3>2, SwapFacts
        <4>2. TokenAmount(v) = 0
          BY <3>2, <4>1 DEF EmptyTrancheHoldsNothing, TokenAmount
        <4>3. QED
          BY <3>2, <4>2, SwapFacts
      <3>3. CASE w = v /\ i = SolSlot(v)
        <4>1. tranches[v][i].total_shares = 0
          BY <2>1, <3>3, SwapFacts
        <4>2. SolAmount(v) = 0
          BY <3>3, <4>1 DEF EmptyTrancheHoldsNothing, SolAmount
        <4>3. QED
          BY <3>3, <4>2, SwapFacts
      <3>4. QED
        BY <3>1, <3>2, <3>3, SlotFacts
    <2>2. QED
      BY <2>1 DEF EmptyTrancheHoldsNothing
  <1>7. CurveNotBelow'
    BY DEF CurveNotBelow
  <1>8. TokensBounded'
    <2>1. TokenAmount(v)' = tok_out
          /\ \A w \in Vaults : w # v => TokenAmount(w)' = TokenAmount(w)
      BY SwapFacts
    <2>2. \A w \in Vaults : TokenAmount(w) \in Nat
      BY SlotFacts
    <2>3. QED
      BY <1>1, <2>1, <2>2, TokensStayBounded
  <1>9. reserve' >= SeedSol
    OBVIOUS
  <1>10. QED
    BY <1>3, <1>4, <1>5, <1>6, <1>7, <1>8, <1>9

LEMMA FlipKeepsPoolInv ==
    ASSUME PoolInv, NEW v \in Vaults, ExecuteFlip(v),
           UNCHANGED <<position, treasury, wallet>>
    PROVE  PoolInv'
  <1> DEFINE f == FlipOf(v)
             s == SolAmount(v)
             t == TokenAmount(v)
  <1>1. /\ s \in Nat /\ t \in Nat /\ reserve \in Nat /\ r_tok \in Nat
        /\ lamports \in [Vaults -> Nat] /\ reserve >= SeedSol
        /\ NotBelow(reserve, r_tok, K)
    BY SlotFacts DEF PoolInv, PoolTypeOK, CurveNotBelow
  <1>2. FlipEffect(f, reserve, r_tok, K, s, t) /\ f.post_sell_r_sol >= SeedSol
    BY FlipOfFacts
  <1>3. CASE FlipEmpty(v)
    <2>1. s = 0 /\ t = 0 /\ SwapFlags(v, 0, 0) /\ UNCHANGED <<r_tok, reserve, lamports>>
      BY <1>3 DEF FlipEmpty, BothEmpty
    <2>2. lamports' = [lamports EXCEPT ![v] = (@ + 0) - s]
      BY <1>1, <2>1
    <2>3. r_tok' + 0 <= r_tok + t
      BY <1>1, <2>1
    <2> HIDE DEF s, t
    <2>4. QED
      BY <1>1, <2>1, <2>2, <2>3, SwapKeepsPoolInv DEF s, t
  <1>4. CASE FlipSkipped(v)
    <2>1. UNCHANGED <<r_tok, reserve, lamports, tranches>>
      BY <1>4 DEF FlipSkipped
    <2>2. QED
      BY <1>1, <2>1, PoolAloneKeepsInv DEF PoolInv, PoolTypeOK
  <1>5. CASE FlipTraded(v)
    <2>1. /\ reserve' = (reserve - f.sol_out) + s
          /\ lamports' = [lamports EXCEPT ![v] = (@ + f.sol_out) - s]
          /\ r_tok' = f.new_r_tok
          /\ SwapFlags(v, f.sol_out, f.tok_out)
      BY <1>5 DEF FlipTraded, ReserveAfter, VaultAfter
    <2> HIDE DEF f, s, t
    <2>2. /\ f.sol_out \in Nat /\ f.tok_out \in Nat
          /\ reserve' = f.new_r_sol /\ r_tok' \in Nat /\ reserve' \in Nat
          /\ f.sol_out = reserve - f.post_sell_r_sol /\ f.post_sell_r_sol \in Nat
          /\ r_tok' + f.tok_out <= r_tok + t
          /\ t = 0 => f.sol_out = 0
          /\ s = 0 => f.tok_out = 0
          /\ NotBelow(f.new_r_sol, f.new_r_tok, K)
      BY <1>2, <2>1 DEF FlipEffect
    <2>3. reserve' >= SeedSol
      BY <1>1, <1>2, <2>1, <2>2, ConstantFacts
    <2>4. NotBelow(reserve', r_tok', K)
      BY <2>1, <2>2
    <2>5. QED
      BY <2>1, <2>2, <2>3, <2>4, SwapKeepsPoolInv DEF s, t
  <1>6. QED
    BY <1>3, <1>4, <1>5 DEF ExecuteFlip

-----------------------------------------------------------------------------
(***************************************************************************)
(* Every step keeps the invariant.                                         *)
(***************************************************************************)
LEMMA UserKeepsPoolInv == PoolInv /\ UserStep => PoolInv'
  <1> SUFFICES ASSUME PoolInv, UserStep PROVE PoolInv'
    OBVIOUS
  <1>1. PICK u \in Users, v \in Vaults, i \in Slots :
           \/ \E amount \in 1 .. MaxU64 : Deposit(u, v, i, amount)
           \/ \E shares \in 1 .. MaxU64 : Withdraw(u, v, i, shares)
    BY DEF UserStep
  <1>2. ASSUME NEW amount \in 1 .. MaxU64, Deposit(u, v, i, amount)
        PROVE  PoolInv'
    BY <1>2, DepositKeepsPoolInv
  <1>3. ASSUME NEW shares \in 1 .. MaxU64, Withdraw(u, v, i, shares)
        PROVE  PoolInv'
    BY <1>3, WithdrawKeepsPoolInv
  <1>4. QED
    BY <1>1, <1>2, <1>3

LEMMA TreasuryKeepsPoolInv == PoolInv /\ TreasuryStep => PoolInv'
  <1> SUFFICES ASSUME PoolInv, NEW w \in Wallets, NEW amount \in 1 .. treasury,
                      SweepTreasury(w, amount)
               PROVE  PoolInv'
    BY DEF TreasuryStep
  <1>1. /\ treasury \in Nat /\ wallet \in [Wallets -> Nat]
        /\ reserve \in Nat /\ lamports \in [Vaults -> Nat]
    BY DEF PoolInv, PoolTypeOK
  <1>2. /\ treasury' = treasury - amount /\ amount <= treasury
        /\ wallet' = [wallet EXCEPT ![w] = @ + amount]
        /\ UNCHANGED <<r_tok, reserve, lamports, tranches, position>>
    BY DEF SweepTreasury
  <1>3. treasury' \in Nat /\ wallet' \in [Wallets -> Nat]
    BY <1>1, <1>2
  <1>4. reserve' >= reserve /\ \A v \in Vaults : lamports'[v] >= lamports[v]
    BY <1>1, <1>2
  <1>5. QED
    BY <1>1, <1>2, <1>3, <1>4, PoolAloneKeepsInv

LEMMA UnchangedKeepsPoolInv == PoolInv /\ UNCHANGED poolVars => PoolInv'
  <1> SUFFICES ASSUME PoolInv, UNCHANGED poolVars PROVE PoolInv'
    OBVIOUS
  <1>1. UNCHANGED <<r_tok, reserve, lamports, tranches, position, treasury, wallet>>
    BY DEF poolVars
  <1>2. /\ reserve \in Nat /\ lamports \in [Vaults -> Nat]
        /\ treasury \in Nat /\ wallet \in [Wallets -> Nat]
    BY DEF PoolInv, PoolTypeOK
  <1>3. reserve' >= reserve /\ \A v \in Vaults : lamports'[v] >= lamports[v]
    BY <1>1, <1>2
  <1>4. QED
    BY <1>1, <1>2, <1>3, PoolAloneKeepsInv

LEMMA RoundStepKeepsPoolInv == RoundInv /\ PoolInv /\ RoundStep => PoolInv'
  <1> SUFFICES ASSUME RoundInv, PoolInv, RoundStep PROVE PoolInv'
    OBVIOUS
  <1>1. ASSUME Settle PROVE PoolInv'
    <2>1. vrf[round_seed].byte \in Nat
      BY <1>1, RoundAssumption DEF RoundInv, RoundTypeOK, Settle, SettleRound, Resolved,
         RequestStates, NoRequest, Requested, Fulfilled
    <2>2. Selected \in Vaults
      BY <2>1, RoundAssumption DEF Selected, Vaults
    <2>3. QED
      BY <1>1, <2>2, FlipKeepsPoolInv DEF Settle
  <1>2. Settle \/ UNCHANGED poolVars
    BY DEF RoundStep, Commit, Recover
  <1>3. QED
    BY <1>1, <1>2, UnchangedKeepsPoolInv

LEMMA VaultDonationKeepsPoolInv == PoolInv /\ VaultDonation => PoolInv'
  <1> SUFFICES ASSUME PoolInv, NEW w \in Wallets, NEW v \in Vaults,
                      NEW amount \in 1 .. wallet[w], DonateToVault(w, v, amount)
               PROVE  PoolInv'
    BY DEF VaultDonation
  <1>1. /\ treasury \in Nat /\ wallet \in [Wallets -> Nat]
        /\ reserve \in Nat /\ lamports \in [Vaults -> Nat]
    BY DEF PoolInv, PoolTypeOK
  <1>2. /\ wallet' = [wallet EXCEPT ![w] = @ - amount]
        /\ lamports' = [lamports EXCEPT ![v] = @ + amount]
        /\ UNCHANGED <<r_tok, reserve, tranches, position, treasury>>
    BY DEF DonateToVault
  <1>3. wallet' \in [Wallets -> Nat] /\ lamports' \in [Vaults -> Nat]
        /\ \A x \in Vaults : lamports'[x] >= lamports[x]
    BY <1>1, <1>2
  <1>4. reserve' >= reserve
    BY <1>1, <1>2
  <1>5. QED
    BY <1>1, <1>2, <1>3, <1>4, PoolAloneKeepsInv

LEMMA ReserveDonationKeepsPoolInv == PoolInv /\ ReserveDonation => PoolInv'
  <1> SUFFICES ASSUME PoolInv, NEW w \in Wallets,
                      NEW amount \in 1 .. wallet[w], DonateToReserve(w, amount)
               PROVE  PoolInv'
    BY DEF ReserveDonation
  <1>1. /\ treasury \in Nat /\ wallet \in [Wallets -> Nat]
        /\ reserve \in Nat /\ lamports \in [Vaults -> Nat]
    BY DEF PoolInv, PoolTypeOK
  <1>2. /\ wallet' = [wallet EXCEPT ![w] = @ - amount]
        /\ reserve' = reserve + amount
        /\ UNCHANGED <<r_tok, lamports, tranches, position, treasury>>
    BY DEF DonateToReserve
  <1>3. wallet' \in [Wallets -> Nat] /\ reserve' \in Nat /\ reserve' >= reserve
        /\ \A x \in Vaults : lamports'[x] >= lamports[x]
    BY <1>1, <1>2
  <1>4. QED
    BY <1>1, <1>2, <1>3, PoolAloneKeepsInv

\* Seen from the round, every step of the program is a step of the round or
\* leaves it alone.
LEMMA StepIsRoundStep == [Next]_vars => [RoundNext]_roundVars
  <1> SUFFICES ASSUME [Next]_vars PROVE [RoundNext]_roundVars
    OBVIOUS
  <1>1. UserStep => UNCHANGED roundVars
    <2>1. ASSUME NEW u, NEW v, NEW i, NEW n, Deposit(u, v, i, n)
          PROVE  UNCHANGED roundVars
      BY <2>1 DEF Deposit
    <2>2. ASSUME NEW u, NEW v, NEW i, NEW n, Withdraw(u, v, i, n)
          PROVE  UNCHANGED roundVars
      BY <2>2 DEF Withdraw
    <2>3. QED
      BY <2>1, <2>2 DEF UserStep
  <1>2. TreasuryStep => UNCHANGED roundVars
    BY DEF TreasuryStep, SweepTreasury
  <1>3. VaultDonation \/ ReserveDonation => UNCHANGED roundVars
    BY DEF VaultDonation, ReserveDonation, DonateToVault, DonateToReserve
  <1>4. RoundStep => RoundNext
    BY DEF RoundStep, RoundNext, Commit, Settle, Recover
  <1>5. UNCHANGED vars => UNCHANGED roundVars
    BY DEF vars
  <1>6. QED
    BY <1>1, <1>2, <1>3, <1>4, <1>5 DEF Next, NextNoGift

LEMMA StepKeepsInv == IInv /\ [Next]_vars => IInv'
  <1> SUFFICES ASSUME IInv, [Next]_vars PROVE IInv'
    OBVIOUS
  <1> USE DEF IInv
  <1>1. RoundInv'
    BY StepIsRoundStep, RoundStepKeepsInv
  <1>2. PoolInv'
    BY UserKeepsPoolInv, TreasuryKeepsPoolInv, RoundStepKeepsPoolInv, UnchangedKeepsPoolInv,
       VaultDonationKeepsPoolInv, ReserveDonationKeepsPoolInv
    DEF Next, NextNoGift, vars
  <1>3. QED
    BY <1>1, <1>2

\* The inductive invariant of the whole program.
THEOREM ProgramSafe == Spec => []IInv
  BY InitInv, StepKeepsInv, PTL DEF Spec

-----------------------------------------------------------------------------
(***************************************************************************)
(* What a reader of the program relies on.                                 *)
(***************************************************************************)

\* Balances, shares and phases keep their types: no subtraction of the
\* program goes below zero.
THEOREM TypesOK == Spec => []TypeOK
  <1>1. IInv => TypeOK
    BY DEF IInv, RoundInv, PoolInv, TypeOK
  <1>2. QED
    BY <1>1, ProgramSafe, PTL

\* Every vault can pay its SOL tranche, keeps one SOL and one TOKEN slot,
\* and holds nothing that no share owns.
THEOREM VaultsSound == Spec => [](OneSolSlot /\ VaultsSolvent /\ EmptyTrancheHoldsNothing)
  <1>1. IInv => OneSolSlot /\ VaultsSolvent /\ EmptyTrancheHoldsNothing
    BY DEF IInv, PoolInv
  <1>2. QED
    BY <1>1, ProgramSafe, PTL

\* One of a vault's slots is its SOL tranche, however often it was flipped.
THEOREM RolesSound == Spec => []OneSolSlot
  BY VaultsSound, PTL

\* What the last share leaves behind is nothing, whatever was traded.
THEOREM EmptyTranches == Spec => []EmptyTrancheHoldsNothing
  BY VaultsSound, PTL

\* Rounding never takes the curve a whole token below its hyperbola, over any
\* number of rounds and donations: a buy may leave the product of the reserves
\* below K, and the sales and buys that follow do not lower it further than
\* that.
THEOREM CurveHolds == Spec => []CurveNotBelow
  <1>1. IInv => CurveNotBelow
    BY DEF IInv, PoolInv
  <1>2. QED
    BY <1>1, ProgramSafe, PTL

\* The reserve never falls below seed_sol, not even between the two legs of
\* a flip, so the floor of execute_flip is never reached.
THEOREM SeedKept == Spec => []ReserveKeepsSeed
  <1>1. IInv => ReserveKeepsSeed
    BY FlipOfFacts DEF IInv, PoolInv, ReserveKeepsSeed
  <1>2. QED
    BY <1>1, ProgramSafe, PTL

\* No state of the pool makes a settlement fail: the errors of
\* execute_flip are unreachable, and a round can only wait for its
\* randomness.
THEOREM SettlementNeverAborts == Spec => []SettleNeverAborts
  <1>1. ASSUME IInv, NEW v \in Vaults
        PROVE  ~FlipFails(v)
    <2> USE DEF IInv
    <2> DEFINE f == FlipOf(v)
    <2>1. /\ SolAmount(v) \in Nat /\ TokenAmount(v) \in Nat /\ r_tok \in Nat
          /\ reserve \in Nat /\ lamports[v] \in Nat
          /\ SolAmount(v) <= lamports[v] /\ HasSolSlot(v)
          /\ r_tok + TokenAmount(v) <= InitRTok
          /\ NotBelow(reserve, r_tok, K)
      BY <1>1, SlotFacts, TokensWithinSupply
      DEF PoolInv, PoolTypeOK, VaultsSolvent, CurveNotBelow
    <2>2. FlipEffect(f, reserve, r_tok, K, SolAmount(v), TokenAmount(v))
      BY <1>1, FlipOfFacts
    <2> HIDE DEF f
    <2>3. /\ f.sol_out \in Nat /\ f.tok_out \in Nat /\ f.new_r_tok \in Nat
          /\ f.sol_out = reserve - f.post_sell_r_sol /\ f.post_sell_r_sol \in Nat
          /\ f.new_r_tok + f.tok_out <= r_tok + TokenAmount(v)
      BY <2>2 DEF FlipEffect
    <2>4. f.tok_out <= MaxU64 /\ f.sol_out <= reserve
          /\ SolAmount(v) <= lamports[v] + f.sol_out
      BY <2>1, <2>3, ConstantFacts, FlipVaultAssumption
    <2>5. DivisorsNonZero(v)
      <3>1. Sell(reserve, r_tok, K, TokenAmount(v)).r_sol \in Nat
        BY <2>1, SellFacts, ConstantFacts DEF SellEffect
      <3>2. QED
        BY <2>1, <3>1 DEF DivisorsNonZero
    <2>6. QED
      <3>1. /\ ~(f.tok_out > MaxU64) /\ ~(f.sol_out > reserve)
            /\ ~(SolAmount(v) > lamports[v] + f.sol_out)
        BY <2>1, <2>3, <2>4, FlipVaultAssumption
      <3>2. QED
        BY <2>1, <2>5, <3>1 DEF f, FlipFails
  <1>2. IInv => SettleNeverAborts
    BY <1>1 DEF SettleNeverAborts
  <1>3. QED
    BY <1>2, ProgramSafe, PTL

\* The rounds of the composed program are the rounds of module Round, whose
\* theorems therefore hold of it.
THEOREM RunsRounds == Spec => RoundSpec
  <1>1. Init => RoundInit
    BY DEF Init
  <1>2. QED
    BY <1>1, StepIsRoundStep, PTL DEF Spec, RoundSpec

THEOREM NoSeedPlayedTwice == Spec => [](SeedUsedOnce /\ SettledByItsOwnDraw /\ RoundsSpaced)
  <1>1. IInv => SeedUsedOnce /\ SettledByItsOwnDraw /\ RoundsSpaced
    BY DEF IInv, RoundInv
  <1>2. QED
    BY <1>1, ProgramSafe, PTL
=============================================================================
