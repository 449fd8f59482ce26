---------------------------- MODULE EngineProofs ----------------------------
(***************************************************************************)
(* The safety of the account book and of the trade engine that implements  *)
(* it, for any wallets, signatures, amounts, curve parameters, and any     *)
(* number of requests and readers.                                         *)
(***************************************************************************)
EXTENDS TradeEngine, SumProofs

-----------------------------------------------------------------------------
(***************************************************************************)
(* The curve.  What no trade changes or lowers, of any reserves c.         *)
(***************************************************************************)
CurveSound(c) ==
    /\ c \in Reserves
    /\ c.virtual_sol > 0
    /\ c.virtual_token > 0
    /\ c.virtual_sol - c.real_sol = Genesis.virtual_sol - Genesis.real_sol
    /\ c.virtual_token - c.real_token = Genesis.virtual_token - Genesis.real_token
    /\ Invariant(c) >= Invariant(Genesis)

LEMMA GenesisSound == CurveSound(Genesis)
  <1>1. Invariant(Genesis) \in Nat
    BY LedgerAssumption, SMT DEF Reserves, Invariant
  <1>2. QED
    BY <1>1, LedgerAssumption DEF CurveSound, Reserves

LEMMA CeilBounds ==
    ASSUME NEW a \in Nat, NEW b \in Nat \ {0}
    PROVE  /\ CeilDiv(a, b) \in Nat
           /\ CeilDiv(a, b) * b >= a
           /\ a > 0 => CeilDiv(a, b) > 0
  <1>1. PICK q : q = (a + b - 1) \div b
    OBVIOUS
  <1>2. q \in Int /\ q * b <= a + b - 1 /\ a + b - 1 < (q + 1) * b
    BY <1>1, SMT
  <1>3. (q + 1) * b = q * b + b
    BY <1>2, SMT
  <1>4. q * b \in Int
    BY <1>2, SMT
  <1>5. q * b >= a
    BY <1>2, <1>3, <1>4, SMT
  <1>6. q >= 0
    <2>1. q < 0 => q * b <= 0 - b
      BY <1>2, SMT
    <2>2. QED
      BY <1>2, <1>4, <1>5, <2>1, SMT
  <1>7. a > 0 => q > 0
    <2>1. q = 0 => q * b = 0
      BY SMT
    <2>2. QED
      BY <1>2, <1>5, <1>6, <2>1, SMT
  <1>8. QED
    BY <1>1, <1>2, <1>5, <1>6, <1>7 DEF CeilDiv

\* The fee is part of the amount.
LEMMA FeeBounds ==
    ASSUME NEW a \in Nat
    PROVE  FeeOn(a) \in Nat /\ LessFee(a) \in Nat /\ LessFee(a) + FeeOn(a) = a
  <1>1. PICK f : f = (a * FeeBps) \div BpsDenominator
    OBVIOUS
  <1>2. a * FeeBps \in Nat /\ a * FeeBps <= a * BpsDenominator /\ a * BpsDenominator \in Nat
    BY AmmAssumption, SMT
  <1>3. f \in Nat /\ f * BpsDenominator <= a * FeeBps
    BY <1>1, <1>2, AmmAssumption, SMT
  <1>4. f <= a
    <2>1. f * BpsDenominator <= a * BpsDenominator
      BY <1>2, <1>3, AmmAssumption, SMT
    <2>2. QED
      BY <1>3, <2>1, AmmAssumption, SMT
  <1>5. QED
    BY <1>1, <1>3, <1>4 DEF FeeOn, LessFee

\* A buy: tokens leave the curve, its product does not fall.
LEMMA BuySound ==
    ASSUME NEW c, CurveSound(c), NEW a \in Nat, BuyOK(c, a)
    PROVE  /\ CurveSound(AfterBuy(c, a))
           /\ TokensFor(c, a) \in Nat
           /\ AfterBuy(c, a).virtual_token + TokensFor(c, a) = c.virtual_token
           /\ AfterBuy(c, a).real_sol = c.real_sol + LessFee(a)
  <1>1. PICK vs \in Nat, vt \in Nat, rs \in Int, rt \in Int :
           /\ vs = c.virtual_sol /\ vt = c.virtual_token /\ rs = c.real_sol /\ rt = c.real_token
           /\ vs > 0 /\ vt > 0
    BY DEF CurveSound, Reserves
  <1>2. PICK net \in Nat : net = LessFee(a) /\ net > 0
    BY FeeBounds DEF BuyOK
  <1>3. vs * vt \in Nat \ {0} /\ vs + net \in Nat \ {0}
    BY <1>1, <1>2, SMT
  <1>4. PICK nt \in Nat : /\ nt = CeilDiv(vs * vt, vs + net)
                          /\ nt * (vs + net) >= vs * vt
                          /\ nt > 0
    BY <1>3, CeilBounds
  <1>5. PICK tokens \in Int : tokens = vt - nt /\ tokens = TokensFor(c, a) /\ tokens > 0
    BY <1>1, <1>2, <1>4 DEF TokensFor, Invariant, BuyOK
  <1>6. c \in Reserves
    BY DEF CurveSound
  <1>7. PICK d : d = AfterBuy(c, a)
    OBVIOUS
  <1>8. /\ d.virtual_sol = vs + net /\ d.virtual_token = vt - tokens
        /\ d.real_sol = rs + net /\ d.real_token = rt - tokens
        /\ d \in Reserves
    <2>1. d = [c EXCEPT !.virtual_sol = vs + net, !.virtual_token = vt - tokens,
                        !.real_sol = rs + net, !.real_token = rt - tokens]
      BY <1>1, <1>2, <1>5, <1>7 DEF AfterBuy
    <2>2. vs + net \in Nat /\ vt - tokens \in Nat /\ rs + net \in Int /\ rt - tokens \in Int
      BY <1>1, <1>2, <1>4, <1>5
    <2>3. PICK p, q, x, y : p = vs + net /\ q = vt - tokens /\ x = rs + net /\ y = rt - tokens
      OBVIOUS
    <2>4. p \in Nat /\ q \in Nat /\ x \in Int /\ y \in Int
      BY <2>2, <2>3
    <2>5. d = [c EXCEPT !.virtual_sol = p, !.virtual_token = q, !.real_sol = x, !.real_token = y]
      BY <2>1, <2>3
    <2>6. /\ d.virtual_sol = p /\ d.virtual_token = q /\ d.real_sol = x /\ d.real_token = y
          /\ d \in Reserves
      BY <1>6, <2>4, <2>5 DEF Reserves
    <2>7. QED
      BY <2>3, <2>6
  <1>9. Invariant(d) >= Invariant(c)
    <2>1. Invariant(d) = (vs + net) * nt /\ Invariant(c) = vs * vt
      BY <1>1, <1>4, <1>5, <1>8 DEF Invariant
    <2>2. (vs + net) * nt = nt * (vs + net)
      BY <1>2, <1>4, SMT
    <2>3. QED
      BY <1>4, <2>1, <2>2
  <1>10. Invariant(d) >= Invariant(Genesis)
    <2>1. Invariant(c) >= Invariant(Genesis)
      BY DEF CurveSound
    <2>2. Invariant(c) \in Int /\ Invariant(d) \in Int /\ Invariant(Genesis) \in Int
      BY <1>6, <1>8, LedgerAssumption, SMT DEF Invariant, Reserves
    <2>3. QED
      BY <1>9, <2>1, <2>2
  <1>11. d.virtual_sol - d.real_sol = Genesis.virtual_sol - Genesis.real_sol
    <2>1. vs - rs = Genesis.virtual_sol - Genesis.real_sol
      BY <1>1 DEF CurveSound
    <2>2. QED
      BY <1>1, <1>2, <1>8, <2>1
  <1>12. d.virtual_token - d.real_token = Genesis.virtual_token - Genesis.real_token
    <2>1. vt - rt = Genesis.virtual_token - Genesis.real_token
      BY <1>1 DEF CurveSound
    <2>2. QED
      BY <1>1, <1>5, <1>8, <2>1
  <1>13. d.virtual_sol > 0 /\ d.virtual_token > 0
    BY <1>1, <1>2, <1>4, <1>5, <1>8
  <1>14. CurveSound(d)
    BY <1>8, <1>10, <1>11, <1>12, <1>13 DEF CurveSound
  <1>15. QED
    BY <1>1, <1>2, <1>5, <1>7, <1>8, <1>14

\* A sale: the tokens return to the curve, its product does not fall.
LEMMA SellSound ==
    ASSUME NEW c, CurveSound(c), NEW t \in Nat, SellOK(c, t)
    PROVE  /\ CurveSound(AfterSell(c, t))
           /\ GrossFor(c, t) \in Nat
           /\ AfterSell(c, t).virtual_token = c.virtual_token + t
           /\ AfterSell(c, t).real_sol + GrossFor(c, t) = c.real_sol
  <1>1. PICK vs \in Nat, vt \in Nat, rs \in Int, rt \in Int :
           /\ vs = c.virtual_sol /\ vt = c.virtual_token /\ rs = c.real_sol /\ rt = c.real_token
           /\ vs > 0 /\ vt > 0
    BY DEF CurveSound, Reserves
  <1>2. t > 0
    BY DEF SellOK
  <1>3. vs * vt \in Nat \ {0} /\ vt + t \in Nat \ {0}
    BY <1>1, <1>2, SMT
  <1>4. PICK ns \in Nat : /\ ns = CeilDiv(vs * vt, vt + t)
                          /\ ns * (vt + t) >= vs * vt
                          /\ ns > 0
    BY <1>3, CeilBounds
  <1>5. PICK gross \in Int : gross = vs - ns /\ gross = GrossFor(c, t) /\ gross > 0
    BY <1>1, <1>4 DEF GrossFor, Invariant, SellOK
  <1>6. c \in Reserves
    BY DEF CurveSound
  <1>7. PICK d : d = AfterSell(c, t)
    OBVIOUS
  <1>8. /\ d.virtual_sol = vs - gross /\ d.virtual_token = vt + t
        /\ d.real_sol = rs - gross /\ d.real_token = rt + t
        /\ d \in Reserves
    <2>1. d = [c EXCEPT !.virtual_sol = vs - gross, !.virtual_token = vt + t,
                        !.real_sol = rs - gross, !.real_token = rt + t]
      BY <1>1, <1>5, <1>7 DEF AfterSell
    <2>2. vs - gross \in Nat /\ vt + t \in Nat /\ rs - gross \in Int /\ rt + t \in Int
      BY <1>1, <1>4, <1>5
    <2>3. PICK p, q, x, y : p = vs - gross /\ q = vt + t /\ x = rs - gross /\ y = rt + t
      OBVIOUS
    <2>4. p \in Nat /\ q \in Nat /\ x \in Int /\ y \in Int
      BY <2>2, <2>3
    <2>5. d = [c EXCEPT !.virtual_sol = p, !.virtual_token = q, !.real_sol = x, !.real_token = y]
      BY <2>1, <2>3
    <2>6. /\ d.virtual_sol = p /\ d.virtual_token = q /\ d.real_sol = x /\ d.real_token = y
          /\ d \in Reserves
      BY <1>6, <2>4, <2>5 DEF Reserves
    <2>7. QED
      BY <2>3, <2>6
  <1>9. Invariant(d) >= Invariant(c)
    <2>1. Invariant(d) = ns * (vt + t) /\ Invariant(c) = vs * vt
      BY <1>1, <1>4, <1>5, <1>8 DEF Invariant
    <2>2. QED
      BY <1>4, <2>1
  <1>10. Invariant(d) >= Invariant(Genesis)
    <2>1. Invariant(c) >= Invariant(Genesis)
      BY DEF CurveSound
    <2>2. Invariant(c) \in Int /\ Invariant(d) \in Int /\ Invariant(Genesis) \in Int
      BY <1>6, <1>8, LedgerAssumption, SMT DEF Invariant, Reserves
    <2>3. QED
      BY <1>9, <2>1, <2>2
  <1>11. d.virtual_sol - d.real_sol = Genesis.virtual_sol - Genesis.real_sol
    <2>1. vs - rs = Genesis.virtual_sol - Genesis.real_sol
      BY <1>1 DEF CurveSound
    <2>2. QED
      BY <1>1, <1>5, <1>8, <2>1
  <1>12. d.virtual_token - d.real_token = Genesis.virtual_token - Genesis.real_token
    <2>1. vt - rt = Genesis.virtual_token - Genesis.real_token
      BY <1>1 DEF CurveSound
    <2>2. QED
      BY <1>1, <1>8, <2>1
  <1>13. d.virtual_sol > 0 /\ d.virtual_token > 0
    BY <1>1, <1>4, <1>5, <1>8
  <1>14. CurveSound(d)
    BY <1>8, <1>10, <1>11, <1>12, <1>13 DEF CurveSound
  <1>15. QED
    BY <1>1, <1>5, <1>7, <1>8, <1>14

\* Both legs of a pick: all the user's tokens return to the curve.
LEMMA LiquidationSound ==
    ASSUME NEW c, CurveSound(c), NEW u \in UserRows, LiquidationOK(c, u)
    PROVE  /\ CurveSound(AfterLiquidation(c, u))
           /\ AfterLiquidation(c, u).virtual_token = c.virtual_token + u.token
           /\ Proceeds(c, u) \in Nat
           /\ LiquidationFees(c, u) \in Nat
           /\ AfterLiquidation(c, u).real_sol + LessFee(Proceeds(c, u)) + LiquidationFees(c, u)
                = c.real_sol + u.sol
  <1>1. u.sol \in Nat /\ u.token \in Nat
    <2>1. CASE u = NoUser
      BY <2>1 DEF NoUser
    <2>2. CASE u \in [exists : {TRUE}, sol : Nat, token : Nat]
      BY <2>2
    <2>3. QED
      BY <2>1, <2>2 DEF UserRows
  <1>2. PICK f : f = IF Residual(u) THEN FeeOn(u.sol) ELSE 0
    OBVIOUS
  <1>3. PICK b, h : /\ b = BoughtIn(c, u) /\ h = Holding(c, u) /\ h \in Nat /\ CurveSound(b)
                    /\ b.virtual_token + h = c.virtual_token + u.token
                    /\ f \in Nat /\ b.real_sol + f = c.real_sol + u.sol
    <2>1. CASE Residual(u)
      <3>1. BuyOK(c, u.sol)
        BY <2>1 DEF LiquidationOK
      <3>2. PICK d, t : /\ d = AfterBuy(c, u.sol) /\ t = TokensFor(c, u.sol) /\ t \in Nat
                        /\ CurveSound(d) /\ d.virtual_token + t = c.virtual_token
                        /\ d.real_sol = c.real_sol + LessFee(u.sol)
        BY <1>1, <3>1, BuySound
      <3>3. d.virtual_token \in Nat /\ c.virtual_token \in Nat /\ c.real_sol \in Int
        BY <3>2 DEF CurveSound, Reserves
      <3>4. d.virtual_token + (u.token + t) = c.virtual_token + u.token
        BY <1>1, <3>2, <3>3
      <3>5. BoughtIn(c, u) = d /\ Holding(c, u) = u.token + t
        BY <2>1, <3>2 DEF BoughtIn, Holding
      <3>6. u.token + t \in Nat
        BY <1>1, <3>2
      <3>7. f \in Nat /\ d.real_sol + f = c.real_sol + u.sol
        <4>1. f = FeeOn(u.sol)
          BY <1>2, <2>1
        <4>2. FeeOn(u.sol) \in Nat /\ LessFee(u.sol) \in Nat
              /\ LessFee(u.sol) + FeeOn(u.sol) = u.sol
          BY <1>1, FeeBounds
        <4>3. QED
          BY <3>2, <3>3, <4>1, <4>2
      <3>8. QED
        BY <3>2, <3>4, <3>5, <3>6, <3>7
    <2>2. CASE ~Residual(u)
      <3>1. BoughtIn(c, u) = c /\ Holding(c, u) = u.token + 0
        BY <2>2 DEF BoughtIn, Holding
      <3>2. u.token + 0 = u.token
        BY <1>1
      <3>3. f = 0 /\ u.sol = 0
        BY <1>1, <1>2, <2>2 DEF Residual
      <3>4. c.real_sol + f = c.real_sol + u.sol
        BY <3>3
      <3>5. QED
        BY <1>1, <3>1, <3>2, <3>3, <3>4
    <2>3. QED
      BY <2>1, <2>2
  <1>4. SellOK(b, h)
    BY <1>3 DEF LiquidationOK
  <1>5. PICK d, p : /\ d = AfterSell(b, h) /\ p = GrossFor(b, h)
                    /\ CurveSound(d) /\ p \in Nat
                    /\ d.virtual_token = b.virtual_token + h
                    /\ d.real_sol + p = b.real_sol
    BY <1>3, <1>4, SellSound
  <1>6. d = AfterLiquidation(c, u) /\ p = Proceeds(c, u)
    BY <1>3, <1>5 DEF AfterLiquidation, Proceeds
  <1>7. FeeOn(p) \in Nat /\ LessFee(p) \in Nat /\ LessFee(p) + FeeOn(p) = p
    BY <1>5, FeeBounds
  <1>8. LiquidationFees(c, u) = FeeOn(p) + f
    BY <1>2, <1>6 DEF LiquidationFees
  <1>9. d.real_sol + LessFee(p) + (FeeOn(p) + f) = c.real_sol + u.sol
    <2>1. d.real_sol \in Int /\ b.real_sol \in Int /\ c.real_sol \in Int
      BY <1>3, <1>5 DEF CurveSound, Reserves
    <2>2. QED
      BY <1>1, <1>3, <1>5, <1>7, <2>1
  <1>10. FeeOn(p) + f \in Nat
    BY <1>3, <1>7
  <1>11. d.virtual_token = c.virtual_token + u.token
    BY <1>3, <1>5
  <1>12. QED
    BY <1>5, <1>6, <1>8, <1>9, <1>10, <1>11

-----------------------------------------------------------------------------
\* A row of users has amounts.
LEMMA UserFields ==
    ASSUME NEW u \in UserRows
    PROVE  u.sol \in Nat /\ u.token \in Nat
  <1>1. CASE u = NoUser
    BY <1>1 DEF NoUser
  <1>2. CASE u \in [exists : {TRUE}, sol : Nat, token : Nat]
    BY <1>2
  <1>3. QED
    BY <1>1, <1>2 DEF UserRows

\* When one user's row changes, the sums over the users change as much.
LEMMA RowChange ==
    ASSUME NEW us \in [Wallets -> UserRows], NEW vs \in [Wallets -> UserRows],
           NEW w \in Wallets, \A v \in Wallets : v # w => vs[v] = us[v]
    PROVE  /\ SumFunction([v \in Wallets |-> vs[v].sol])
                = SumFunction([v \in Wallets |-> us[v].sol]) + (vs[w].sol - us[w].sol)
           /\ SumFunction([v \in Wallets |-> vs[v].token])
                = SumFunction([v \in Wallets |-> us[v].token]) + (vs[w].token - us[w].token)
  <1>1. \A v \in Wallets : /\ us[v].sol \in Nat /\ us[v].token \in Nat
                           /\ vs[v].sol \in Nat /\ vs[v].token \in Nat
    BY UserFields
  <1>2. PICK f, g : f = [v \in Wallets |-> us[v].sol] /\ g = [v \in Wallets |-> vs[v].sol]
    OBVIOUS
  <1>3. /\ f \in [Wallets -> Int] /\ g \in [Wallets -> Int]
        /\ \A v \in Wallets : v # w => g[v] = f[v]
    BY <1>1, <1>2
  <1>4. SumFunction(g) = SumFunction(f) + (g[w] - f[w])
    BY <1>3, LedgerAssumption, SumChange
  <1>5. PICK h, k : h = [v \in Wallets |-> us[v].token] /\ k = [v \in Wallets |-> vs[v].token]
    OBVIOUS
  <1>6. /\ h \in [Wallets -> Int] /\ k \in [Wallets -> Int]
        /\ \A v \in Wallets : v # w => k[v] = h[v]
    BY <1>1, <1>5
  <1>7. SumFunction(k) = SumFunction(h) + (k[w] - h[w])
    BY <1>6, LedgerAssumption, SumChange
  <1>8. /\ g[w] - f[w] = vs[w].sol - us[w].sol
        /\ k[w] - h[w] = vs[w].token - us[w].token
    BY <1>2, <1>5
  <1>9. QED
    BY <1>2, <1>4, <1>5, <1>7, <1>8

\* The sums over the users are natural numbers no row exceeds.
LEMMA RowSums ==
    ASSUME NEW us \in [Wallets -> UserRows]
    PROVE  /\ SumFunction([v \in Wallets |-> us[v].sol]) \in Nat
           /\ SumFunction([v \in Wallets |-> us[v].token]) \in Nat
           /\ \A w \in Wallets : us[w].token <= SumFunction([v \in Wallets |-> us[v].token])
  <1>1. \A v \in Wallets : us[v].sol \in Nat /\ us[v].token \in Nat
    BY UserFields
  <1>2. PICK f, h : f = [v \in Wallets |-> us[v].sol] /\ h = [v \in Wallets |-> us[v].token]
    OBVIOUS
  <1>3. f \in [Wallets -> Nat] /\ h \in [Wallets -> Nat]
        /\ \A w \in Wallets : h[w] = us[w].token
    BY <1>1, <1>2
  <1>4. SumFunction(f) \in Nat /\ SumFunction(h) \in Nat
        /\ \A w \in Wallets : h[w] <= SumFunction(h)
    BY <1>3, LedgerAssumption, SumNat
  <1>5. QED
    BY <1>2, <1>3, <1>4

\* What a user holds and the curve holds is no more than there is.
LEMMA HeldBound ==
    ASSUME LedgerTypeOK, TokensAccounted
    PROVE  /\ curve.virtual_token <= Genesis.virtual_token
           /\ \A w \in Wallets : curve.virtual_token + users[w].token <= Genesis.virtual_token
  <1>1. users \in [Wallets -> UserRows] /\ curve \in Reserves
    BY DEF LedgerTypeOK
  <1>2. PICK n : n = SumFunction([v \in Wallets |-> users[v].token])
    OBVIOUS
  <1>3. n \in Nat /\ \A w \in Wallets : users[w].token <= n
    BY <1>1, <1>2, RowSums
  <1>4. \A w \in Wallets : users[w].token \in Nat
    BY <1>1, UserFields
  <1>5. curve.virtual_token \in Nat /\ Genesis.virtual_token = curve.virtual_token + n
    BY <1>1, <1>2 DEF TokensAccounted, Reserves
  <1>6. QED
    BY <1>3, <1>4, <1>5

-----------------------------------------------------------------------------
(***************************************************************************)
(* The account book.                                                       *)
(***************************************************************************)
LedgerInv ==
    /\ LedgerTypeOK
    /\ CurveSound(curve)
    /\ TokensAccounted
    /\ SolAccounted
    /\ ~complete => curve = Genesis \/ ~HasGraduated(curve, GraduationLamports)

\* The product, no lower than at the start, bounds what the curve can owe.
LEMMA SoundPays ==
    ASSUME NEW c, CurveSound(c), NEW t \in Nat,
           c.virtual_token + t <= Genesis.virtual_token
    PROVE  /\ c.real_sol >= Genesis.real_sol
           /\ Quote(c, t) <= c.real_sol
  <1>1. PICK vs \in Nat, vt \in Nat, rs \in Int :
           /\ vs = c.virtual_sol /\ vt = c.virtual_token /\ rs = c.real_sol
           /\ vs > 0 /\ vt > 0
    BY DEF CurveSound, Reserves
  <1>2. PICK gs \in Nat, gt \in Nat, gr \in Int :
           /\ gs = Genesis.virtual_sol /\ gt = Genesis.virtual_token /\ gr = Genesis.real_sol
           /\ gs > 0 /\ gt > 0 /\ gr >= 0
    BY LedgerAssumption DEF Reserves
  <1>3. vs * vt >= gs * gt /\ vs - rs = gs - gr /\ vt + t <= gt
    BY <1>1, <1>2 DEF CurveSound, Invariant
  <1>4. rs >= gr
    <2>1. vt <= gt
      BY <1>1, <1>2, <1>3
    <2>2. vs * gt >= vs * vt
      BY <1>1, <1>2, <2>1, SMT
    <2>3. vs * gt >= gs * gt
      BY <1>1, <1>2, <1>3, <2>2, SMT
    <2>4. vs >= gs
      <3>1. vs < gs => vs * gt < gs * gt
        BY <1>1, <1>2, SMT
      <3>2. QED
        BY <1>1, <1>2, <2>3, <3>1
    <2>5. QED
      BY <1>1, <1>2, <1>3, <2>4
  <1>5. vs * vt \in Nat /\ vt + t \in Nat \ {0}
    BY <1>1, SMT
  <1>6. PICK ns \in Nat : ns = CeilDiv(vs * vt, vt + t) /\ ns * (vt + t) >= vs * vt
    BY <1>5, CeilBounds
  <1>7. ns >= gs
    <2>1. gs * gt >= gs * (vt + t)
      BY <1>1, <1>2, <1>3, SMT
    <2>2. ns * (vt + t) >= gs * (vt + t)
      BY <1>1, <1>2, <1>3, <1>6, <2>1, SMT
    <2>3. ns < gs => ns * (vt + t) < gs * (vt + t)
      BY <1>2, <1>5, <1>6, SMT
    <2>4. QED
      BY <1>1, <1>2, <1>6, <2>2, <2>3, SMT
  <1>8. PICK gross \in Int : gross = GrossFor(c, t) /\ gross <= rs
    <2>1. GrossFor(c, t) = vs - ns
      BY <1>1, <1>6 DEF GrossFor, Invariant
    <2>2. vs - ns \in Int /\ vs - ns <= rs
      BY <1>1, <1>2, <1>3, <1>6, <1>7
    <2>3. QED
      BY <2>1, <2>2
  <1>9. Quote(c, t) <= rs
    <2>1. CASE t <= 0 \/ gross <= 0
      BY <1>1, <1>2, <1>4, <1>8, <2>1 DEF Quote
    <2>2. CASE ~(t <= 0 \/ gross <= 0)
      <3>1. Quote(c, t) = LessFee(gross)
        BY <1>8, <2>2 DEF Quote
      <3>2. LessFee(gross) \in Nat /\ FeeOn(gross) \in Nat /\ LessFee(gross) + FeeOn(gross) = gross
        BY <1>8, <2>2, FeeBounds
      <3>3. QED
        BY <1>8, <3>1, <3>2
    <2>3. QED
      BY <2>1, <2>2
  <1>10. QED
    BY <1>1, <1>2, <1>4, <1>9
LEMMA LedgerInitially == LedgerInit => LedgerInv
  <1> SUFFICES ASSUME LedgerInit PROVE LedgerInv
    OBVIOUS
  <1>1. LedgerTypeOK
    BY LedgerAssumption DEF LedgerInit, LedgerTypeOK, UserRows
  <1>2. CurveSound(curve)
    BY GenesisSound DEF LedgerInit
  <1>3. PICK z : z = [w \in Wallets |-> 0]
    OBVIOUS
  <1>4. /\ [w \in Wallets |-> users[w].token] = z /\ [w \in Wallets |-> users[w].sol] = z
        /\ withdrawn = z /\ deposits = [s \in Signatures |-> 0]
    BY <1>3 DEF LedgerInit, NoUser
  <1>5. SumFunction(z) = 0 /\ SumFunction(deposits) = 0
    BY <1>3, <1>4, LedgerAssumption, SumZero
  <1>6. curve = Genesis /\ fees = 0 /\ Genesis \in Reserves
    BY LedgerAssumption DEF LedgerInit
  <1>7. TokensAccounted
    BY <1>4, <1>5, <1>6 DEF TokensAccounted, Reserves
  <1>8. SolAccounted
    BY <1>4, <1>5, <1>6 DEF SolAccounted, Reserves
  <1>9. QED
    BY <1>1, <1>2, <1>6, <1>7, <1>8 DEF LedgerInv

\* A step of the book: one user's row, and with it the curve, the deposits,
\* the withdrawals and the fees change, by amounts that cancel out.
LEMMA RowKeepsAccounts ==
    ASSUME LedgerInv, LedgerTypeOK',
           NEW w \in Wallets, NEW u \in UserRows, users' = [users EXCEPT ![w] = u],
           curve'.virtual_token + u.token = curve.virtual_token + users[w].token,
           NEW x \in Int, SumFunction(deposits') = SumFunction(deposits) + x,
           NEW y \in Int, SumFunction(withdrawn') = SumFunction(withdrawn) + y,
           curve'.real_sol + fees' + u.sol + y = curve.real_sol + fees + users[w].sol + x
    PROVE  TokensAccounted' /\ SolAccounted'
  <1>1. /\ curve \in Reserves /\ curve' \in Reserves /\ fees \in Nat /\ fees' \in Nat
        /\ users \in [Wallets -> UserRows] /\ users' \in [Wallets -> UserRows]
        /\ deposits \in [Signatures -> Nat] /\ withdrawn \in [Wallets -> Nat]
    BY DEF LedgerInv, LedgerTypeOK
  <1>2. PICK us, vs : us = users /\ vs = users'
    OBVIOUS
  <1>3. /\ us \in [Wallets -> UserRows] /\ vs \in [Wallets -> UserRows]
        /\ vs[w] = u /\ \A v \in Wallets : v # w => vs[v] = us[v]
    BY <1>1, <1>2
  <1>4. PICK s0, s1, t0, t1 :
           /\ s0 = SumFunction([v \in Wallets |-> us[v].sol])
           /\ s1 = SumFunction([v \in Wallets |-> vs[v].sol])
           /\ t0 = SumFunction([v \in Wallets |-> us[v].token])
           /\ t1 = SumFunction([v \in Wallets |-> vs[v].token])
    OBVIOUS
  <1>5. s0 \in Nat /\ t0 \in Nat
    BY <1>3, <1>4, RowSums
  <1>6. s1 = s0 + (vs[w].sol - us[w].sol) /\ t1 = t0 + (vs[w].token - us[w].token)
    BY <1>3, <1>4, RowChange
  <1>7. PICK a \in Nat, b \in Nat, c \in Nat, d \in Nat :
           a = us[w].sol /\ b = vs[w].sol /\ c = us[w].token /\ d = vs[w].token
    BY <1>3, UserFields
  <1>8. PICK D \in Nat, W \in Nat : D = SumFunction(deposits) /\ W = SumFunction(withdrawn)
    BY <1>1, LedgerAssumption, SumNat
  <1>9. TokensAccounted'
    <2>1. PICK p \in Int, q \in Int : p = curve.virtual_token /\ q = curve'.virtual_token
      BY <1>1 DEF Reserves
    <2>2. Genesis.virtual_token = p + t0
      BY <1>2, <1>4, <2>1 DEF LedgerInv, TokensAccounted
    <2>3. q + d = p + c
      <3>1. u.token = d /\ users[w].token = c
        BY <1>2, <1>3, <1>7
      <3>2. QED
        BY <2>1, <3>1
    <2>4. p + t0 = q + t1
      <3>1. t1 = t0 + (d - c)
        BY <1>6, <1>7
      <3>2. QED
        BY <1>5, <2>3, <3>1
    <2>5. QED
      BY <1>2, <1>4, <2>1, <2>2, <2>4 DEF TokensAccounted
  <1>10. SolAccounted'
    <2>1. PICK p \in Int, q \in Int, e \in Int, f \in Int :
             p = curve.real_sol /\ q = curve'.real_sol /\ e = fees /\ f = fees'
      BY <1>1 DEF Reserves
    <2>2. PICK g \in Int : g = Genesis.real_sol
      BY LedgerAssumption DEF Reserves
    <2>3. g + D = p + e + s0 + W
      <3>1. Genesis.real_sol + SumFunction(deposits)
              = curve.real_sol + fees + s0 + SumFunction(withdrawn)
        BY <1>2, <1>4 DEF LedgerInv, SolAccounted
      <3>2. QED
        BY <1>8, <2>1, <2>2, <3>1
    <2>4. q + f + b + y = p + e + a + x
      BY <1>2, <1>3, <1>7, <2>1
    <2>5. s1 = s0 + (b - a)
      BY <1>6, <1>7
    <2>6. g + (D + x) = q + f + s1 + (W + y)
      BY <1>5, <2>3, <2>4, <2>5
    <2>7. SumFunction(deposits') = D + x /\ SumFunction(withdrawn') = W + y
      BY <1>8
    <2>8. QED
      BY <1>2, <1>4, <2>1, <2>2, <2>6, <2>7 DEF SolAccounted
  <1>11. QED
    BY <1>9, <1>10

\* A trade: the curve and one user's row change; no token is lost, and what
\* the user paid in is in the curve, in the row or among the fees.
LEMMA TradeKeepsBook ==
    ASSUME LedgerInv, NEW d, CurveSound(d), BookCurve(d),
           NEW w \in Wallets, NEW u \in UserRows, users' = [users EXCEPT ![w] = u],
           d.virtual_token + u.token = curve.virtual_token + users[w].token,
           deposits' \in [Signatures -> Nat], withdrawn' = withdrawn, fees' \in Nat,
           NEW x \in Int, SumFunction(deposits') = SumFunction(deposits) + x,
           d.real_sol + fees' + u.sol = curve.real_sol + fees + users[w].sol + x
    PROVE  LedgerInv'
  <1>1. curve' = d /\ complete' \in BOOLEAN /\ complete' = HasGraduated(d, GraduationLamports)
    BY DEF BookCurve, HasGraduated
  <1>2. curve \in Reserves /\ d \in Reserves /\ users \in [Wallets -> UserRows]
    BY DEF LedgerInv, LedgerTypeOK, CurveSound
  <1>3. LedgerTypeOK'
    BY <1>1, <1>2 DEF LedgerInv, LedgerTypeOK
  <1>4. CurveSound(curve)'
    BY <1>1 DEF CurveSound
  <1>5. TokensAccounted' /\ SolAccounted'
    <2>1. SumFunction(withdrawn') = SumFunction(withdrawn) + 0
      <3>1. withdrawn \in [Wallets -> Nat]
        BY DEF LedgerInv, LedgerTypeOK
      <3>2. SumFunction(withdrawn) \in Nat
        BY <3>1, LedgerAssumption, SumNat
      <3>3. QED
        BY <3>2
    <2>2. u.sol \in Nat /\ d.real_sol \in Int /\ fees' \in Nat
      BY <1>2, UserFields DEF Reserves
    <2>3. curve'.real_sol + fees' + u.sol + 0 = curve.real_sol + fees + users[w].sol + x
      BY <1>1, <2>2
    <2>4. curve'.virtual_token + u.token = curve.virtual_token + users[w].token
      BY <1>1
    <2>5. 0 \in Int
      OBVIOUS
    <2>6. QED
      BY <1>3, <2>1, <2>3, <2>4, <2>5, RowKeepsAccounts
  <1>6. ~complete' => ~HasGraduated(curve', GraduationLamports)
    BY <1>1 DEF HasGraduated
  <1>7. (~complete => curve = Genesis \/ ~HasGraduated(curve, GraduationLamports))'
    BY <1>6 DEF HasGraduated
  <1>8. QED
    BY <1>3, <1>4, <1>5, <1>7 DEF LedgerInv

LEMMA DepositKeepsBook ==
    ASSUME LedgerInv, NEW w \in Wallets, NEW sig \in Signatures, NEW amount \in DepositAmounts,
           BookDeposit(w, sig, amount)
    PROVE  LedgerInv'
  <1>1. amount \in Nat /\ users[w] \in UserRows /\ users[w].sol \in Nat /\ users[w].token \in Nat
    BY LedgerAssumption, UserFields DEF LedgerInv, LedgerTypeOK
  <1>2. PICK d, t : /\ d = AfterBuy(curve, amount) /\ t = TokensFor(curve, amount)
                    /\ CurveSound(d) /\ t \in Nat /\ d.virtual_token + t = curve.virtual_token
                    /\ d.real_sol = curve.real_sol + LessFee(amount)
    BY <1>1, BuySound DEF LedgerInv, BookDeposit
  <1>3. PICK u : u = User(users[w].sol, users[w].token + t)
    OBVIOUS
  <1>4. u \in UserRows /\ u.token = users[w].token + t /\ u.sol = users[w].sol
    BY <1>1, <1>2, <1>3 DEF User, UserRows
  <1>5. users' = [users EXCEPT ![w] = u]
    BY <1>2, <1>3 DEF BookDeposit
  <1>6. d.virtual_token + u.token = curve.virtual_token + users[w].token
    BY <1>1, <1>2, <1>4 DEF CurveSound, Reserves
  <1>7. BookCurve(d) /\ withdrawn' = withdrawn /\ deposits' \in [Signatures -> Nat]
    BY <1>1, <1>2 DEF BookDeposit, LedgerInv, LedgerTypeOK
  <1>8. FeeOn(amount) \in Nat /\ LessFee(amount) \in Nat /\ LessFee(amount) + FeeOn(amount) = amount
    BY <1>1, FeeBounds
  <1>9. fees \in Nat /\ fees' = fees + FeeOn(amount) /\ fees' \in Nat
    BY <1>8 DEF BookDeposit, LedgerInv, LedgerTypeOK
  <1>10. SumFunction(deposits') = SumFunction(deposits) + amount
    <2>1. PICK f, g : f = deposits /\ g = deposits'
      OBVIOUS
    <2>2. /\ f \in [Signatures -> Int] /\ g \in [Signatures -> Int]
          /\ \A z \in Signatures : z # sig => g[z] = f[z]
          /\ f[sig] = 0 /\ g[sig] = amount
      BY <1>1, <2>1 DEF BookDeposit, LedgerInv, LedgerTypeOK
    <2>3. SumFunction(g) = SumFunction(f) + (g[sig] - f[sig])
      BY <2>2, LedgerAssumption, SumChange
    <2>4. QED
      BY <1>1, <2>1, <2>2, <2>3
  <1>11. d.real_sol + fees' + u.sol = curve.real_sol + fees + users[w].sol + amount
    <2>1. curve.real_sol \in Int
      BY DEF LedgerInv, LedgerTypeOK, Reserves
    <2>2. QED
      BY <1>1, <1>2, <1>4, <1>8, <1>9, <2>1
  <1>12. amount \in Int
    BY <1>1
  <1>13. QED
    BY <1>2, <1>4, <1>5, <1>6, <1>7, <1>9, <1>10, <1>11, <1>12, TradeKeepsBook

LEMMA PickKeepsBook ==
    ASSUME LedgerInv, NEW w \in Wallets, BookPick(w)
    PROVE  LedgerInv'
  <1>1. users[w] \in UserRows /\ users[w].token \in Nat /\ users[w].sol \in Nat
    BY UserFields DEF LedgerInv, LedgerTypeOK
  <1>2. PICK d, p, f : /\ d = AfterLiquidation(curve, users[w])
                       /\ p = Proceeds(curve, users[w]) /\ f = LiquidationFees(curve, users[w])
                       /\ CurveSound(d) /\ p \in Nat /\ f \in Nat
                       /\ d.virtual_token = curve.virtual_token + users[w].token
                       /\ d.real_sol + LessFee(p) + f = curve.real_sol + users[w].sol
    BY <1>1, LiquidationSound DEF LedgerInv, BookPick
  <1>3. PICK u : u = User(LessFee(p), 0)
    OBVIOUS
  <1>4. u \in UserRows /\ u.token = 0 /\ u.sol = LessFee(p) /\ LessFee(p) \in Nat
    BY <1>2, <1>3, FeeBounds DEF User, UserRows
  <1>5. users' = [users EXCEPT ![w] = u]
    BY <1>2, <1>3 DEF BookPick
  <1>6. d.virtual_token + u.token = curve.virtual_token + users[w].token
    BY <1>1, <1>2, <1>4 DEF CurveSound, Reserves
  <1>7. /\ BookCurve(d) /\ withdrawn' = withdrawn /\ deposits' \in [Signatures -> Nat]
        /\ deposits' = deposits /\ fees \in Nat /\ fees' = fees + f /\ fees' \in Nat
    BY <1>2 DEF BookPick, LedgerInv, LedgerTypeOK
  <1>8. SumFunction(deposits') = SumFunction(deposits) + 0
    <2>1. SumFunction(deposits) \in Nat
      BY LedgerAssumption, SumNat DEF LedgerInv, LedgerTypeOK
    <2>2. QED
      BY <1>7, <2>1
  <1>9. d.real_sol + fees' + u.sol = curve.real_sol + fees + users[w].sol + 0
    <2>1. curve.real_sol \in Int /\ d.real_sol \in Int
      BY <1>2 DEF LedgerInv, LedgerTypeOK, CurveSound, Reserves
    <2>2. QED
      BY <1>1, <1>2, <1>4, <1>7, <2>1
  <1>10. 0 \in Int
    OBVIOUS
  <1>11. QED
    BY <1>2, <1>4, <1>5, <1>6, <1>7, <1>8, <1>9, <1>10, TradeKeepsBook

LEMMA WithdrawalKeepsBook ==
    ASSUME LedgerInv, NEW w \in Wallets, NEW amount \in WithdrawalAmounts, BookWithdrawal(w, amount)
    PROVE  LedgerInv'
  <1>1. /\ amount \in Nat /\ users[w] \in UserRows /\ curve \in Reserves
        /\ users \in [Wallets -> UserRows] /\ withdrawn \in [Wallets -> Nat]
        /\ deposits \in [Signatures -> Nat] /\ fees \in Nat
    BY LedgerAssumption DEF LedgerInv, LedgerTypeOK
  <1>2. PICK u : u = [users[w] EXCEPT !.sol = @ - amount]
    OBVIOUS
  <1>3. /\ u \in UserRows /\ u.token = users[w].token /\ users[w].token \in Nat
        /\ users[w].sol \in Nat /\ u.sol = users[w].sol - amount
    <2>1. amount > 0 /\ amount <= users[w].sol
      BY LedgerAssumption DEF BookWithdrawal
    <2>2. users[w] # NoUser
      BY <1>1, <2>1 DEF NoUser
    <2>3. users[w] \in [exists : {TRUE}, sol : Nat, token : Nat]
      BY <1>1, <2>2 DEF UserRows
    <2>4. users[w].sol - amount \in Nat
      BY <1>1, <2>1, <2>3
    <2>5. u \in [exists : {TRUE}, sol : Nat, token : Nat] /\ u.token = users[w].token
          /\ u.sol = users[w].sol - amount
      BY <1>2, <2>3, <2>4
    <2>6. QED
      BY <2>3, <2>5 DEF UserRows
  <1>4. users' = [users EXCEPT ![w] = u]
    BY <1>2 DEF BookWithdrawal
  <1>5. LedgerTypeOK' /\ CurveSound(curve)'
    BY <1>1, <1>3, <1>4 DEF BookWithdrawal, LedgerInv, LedgerTypeOK, CurveSound
  <1>6. UNCHANGED <<curve, complete, deposits, fees>>
    BY DEF BookWithdrawal
  <1>7. SumFunction(withdrawn') = SumFunction(withdrawn) + amount
    <2>1. PICK f, g : f = withdrawn /\ g = withdrawn'
      OBVIOUS
    <2>2. /\ f \in [Wallets -> Int] /\ g \in [Wallets -> Int]
          /\ \A z \in Wallets : z # w => g[z] = f[z]
          /\ f[w] \in Int /\ g[w] = f[w] + amount
      BY <1>1, <2>1 DEF BookWithdrawal
    <2>3. SumFunction(g) = SumFunction(f) + (g[w] - f[w])
      BY <2>2, LedgerAssumption, SumChange
    <2>4. g[w] - f[w] = amount
      BY <1>1, <2>2
    <2>5. QED
      BY <2>1, <2>3, <2>4
  <1>8. SumFunction(deposits') = SumFunction(deposits) + 0
    <2>1. SumFunction(deposits) \in Nat
      BY <1>1, LedgerAssumption, SumNat
    <2>2. QED
      BY <1>6, <2>1
  <1>9. /\ curve'.real_sol + fees' + u.sol + amount = curve.real_sol + fees + users[w].sol + 0
        /\ curve'.virtual_token + u.token = curve.virtual_token + users[w].token
    <2>1. curve.real_sol \in Int
      BY <1>1 DEF Reserves
    <2>2. QED
      BY <1>1, <1>3, <1>6, <2>1
  <1>10. 0 \in Int /\ amount \in Int
    BY <1>1
  <1>11. TokensAccounted' /\ SolAccounted'
    BY <1>3, <1>4, <1>5, <1>7, <1>8, <1>9, <1>10, RowKeepsAccounts
  <1>12. (~complete => curve = Genesis \/ ~HasGraduated(curve, GraduationLamports))'
    BY <1>6 DEF LedgerInv, HasGraduated
  <1>13. QED
    BY <1>5, <1>11, <1>12 DEF LedgerInv

LEMMA LedgerStep == LedgerInv /\ [LedgerNext]_ledgerVars => LedgerInv'
  <1> SUFFICES ASSUME LedgerInv, [LedgerNext]_ledgerVars PROVE LedgerInv'
    OBVIOUS
  <1>1. CASE LedgerNext
    BY <1>1, DepositKeepsBook, PickKeepsBook, WithdrawalKeepsBook DEF LedgerNext
  <1>2. CASE UNCHANGED ledgerVars
    BY <1>2 DEF ledgerVars, LedgerInv, LedgerTypeOK, CurveSound, TokensAccounted,
       SolAccounted, HasGraduated
  <1>3. QED
    BY <1>1, <1>2

LEMMA BookKept == LedgerSpec => []LedgerInv
  BY LedgerInitially, LedgerStep, PTL DEF LedgerSpec
\* In the account book, and so in all that implements it, the tables keep
\* their types.
THEOREM BookTypes == LedgerSpec => []LedgerTypeOK
  BY BookKept, PTL DEF LedgerInv

LEMMA BookPays == LedgerInv => QuotesPayable
  <1> SUFFICES ASSUME LedgerInv
               PROVE  /\ curve.real_sol >= Genesis.real_sol
                      /\ \A w \in Wallets : Quote(curve, users[w].token) <= curve.real_sol
    BY DEF QuotesPayable
  <1>1. \A w \in Wallets : users[w].token \in Nat
    BY UserFields DEF LedgerInv, LedgerTypeOK
  <1>2. CurveSound(curve) /\ LedgerTypeOK /\ TokensAccounted
    BY DEF LedgerInv
  <1>3. \A w \in Wallets : Quote(curve, users[w].token) <= curve.real_sol
    <2> TAKE w \in Wallets
    <2>1. users[w].token \in Nat /\ curve.virtual_token + users[w].token <= Genesis.virtual_token
      BY <1>1, <1>2, HeldBound
    <2>2. QED
      BY <1>2, <2>1, SoundPays
  <1>4. curve.real_sol >= Genesis.real_sol
    <2>1. curve.virtual_token <= Genesis.virtual_token /\ curve.virtual_token \in Nat
      BY <1>2, HeldBound DEF LedgerTypeOK, Reserves
    <2>2. 0 \in Nat /\ curve.virtual_token + 0 <= Genesis.virtual_token
      BY <2>1, LedgerAssumption DEF Reserves
    <2>3. QED
      BY <1>2, <2>2, SoundPays
  <1>5. QED
    BY <1>3, <1>4

\* Any quote can be paid from the curve's real SOL, which never falls below
\* what it started with.
THEOREM BookQuotesPayable == LedgerSpec => []QuotesPayable
  BY BookKept, BookPays, PTL

\* A curve below its graduation still has tokens to sell: the hyperbola it
\* is on does not reach the end of the seeded tokens before that.
LEMMA BookSoldOut == SeedSuffices /\ LedgerInv => SoldOutIsClosed
  <1> SUFFICES ASSUME SeedSuffices, LedgerInv, curve.real_token <= 0, ~complete
               PROVE  FALSE
    BY DEF SoldOutIsClosed, LedgerInv, LedgerTypeOK
  <1>1. PICK vs \in Nat, vt \in Nat, rs \in Int, rt \in Int :
           /\ vs = curve.virtual_sol /\ vt = curve.virtual_token
           /\ rs = curve.real_sol /\ rt = curve.real_token
    BY DEF LedgerInv, LedgerTypeOK, Reserves
  <1>2. PICK gs \in Nat, gt \in Nat, gr \in Int, gk \in Int :
           /\ gs = Genesis.virtual_sol /\ gt = Genesis.virtual_token
           /\ gr = Genesis.real_sol /\ gk = Genesis.real_token
    BY LedgerAssumption DEF Reserves
  <1>3. /\ vs > 0 /\ vt > 0 /\ vs - rs = gs - gr /\ vt - rt = gt - gk
        /\ vs * vt >= gs * gt
    BY <1>1, <1>2 DEF LedgerInv, CurveSound, Invariant
  <1>4. gk > 0 /\ (gs - gr + GraduationLamports - 1) * (gt - gk) < gs * gt
    BY <1>2 DEF SeedSuffices, Invariant
  <1>5. rt <= 0 /\ rs < GraduationLamports
    <2>1. rt <= 0
      BY <1>1
    <2>2. curve # Genesis
      BY <1>1, <1>2, <1>4, <2>1
    <2>3. ~HasGraduated(curve, GraduationLamports)
      BY <2>2 DEF LedgerInv
    <2>4. QED
      BY <1>1, <2>1, <2>3, LedgerAssumption DEF HasGraduated
  <1>6. PICK a \in Int, b \in Int : a = gs - gr + GraduationLamports - 1 /\ b = gt - gk
    BY LedgerAssumption
  <1>7. vs <= a /\ vt <= b
    BY <1>3, <1>5, <1>6, LedgerAssumption
  <1>8. vs * vt <= a * b
    <2>1. a \in Nat /\ b \in Nat
      BY <1>7
    <2>2. vs * vt <= a * vt
      BY <1>7, <2>1, SMT
    <2>3. a * vt <= a * b
      BY <1>7, <2>1, SMT
    <2>4. vs * vt \in Nat /\ a * vt \in Nat /\ a * b \in Nat
      BY <2>1, SMT
    <2>5. QED
      BY <2>2, <2>3, <2>4
  <1>9. a * b < gs * gt
    BY <1>4, <1>6
  <1>10. vs * vt \in Int /\ a * b \in Int /\ gs * gt \in Int
    BY SMT
  <1>11. QED
    BY <1>3, <1>8, <1>9, <1>10

\* Every lamport deposited is in the curve, in a balance, in a withdrawal or
\* among the fees, once.
THEOREM BookSolAccounted == LedgerSpec => []SolAccounted
  BY BookKept, PTL DEF LedgerInv

\* The users' tokens are those missing from the curve.
THEOREM BookTokensAccounted == LedgerSpec => []TokensAccounted
  BY BookKept, PTL DEF LedgerInv

\* The reserves and the graduation of config.ts suffice, whatever a SOL is
\* in lamports and a token in base units: 30 SOL against 1073 million tokens,
\* 793.1 million of them real, and a graduation at 85 SOL.
LEMMA ConfigSuffices ==
    ASSUME NEW sol \in Nat \ {0}, NEW tok \in Nat \ {0},
           Genesis.virtual_sol = 30 * sol, Genesis.virtual_token = 1073000000 * tok,
           Genesis.real_sol = 0, Genesis.real_token = 793100000 * tok,
           GraduationLamports = 85 * sol
    PROVE  SeedSuffices
  <1>1. PICK p \in Nat \ {0} : p = sol * tok
    BY SMT
  <1>2. (30 * sol - 0 + 85 * sol - 1) * (1073000000 * tok - 793100000 * tok)
          = 32188500000 * p - 279900000 * tok
    <2>1. 30 * sol - 0 + 85 * sol - 1 = 115 * sol - 1
          /\ 1073000000 * tok - 793100000 * tok = 279900000 * tok
      BY SMT
    <2>2. (115 * sol - 1) * (279900000 * tok) = 32188500000 * (sol * tok) - 279900000 * tok
      BY SMT
    <2>3. QED
      BY <1>1, <2>1, <2>2
  <1>3. (30 * sol) * (1073000000 * tok) = 32190000000 * p
    BY <1>1, SMT
  <1>4. 32188500000 * p - 279900000 * tok < 32190000000 * p
    BY SMT
  <1>5. 793100000 * tok > 0
    BY SMT
  <1>6. QED
    BY <1>2, <1>3, <1>4, <1>5 DEF SeedSuffices, Invariant

\* When the seeded reserves suffice, as config.ts's do, a curve without
\* tokens left has graduated and sells no more of them.
THEOREM BookSoldOutIsClosed ==
    ASSUME SeedSuffices
    PROVE  LedgerSpec => []SoldOutIsClosed
  <1>1. LedgerInv => SoldOutIsClosed
    BY BookSoldOut
  <1>2. QED
    BY <1>1, BookKept, PTL

\* After the graduation no trade happens.
THEOREM BookClosed == LedgerSpec => ClosedOnceComplete
  <1>1. [LedgerNext]_ledgerVars => [complete => UNCHANGED <<curve, complete, deposits, fees>>]_ledgerVars
    BY DEF LedgerNext, ledgerVars, BookDeposit, BookPick, BookWithdrawal
  <1>2. QED
    BY <1>1, PTL DEF LedgerSpec, ClosedOnceComplete
-----------------------------------------------------------------------------
(***************************************************************************)
(* The engine.                                                             *)
(***************************************************************************)
Steps == {"idle", "prior", "lock", "transaction", "closed", "user", "chosen", "trade",
          "cache", "late cache", "commit", "flush", "release",
          "withdraw", "debit", "refresh", "late refresh", "commit withdrawal"}

RequestRows ==
    [step : Steps, kind : {"none", "deposit", "pick", "withdrawal"},
     wallet : Wallets \cup {Nobody}, sig : Signatures \cup {Nobody},
     amount : DepositAmounts \cup WithdrawalAmounts \cup {0},
     curve : Reserves, user : UserRows, fee : Nat]

RequestsTyped ==
    /\ request \in [Requests -> RequestRows]
    /\ lock \in Requests \cup {Nobody, Crashed}
    /\ curveRow \in Requests \cup {Nobody}
    /\ userRow \in [Wallets -> Requests \cup {Nobody}]

\* What request r was asked for.
Asks(r) ==
    LET q == request[r]
    IN  /\ q.kind = "deposit" => q.wallet \in Wallets /\ q.sig \in Signatures /\ q.amount \in DepositAmounts
        /\ q.kind = "withdrawal" => q.wallet \in Wallets /\ q.amount \in WithdrawalAmounts
        /\ q.kind = "pick" /\ q.step \in {"chosen", "trade", "cache", "commit", "flush"}
             => q.wallet \in Wallets
        /\ q.step = "prior" => q.kind = "deposit"
        /\ q.step \in {"lock", "transaction", "user", "trade", "cache", "commit", "flush"}
             => q.kind \in {"deposit", "pick"}
        /\ q.step = "chosen" => q.kind = "pick"
        /\ q.step \in {"withdraw", "debit", "refresh", "commit withdrawal"} => q.kind = "withdrawal"

\* The rows request r has locked, and what it has read under these locks.
Holds(r) ==
    LET q == request[r]
    IN  /\ q.step \in {"user", "chosen", "trade", "cache", "commit"} => curveRow = r /\ ~complete
        /\ q.step \in {"user", "chosen", "trade"} => q.curve = curve
        /\ q.step \in {"trade", "cache", "commit", "debit", "refresh", "commit withdrawal"}
             => userRow[q.wallet] = r
        /\ q.step \in {"trade", "cache", "commit"} /\ q.kind = "deposit" => deposits[q.sig] = 0
        /\ q.step = "trade" /\ q.kind = "pick" => q.user = users[q.wallet] /\ q.user.token > 0
        /\ q.step \in {"debit", "refresh", "commit withdrawal"} => q.amount <= users[q.wallet].sol

\* What request r is about to commit.
Computed(r) ==
    LET q == request[r]
        u == users[q.wallet]
    IN  /\ q.step \in {"cache", "commit"} /\ q.kind = "deposit" =>
             /\ BuyOK(curve, q.amount)
             /\ q.curve = AfterBuy(curve, q.amount)
             /\ q.user = User(u.sol, u.token + TokensFor(curve, q.amount))
             /\ q.fee = FeeOn(q.amount)
        /\ q.step \in {"cache", "commit"} /\ q.kind = "pick" =>
             /\ u.token > 0
             /\ LiquidationOK(curve, u)
             /\ q.curve = AfterLiquidation(curve, u)
             /\ q.user = User(LessFee(Proceeds(curve, u)), 0)
             /\ q.fee = LiquidationFees(curve, u)
        /\ q.step \in {"refresh", "commit withdrawal"} => q.user = [u EXCEPT !.sol = @ - q.amount]

RequestSound(r) == Asks(r) /\ Holds(r) /\ Computed(r)

EngineInv ==
    /\ LedgerInv
    /\ RequestsTyped
    /\ \A r \in Requests : RequestSound(r)

\* A step of another request leaves request o and the rows it has locked alone.
Apart(o) ==
    /\ request'[o] = request[o]
    /\ curveRow = o => UNCHANGED <<curve, complete, deposits, curveRow>>
    /\ \A w \in Wallets : userRow[w] = o => users'[w] = users[w] /\ userRow'[w] = userRow[w]

LEMMA ApartSound ==
    ASSUME NEW o \in Requests, RequestSound(o), request[o] \in RequestRows, Apart(o)
    PROVE  RequestSound(o)'
  <1>1. PICK q \in RequestRows : q = request[o] /\ request'[o] = q
    BY DEF Apart
  <1>2. Asks(o)'
    BY <1>1 DEF RequestSound, Asks
  <1>3. q.step \in {"user", "chosen", "trade", "cache", "commit"}
          => curveRow = o /\ UNCHANGED <<curve, complete, deposits, curveRow>>
    BY <1>1 DEF RequestSound, Holds, Apart
  <1>4. q.step \in {"trade", "cache", "commit", "debit", "refresh", "commit withdrawal"}
          => /\ q.wallet \in Wallets /\ userRow[q.wallet] = o
             /\ users'[q.wallet] = users[q.wallet] /\ userRow'[q.wallet] = o
    <2>1. q.step \in {"trade", "cache", "commit", "debit", "refresh", "commit withdrawal"}
            => q.wallet \in Wallets /\ userRow[q.wallet] = o
      BY <1>1 DEF RequestSound, Asks, Holds
    <2>2. QED
      BY <2>1 DEF Apart
  <1>5. Holds(o)'
    <2>1. Holds(o)
      BY DEF RequestSound
    <2>2. q.step \in {"user", "chosen", "trade", "cache", "commit"} => ~complete'
      <3>1. q.step \in {"user", "chosen", "trade", "cache", "commit"}
              => ~complete /\ complete' = complete
        BY <1>1, <1>3, <2>1, Zenon DEF Holds
      <3>2. (complete' = complete /\ ~complete) => ~complete'
        BY Zenon
      <3>3. QED
        BY <3>1, <3>2, Zenon
    <2>3. /\ q.step \in {"user", "chosen", "trade", "cache", "commit"} => curveRow' = o
          /\ q.step \in {"user", "chosen", "trade"} => q.curve = curve'
          /\ q.step \in {"trade", "cache", "commit"} /\ q.kind = "deposit" => deposits'[q.sig] = 0
      BY <1>1, <1>3, <2>1 DEF Holds
    <2>4. /\ q.step \in {"trade", "cache", "commit", "debit", "refresh", "commit withdrawal"}
               => userRow'[q.wallet] = o
          /\ q.step = "trade" /\ q.kind = "pick" => q.user = users'[q.wallet] /\ q.user.token > 0
          /\ q.step \in {"debit", "refresh", "commit withdrawal"} => q.amount <= users'[q.wallet].sol
      BY <1>1, <1>4, <2>1 DEF Holds
    <2>5. QED
      BY <1>1, <2>2, <2>3, <2>4 DEF Holds
  <1>6. Computed(o)'
    BY <1>1, <1>3, <1>4 DEF RequestSound, Computed
  <1>7. QED
    BY <1>2, <1>5, <1>6 DEF RequestSound

LEMMA StepSound ==
    ASSUME EngineInv, NEW r \in Requests, [LedgerNext]_ledgerVars, RequestsTyped',
           RequestSound(r)', \A o \in Requests \ {r} : Apart(o)
    PROVE  EngineInv'
  <1>1. LedgerInv'
    BY LedgerStep DEF EngineInv
  <1>2. \A o \in Requests \ {r} : RequestSound(o)'
    <2> TAKE o \in Requests \ {r}
    <2>1. RequestSound(o) /\ request[o] \in RequestRows /\ Apart(o)
      BY DEF EngineInv, RequestsTyped
    <2>2. QED
      BY <2>1, ApartSound
  <1>3. QED
    BY <1>1, <1>2 DEF EngineInv
LEMMA SetRequest ==
    ASSUME request \in [Requests -> RequestRows], NEW r \in Requests, NEW q \in RequestRows,
           request' = [request EXCEPT ![r] = q]
    PROVE  /\ request' \in [Requests -> RequestRows]
           /\ request'[r] = q
           /\ \A o \in Requests \ {r} : request'[o] = request[o]
  OBVIOUS

LEMMA IdleRow == Idle \in RequestRows
  BY LedgerAssumption DEF Idle, RequestRows, Steps, UserRows

LEMMA MovedRow ==
    ASSUME NEW q \in RequestRows, NEW s \in Steps
    PROVE  [q EXCEPT !.step = s] \in RequestRows
  BY DEF RequestRows

LEMMA Unlocked ==
    ASSUME RequestsTyped, NEW r \in Requests, UnlockRows(r)
    PROVE  /\ curveRow' \in Requests \cup {Nobody}
           /\ userRow' \in [Wallets -> Requests \cup {Nobody}]
           /\ \A o \in Requests \ {r} :
                /\ curveRow = o => curveRow' = curveRow
                /\ \A w \in Wallets : userRow[w] = o => userRow'[w] = userRow[w]
  BY DEF RequestsTyped, UnlockRows

\* A request that ends, or fails, leaves nothing behind.
LEMMA EndSound ==
    ASSUME EngineInv, NEW r \in Requests, End(r), UNCHANGED ledgerVars, UnlockRows(r),
           lock' \in Requests \cup {Nobody, Crashed}
    PROVE  EngineInv'
  <1>1. RequestsTyped
    BY DEF EngineInv
  <1>2. /\ request' \in [Requests -> RequestRows] /\ request'[r] = Idle
        /\ \A o \in Requests \ {r} : request'[o] = request[o]
    BY <1>1, IdleRow, SetRequest DEF End, RequestsTyped
  <1>3. RequestsTyped'
    BY <1>1, <1>2, Unlocked DEF RequestsTyped
  <1>4. RequestSound(r)'
    BY <1>2 DEF RequestSound, Asks, Holds, Computed, Idle
  <1>5. \A o \in Requests \ {r} : Apart(o)
    BY <1>1, <1>2, Unlocked DEF Apart, ledgerVars
  <1>6. QED
    BY <1>3, <1>4, <1>5, StepSound

\* So does one whose transaction is closed.
LEMMA ClosedSound ==
    ASSUME EngineInv, NEW r \in Requests, NEW s \in {"release", "late cache", "late refresh"},
           Goto(r, s), UnlockRows(r), UNCHANGED <<ledgerVars, lock>>
    PROVE  EngineInv'
  <1>1. RequestsTyped /\ s \in Steps
    BY DEF EngineInv, Steps
  <1>2. PICK q \in RequestRows : q = [request[r] EXCEPT !.step = s]
    BY <1>1, MovedRow DEF RequestsTyped
  <1>3. q.step = s /\ q.kind = request[r].kind /\ q.wallet = request[r].wallet
        /\ q.sig = request[r].sig /\ q.amount = request[r].amount
    BY <1>1, <1>2 DEF RequestsTyped, RequestRows
  <1>4. request' = [request EXCEPT ![r] = q]
    BY <1>1, <1>2 DEF Goto, RequestsTyped
  <1>5. /\ request' \in [Requests -> RequestRows] /\ request'[r] = q
        /\ \A o \in Requests \ {r} : request'[o] = request[o]
    BY <1>1, <1>4, SetRequest DEF RequestsTyped
  <1>6. RequestsTyped'
    BY <1>1, <1>5, Unlocked DEF RequestsTyped
  <1>7. RequestSound(r)'
    <2>1. Asks(r)
      BY DEF EngineInv, RequestSound
    <2>2. QED
      BY <1>3, <1>5, <2>1 DEF RequestSound, Asks, Holds, Computed
  <1>8. \A o \in Requests \ {r} : Apart(o)
    BY <1>1, <1>5, Unlocked DEF Apart, ledgerVars
  <1>9. QED
    BY <1>6, <1>7, <1>8, StepSound

LEMMA FailSound ==
    ASSUME EngineInv, NEW r \in Requests, Fail(r)
    PROVE  EngineInv'
  BY ClosedSound DEF Fail

\* A step that reads and writes only its own state and the lock of the curve.
LEMMA OwnStepSound ==
    ASSUME EngineInv, NEW r \in Requests, NEW q \in RequestRows,
           request' = [request EXCEPT ![r] = q],
           UNCHANGED <<ledgerVars, curveRow, userRow>>,
           lock' \in Requests \cup {Nobody, Crashed},
           request'[r] = q => RequestSound(r)'
    PROVE  EngineInv'
  <1>1. RequestsTyped
    BY DEF EngineInv
  <1>2. /\ request' \in [Requests -> RequestRows] /\ request'[r] = q
        /\ \A o \in Requests \ {r} : request'[o] = request[o]
    BY <1>1, SetRequest DEF RequestsTyped
  <1>3. RequestsTyped'
    BY <1>1, <1>2 DEF RequestsTyped
  <1>4. \A o \in Requests \ {r} : Apart(o)
    BY <1>2 DEF Apart, ledgerVars
  <1>5. QED
    BY <1>2, <1>3, <1>4, StepSound
LEMMA GotoSound ==
    ASSUME EngineInv, NEW r \in Requests, NEW s \in {"lock", "transaction", "release"},
           Goto(r, s), UNCHANGED <<ledgerVars, curveRow, userRow>>,
           lock' \in Requests \cup {Nobody, Crashed},
           s # "release" => request[r].kind \in {"deposit", "pick"}
    PROVE  EngineInv'
  <1>1. PICK q \in RequestRows : q = [request[r] EXCEPT !.step = s]
    BY MovedRow DEF EngineInv, RequestsTyped, Steps
  <1>2. q.step = s /\ q.kind = request[r].kind /\ q.wallet = request[r].wallet
        /\ q.sig = request[r].sig /\ q.amount = request[r].amount
    BY <1>1 DEF EngineInv, RequestsTyped, RequestRows
  <1>3. request' = [request EXCEPT ![r] = q]
    BY <1>1 DEF Goto, EngineInv, RequestsTyped
  <1>4. request'[r] = q => RequestSound(r)'
    <2>1. Asks(r)
      BY DEF EngineInv, RequestSound
    <2>2. QED
      BY <1>2, <2>1 DEF RequestSound, Asks, Holds, Computed
  <1>5. QED
    BY <1>3, <1>4, OwnStepSound

-----------------------------------------------------------------------------
(***************************************************************************)
(* One lemma for every group of actions.                                   *)
(***************************************************************************)
LEMMA ArrivalSound ==
    ASSUME EngineInv, NEW r \in Requests, Arrival(r)
    PROVE  EngineInv'
  <1>1. ASSUME NEW w \in Wallets, NEW sig \in Signatures, NEW amount \in DepositAmounts,
               BeginDeposit(r, w, sig, amount)
        PROVE  EngineInv'
    <2>1. PICK q : q = [Idle EXCEPT !.step = "prior", !.kind = "deposit",
                                    !.wallet = w, !.sig = sig, !.amount = amount]
      OBVIOUS
    <2>2. q \in RequestRows /\ q.step = "prior" /\ q.kind = "deposit" /\ q.wallet = w
          /\ q.sig = sig /\ q.amount = amount
      BY <2>1, IdleRow DEF RequestRows, Steps, Idle
    <2>3. request'[r] = q => RequestSound(r)'
      BY <2>2 DEF RequestSound, Asks, Holds, Computed
    <2>4. QED
      BY <1>1, <2>1, <2>2, <2>3, OwnStepSound DEF BeginDeposit, lockVars, EngineInv, RequestsTyped
  <1>2. ASSUME BeginPick(r) PROVE EngineInv'
    <2>1. PICK q : q = [Idle EXCEPT !.step = "lock", !.kind = "pick"]
      OBVIOUS
    <2>2. q \in RequestRows /\ q.step = "lock" /\ q.kind = "pick"
      BY <2>1, IdleRow DEF RequestRows, Steps, Idle
    <2>3. request'[r] = q => RequestSound(r)'
      BY <2>2 DEF RequestSound, Asks, Holds, Computed
    <2>4. QED
      BY <1>2, <2>1, <2>2, <2>3, OwnStepSound DEF BeginPick, lockVars, EngineInv, RequestsTyped
  <1>3. ASSUME NEW w \in Wallets, NEW amount \in WithdrawalAmounts, BeginWithdrawal(r, w, amount)
        PROVE  EngineInv'
    <2>1. PICK q : q = [Idle EXCEPT !.step = "withdraw", !.kind = "withdrawal",
                                    !.wallet = w, !.amount = amount]
      OBVIOUS
    <2>2. q \in RequestRows /\ q.step = "withdraw" /\ q.kind = "withdrawal" /\ q.wallet = w
          /\ q.amount = amount
      BY <2>1, IdleRow DEF RequestRows, Steps, Idle
    <2>3. request'[r] = q => RequestSound(r)'
      BY <2>2 DEF RequestSound, Asks, Holds, Computed
    <2>4. QED
      BY <1>3, <2>1, <2>2, <2>3, OwnStepSound
         DEF BeginWithdrawal, lockVars, EngineInv, RequestsTyped
  <1>4. QED
    BY <1>1, <1>2, <1>3 DEF Arrival

\* A request that ends without having locked a row.
LEMMA EndedSound ==
    ASSUME EngineInv, NEW r \in Requests, End(r), UNCHANGED <<ledgerVars, curveRow, userRow>>,
           lock' \in Requests \cup {Nobody, Crashed}
    PROVE  EngineInv'
  <1>1. PICK q : q = Idle /\ q \in RequestRows
    BY IdleRow
  <1>2. request'[r] = q => RequestSound(r)'
    BY <1>1 DEF RequestSound, Asks, Holds, Computed, Idle
  <1>3. QED
    BY <1>1, <1>2, OwnStepSound DEF End

LEMMA LockingSound ==
    ASSUME EngineInv, NEW r \in Requests,
           \/ CheckPrior(r) \/ AcquireLock(r) \/ GiveUp(r)
           \/ Flush(r) \/ FlushFails(r) \/ Release(r)
    PROVE  EngineInv'
  <1>1. lock \in Requests \cup {Nobody, Crashed} /\ Asks(r)
    BY DEF EngineInv, RequestsTyped, RequestSound
  <1>2. CASE CheckPrior(r)
    <2>1. CASE deposits[request[r].sig] # 0
      BY <1>1, <1>2, <2>1, EndedSound DEF CheckPrior, lockVars
    <2>2. CASE deposits[request[r].sig] = 0
      <3>1. Goto(r, "lock") /\ request[r].kind = "deposit"
        BY <1>1, <1>2, <2>2 DEF CheckPrior, At, Asks
      <3>2. UNCHANGED <<ledgerVars, curveRow, userRow>> /\ lock' = lock
        BY <1>2 DEF CheckPrior, lockVars
      <3>3. QED
        BY <1>1, <3>1, <3>2, GotoSound
    <2>3. QED
      BY <2>1, <2>2
  <1>3. CASE AcquireLock(r)
    <2>1. Goto(r, "transaction") /\ request[r].kind \in {"deposit", "pick"}
      BY <1>1, <1>3 DEF AcquireLock, At, Asks
    <2>2. UNCHANGED <<ledgerVars, curveRow, userRow>> /\ lock' = r
      BY <1>3 DEF AcquireLock
    <2>3. QED
      BY <2>1, <2>2, GotoSound
  <1>4. CASE GiveUp(r)
    BY <1>1, <1>4, EndedSound DEF GiveUp, lockVars
  <1>5. CASE Flush(r) \/ FlushFails(r)
    <2>1. Goto(r, "release") /\ UNCHANGED <<ledgerVars, curveRow, userRow>> /\ lock' = lock
      BY <1>5 DEF Flush, FlushFails, lockVars
    <2>2. QED
      BY <1>1, <2>1, GotoSound
  <1>6. CASE Release(r)
    <2>1. End(r) /\ UNCHANGED <<ledgerVars, curveRow, userRow>>
          /\ lock' \in Requests \cup {Nobody, Crashed}
      BY <1>1, <1>6 DEF Release
    <2>2. QED
      BY <2>1, EndedSound
  <1>7. QED
    BY <1>2, <1>3, <1>4, <1>5, <1>6

LEMMA LockCurveRowSound ==
    ASSUME EngineInv, NEW r \in Requests, LockCurveRow(r)
    PROVE  EngineInv'
  <1>1. RequestsTyped /\ curve \in Reserves /\ Asks(r)
        /\ request[r].kind \in {"deposit", "pick"}
    BY DEF EngineInv, LedgerInv, LedgerTypeOK, RequestSound, Asks, LockCurveRow, At
  <1>2. PICK s \in Steps : /\ s = IF TradingOpen THEN "user" ELSE "closed"
                           /\ s \in {"user", "closed"} /\ (s = "user" => ~complete)
    BY DEF Steps, TradingOpen
  <1>3. PICK q : q = [request[r] EXCEPT !.curve = curve, !.step = s]
    OBVIOUS
  <1>4. q \in RequestRows /\ q.step = s /\ q.curve = curve /\ q.kind = request[r].kind
        /\ q.wallet = request[r].wallet /\ q.sig = request[r].sig /\ q.amount = request[r].amount
    BY <1>1, <1>2, <1>3 DEF RequestsTyped, RequestRows
  <1>5. request' = [request EXCEPT ![r] = q] /\ curveRow = Nobody /\ curveRow' = r
        /\ UNCHANGED <<ledgerVars, lock, userRow>>
    BY <1>1, <1>2, <1>3 DEF LockCurveRow, CurveRowFree, RequestsTyped
  <1>6. /\ request' \in [Requests -> RequestRows] /\ request'[r] = q
        /\ \A o \in Requests \ {r} : request'[o] = request[o]
    BY <1>1, <1>4, <1>5, SetRequest DEF RequestsTyped
  <1>7. RequestsTyped'
    BY <1>1, <1>5, <1>6 DEF RequestsTyped
  <1>8. RequestSound(r)'
    <2>1. (s = "user" => ~complete) /\ complete' = complete /\ curve' = curve
      BY <1>2, <1>5 DEF ledgerVars
    <2>2. s = "user" => ~complete'
      BY <2>1, Zenon
    <2>3. QED
      BY <1>1, <1>2, <1>4, <1>5, <1>6, <2>1, <2>2 DEF RequestSound, Asks, Holds, Computed
  <1>9. \A o \in Requests \ {r} : Apart(o)
    BY <1>5, <1>6, TradeEngineAssumption DEF Apart, ledgerVars
  <1>10. QED
    BY <1>5, <1>7, <1>8, <1>9, StepSound
LEMMA InsertDepositSound ==
    ASSUME EngineInv, NEW r \in Requests, InsertDeposit(r)
    PROVE  EngineInv'
  <1>1. CASE ~NewSignature(request[r].sig)
    BY <1>1, FailSound DEF InsertDeposit
  <1>2. CASE NewSignature(request[r].sig)
    <2>1. RequestsTyped /\ RequestSound(r) /\ request[r] \in RequestRows
      BY DEF EngineInv, RequestsTyped
    <2>2. PICK q \in RequestRows : q = [request[r] EXCEPT !.step = "trade"]
      BY <2>1, MovedRow DEF Steps
    <2>3. q.step = "trade" /\ q.kind = "deposit" /\ q.wallet = request[r].wallet
          /\ q.sig = request[r].sig /\ q.amount = request[r].amount
          /\ q.curve = request[r].curve /\ request[r].step = "user" /\ request[r].kind = "deposit"
      BY <2>1, <2>2 DEF RequestRows, InsertDeposit, At
    <2>4. q.wallet \in Wallets /\ q.sig \in Signatures /\ q.amount \in DepositAmounts
          /\ deposits[q.sig] = 0
      BY <1>2, <2>1, <2>3 DEF RequestSound, Asks, NewSignature
    <2>5. /\ request' = [request EXCEPT ![r] = q]
          /\ userRow[q.wallet] = Nobody /\ userRow' = [userRow EXCEPT ![q.wallet] = r]
          /\ UNCHANGED <<ledgerVars, lock, curveRow>>
      BY <1>2, <2>1, <2>2, <2>3 DEF InsertDeposit, Goto, UserRowFree, RequestsTyped
    <2>6. /\ request' \in [Requests -> RequestRows] /\ request'[r] = q
          /\ \A o \in Requests \ {r} : request'[o] = request[o]
      BY <2>1, <2>5, SetRequest DEF RequestsTyped
    <2>7. RequestsTyped' /\ userRow'[q.wallet] = r
      BY <2>1, <2>4, <2>5, <2>6 DEF RequestsTyped
    <2>8. RequestSound(r)'
      <3>1. curveRow' = r /\ q.curve = curve' /\ deposits'[q.sig] = 0
        BY <2>1, <2>3, <2>4, <2>5 DEF RequestSound, Holds, ledgerVars
      <3>2. ~complete'
        <4>1. ~complete /\ complete' = complete
          BY <2>1, <2>3, <2>5 DEF RequestSound, Holds, ledgerVars
        <4>2. QED
          BY <4>1, Zenon
      <3>3. QED
        BY <2>3, <2>4, <2>6, <2>7, <3>1, <3>2 DEF RequestSound, Asks, Holds, Computed
    <2>9. \A o \in Requests \ {r} : Apart(o)
      BY <2>1, <2>4, <2>5, <2>6, TradeEngineAssumption DEF Apart, ledgerVars, RequestsTyped
    <2>10. QED
      BY <2>5, <2>7, <2>8, <2>9, StepSound
  <1>3. QED
    BY <1>1, <1>2

LEMMA ChooseWalletSound ==
    ASSUME EngineInv, NEW r \in Requests, ChooseWallet(r)
    PROVE  EngineInv'
  <1>1. ASSUME NEW w \in Wallets,
               request' = [request EXCEPT ![r].wallet = w, ![r].step = "chosen"],
               UNCHANGED <<ledgerVars, lockVars>>
        PROVE  EngineInv'
    <2>1. RequestsTyped /\ RequestSound(r) /\ request[r] \in RequestRows
      BY DEF EngineInv, RequestsTyped
    <2>2. PICK q : q = [request[r] EXCEPT !.wallet = w, !.step = "chosen"]
      OBVIOUS
    <2>3. q \in RequestRows /\ q.step = "chosen" /\ q.kind = "pick" /\ q.wallet = w
          /\ q.curve = request[r].curve /\ request[r].step = "user"
      BY <2>1, <2>2 DEF RequestRows, Steps, ChooseWallet, At
    <2>4. request' = [request EXCEPT ![r] = q]
      BY <1>1, <2>1, <2>2 DEF RequestsTyped
    <2>5. UNCHANGED <<ledgerVars, lock, curveRow, userRow>>
      BY <1>1 DEF lockVars
    <2>6. request'[r] = q => RequestSound(r)'
      <3>1. curveRow' = r /\ q.curve = curve'
        BY <2>1, <2>3, <2>5 DEF RequestSound, Holds, ledgerVars
      <3>2. ~complete'
        <4>1. ~complete /\ complete' = complete
          BY <2>1, <2>3, <2>5 DEF RequestSound, Holds, ledgerVars
        <4>2. QED
          BY <4>1, Zenon
      <3>3. QED
        BY <2>3, <3>1, <3>2 DEF RequestSound, Asks, Holds, Computed
    <2>7. QED
      BY <2>1, <2>3, <2>4, <2>5, <2>6, OwnStepSound DEF RequestsTyped
  <1>2. QED
    BY <1>1, FailSound DEF ChooseWallet

LEMMA LockChosenSound ==
    ASSUME EngineInv, NEW r \in Requests, LockChosen(r)
    PROVE  EngineInv'
  <1>1. CASE ~Eligible(request[r].wallet)
    BY <1>1, FailSound DEF LockChosen
  <1>2. CASE Eligible(request[r].wallet)
    <2>1. RequestsTyped /\ RequestSound(r) /\ request[r] \in RequestRows
          /\ request[r].step = "chosen"
      BY DEF EngineInv, RequestsTyped, LockChosen, At
    <2>2. PICK w \in Wallets : w = request[r].wallet /\ request[r].kind = "pick"
      BY <2>1 DEF RequestSound, Asks
    <2>3. PICK q : q = [request[r] EXCEPT !.user = users[w], !.step = "trade"]
      OBVIOUS
    <2>4. users[w] \in UserRows /\ users[w].token > 0
      BY <1>2, <2>2 DEF EngineInv, LedgerInv, LedgerTypeOK, Eligible
    <2>5. q \in RequestRows /\ q.step = "trade" /\ q.kind = "pick" /\ q.wallet = w
          /\ q.user = users[w] /\ q.curve = request[r].curve
      BY <2>1, <2>2, <2>3, <2>4 DEF RequestRows, Steps
    <2>6. /\ request' = [request EXCEPT ![r] = q]
          /\ userRow[w] = Nobody /\ userRow' = [userRow EXCEPT ![w] = r]
          /\ UNCHANGED <<ledgerVars, lock, curveRow>>
      BY <1>2, <2>1, <2>2, <2>3 DEF LockChosen, UserRowFree, RequestsTyped
    <2>7. /\ request' \in [Requests -> RequestRows] /\ request'[r] = q
          /\ \A o \in Requests \ {r} : request'[o] = request[o]
      BY <2>1, <2>5, <2>6, SetRequest DEF RequestsTyped
    <2>8. RequestsTyped' /\ userRow'[w] = r
      BY <2>1, <2>6, <2>7 DEF RequestsTyped
    <2>9. RequestSound(r)'
      <3>1. curveRow' = r /\ q.curve = curve' /\ users' = users
        BY <2>1, <2>5, <2>6 DEF RequestSound, Holds, ledgerVars
      <3>2. ~complete'
        <4>1. ~complete /\ complete' = complete
          BY <2>1, <2>6 DEF RequestSound, Holds, ledgerVars
        <4>2. QED
          BY <4>1, Zenon
      <3>3. QED
        BY <2>4, <2>5, <2>7, <2>8, <3>1, <3>2 DEF RequestSound, Asks, Holds, Computed
    <2>10. \A o \in Requests \ {r} : Apart(o)
      BY <2>1, <2>6, <2>7, TradeEngineAssumption DEF Apart, ledgerVars, RequestsTyped
    <2>11. QED
      BY <2>6, <2>8, <2>9, <2>10, StepSound
  <1>3. QED
    BY <1>1, <1>2
\* What a trade has computed waits for the cache and the commit.
LEMMA SaveCurveSound ==
    ASSUME EngineInv, NEW r \in Requests, At(r, "trade"), NEW c \in Reserves, NEW u \in UserRows,
           NEW fee \in Nat, SaveCurve(r, c, u, fee),
           request[r].kind = "deposit" =>
             /\ BuyOK(curve, request[r].amount)
             /\ c = AfterBuy(curve, request[r].amount)
             /\ u = User(users[request[r].wallet].sol,
                         users[request[r].wallet].token + TokensFor(curve, request[r].amount))
             /\ fee = FeeOn(request[r].amount),
           request[r].kind = "pick" =>
             /\ users[request[r].wallet].token > 0
             /\ LiquidationOK(curve, users[request[r].wallet])
             /\ c = AfterLiquidation(curve, users[request[r].wallet])
             /\ u = User(LessFee(Proceeds(curve, users[request[r].wallet])), 0)
             /\ fee = LiquidationFees(curve, users[request[r].wallet])
    PROVE  EngineInv'
  <1>1. RequestsTyped /\ RequestSound(r) /\ request[r] \in RequestRows /\ request[r].step = "trade"
    BY DEF EngineInv, RequestsTyped, At
  <1>2. PICK q : q = [request[r] EXCEPT !.curve = c, !.user = u, !.fee = fee, !.step = "cache"]
    OBVIOUS
  <1>3. q \in RequestRows /\ q.step = "cache" /\ q.kind = request[r].kind
        /\ q.wallet = request[r].wallet /\ q.sig = request[r].sig /\ q.amount = request[r].amount
        /\ q.curve = c /\ q.user = u /\ q.fee = fee
    BY <1>1, <1>2 DEF RequestRows, Steps
  <1>4. /\ request' = [request EXCEPT ![r] = q]
        /\ UNCHANGED <<ledgerVars, lock, curveRow, userRow>>
    BY <1>1, <1>2 DEF SaveCurve, lockVars, RequestsTyped
  <1>5. request'[r] = q => RequestSound(r)'
    <2>1. HAVE request'[r] = q
    <2>2. Asks(r)'
      BY <1>1, <1>3, <2>1 DEF RequestSound, Asks
    <2>3. ~complete'
      <3>1. ~complete /\ complete' = complete
        BY <1>1, <1>4 DEF RequestSound, Holds, ledgerVars
      <3>2. QED
        BY <3>1, Zenon
    <2>4. Holds(r)'
      <3>1. curveRow' = r /\ userRow'[q.wallet] = r
            /\ (q.kind = "deposit" => deposits'[q.sig] = 0)
        BY <1>1, <1>3, <1>4 DEF RequestSound, Holds, ledgerVars
      <3>2. QED
        BY <1>3, <2>1, <2>3, <3>1 DEF Holds
    <2>5. Computed(r)'
      <3>1. curve' = curve /\ users' = users
        BY <1>4 DEF ledgerVars
      <3>2. QED
        BY <1>3, <2>1, <3>1 DEF Computed
    <2>6. QED
      BY <2>2, <2>4, <2>5 DEF RequestSound
  <1>6. QED
    BY <1>1, <1>3, <1>4, <1>5, OwnStepSound DEF RequestsTyped

LEMMA AutobuySound ==
    ASSUME EngineInv, NEW r \in Requests, Autobuy(r)
    PROVE  EngineInv'
  <1>1. /\ RequestSound(r) /\ request[r].step = "trade" /\ request[r].kind = "deposit"
        /\ CurveSound(curve) /\ users \in [Wallets -> UserRows]
    BY DEF EngineInv, LedgerInv, LedgerTypeOK, Autobuy, At
  <1>2. PICK w \in Wallets, a \in DepositAmounts : w = request[r].wallet /\ a = request[r].amount
    BY <1>1 DEF RequestSound, Asks
  <1>3. request[r].curve = curve
    BY <1>1 DEF RequestSound, Holds
  <1>4. CASE ~BuyOK(curve, a)
    BY <1>2, <1>3, <1>4, FailSound DEF Autobuy
  <1>5. CASE BuyOK(curve, a)
    <2>1. a \in Nat /\ users[w].sol \in Nat /\ users[w].token \in Nat
      BY <1>1, <1>2, LedgerAssumption, UserFields
    <2>2. PICK d, t : /\ d = AfterBuy(curve, a) /\ t = TokensFor(curve, a)
                      /\ d \in Reserves /\ t \in Nat
      BY <1>1, <1>5, <2>1, BuySound DEF CurveSound
    <2>3. PICK u, f : /\ u = User(users[w].sol, users[w].token + t) /\ f = FeeOn(a)
                      /\ u \in UserRows /\ f \in Nat
      <3>1. User(users[w].sol, users[w].token + t) \in UserRows
        BY <2>1, <2>2 DEF User, UserRows
      <3>2. QED
        BY <2>1, <3>1, FeeBounds
    <2>4. SaveCurve(r, d, u, f)
      BY <1>2, <1>3, <1>5, <2>2, <2>3 DEF Autobuy
    <2>5. QED
      BY <1>1, <1>2, <1>5, <2>2, <2>3, <2>4, SaveCurveSound DEF At
  <1>6. QED
    BY <1>4, <1>5

LEMMA LiquidateSound ==
    ASSUME EngineInv, NEW r \in Requests, Liquidate(r)
    PROVE  EngineInv'
  <1>1. /\ RequestSound(r) /\ request[r].step = "trade" /\ request[r].kind = "pick"
        /\ CurveSound(curve) /\ users \in [Wallets -> UserRows]
    BY DEF EngineInv, LedgerInv, LedgerTypeOK, Liquidate, At
  <1>2. PICK w \in Wallets : w = request[r].wallet
    BY <1>1 DEF RequestSound, Asks
  <1>3. request[r].curve = curve /\ request[r].user = users[w] /\ users[w].token > 0
    BY <1>1, <1>2 DEF RequestSound, Holds
  <1>4. CASE ~LiquidationOK(curve, users[w])
    BY <1>3, <1>4, FailSound DEF Liquidate
  <1>5. CASE LiquidationOK(curve, users[w])
    <2>1. PICK d, p, f : /\ d = AfterLiquidation(curve, users[w])
                         /\ p = Proceeds(curve, users[w]) /\ f = LiquidationFees(curve, users[w])
                         /\ d \in Reserves /\ p \in Nat /\ f \in Nat
      BY <1>1, <1>5, LiquidationSound DEF CurveSound
    <2>2. PICK u : u = User(LessFee(p), 0) /\ u \in UserRows
      <3>1. LessFee(p) \in Nat
        BY <2>1, FeeBounds
      <3>2. User(LessFee(p), 0) \in UserRows
        BY <3>1 DEF User, UserRows
      <3>3. QED
        BY <3>2
    <2>3. SaveCurve(r, d, u, f)
      BY <1>3, <1>5, <2>1, <2>2 DEF Liquidate
    <2>4. QED
      BY <1>1, <1>2, <1>3, <1>5, <2>1, <2>2, <2>3, SaveCurveSound DEF At
  <1>6. QED
    BY <1>4, <1>5
\* The commit of a trade is the trade of the book.
LEMMA CommitBooks ==
    ASSUME EngineInv, NEW r \in Requests, Commit(r)
    PROVE  LedgerNext
  <1>1. /\ RequestSound(r) /\ request[r].step = "commit"
        /\ users \in [Wallets -> UserRows] /\ deposits \in [Signatures -> Nat]
    BY DEF EngineInv, LedgerInv, LedgerTypeOK, Commit, At
  <1>2. PICK q : q = request[r]
    OBVIOUS
  <1>3. /\ BookCurve(q.curve) /\ users' = [users EXCEPT ![q.wallet] = q.user]
        /\ fees' = fees + q.fee /\ withdrawn' = withdrawn /\ ~complete
    BY <1>1, <1>2 DEF Commit, BookCurve, RequestSound, Holds
  <1>4. CASE q.kind = "deposit"
    <2>1. PICK w \in Wallets, sig \in Signatures, a \in DepositAmounts :
            /\ w = q.wallet /\ sig = q.sig /\ a = q.amount
            /\ deposits[sig] = 0
      BY <1>1, <1>2, <1>4 DEF RequestSound, Asks, Holds
    <2>2. /\ BuyOK(curve, a) /\ q.curve = AfterBuy(curve, a)
          /\ q.user = User(users[w].sol, users[w].token + TokensFor(curve, a))
          /\ q.fee = FeeOn(a)
      BY <1>1, <1>2, <1>4, <2>1 DEF RequestSound, Computed
    <2>3. deposits' = [deposits EXCEPT ![sig] = a]
      <3>1. deposits' = [s \in Signatures |-> IF s = sig THEN deposits[s] + a ELSE deposits[s]]
        BY <1>2, <1>4, <2>1 DEF Commit
      <3>2. deposits[sig] + a = a
        BY <2>1, LedgerAssumption
      <3>3. QED
        BY <1>1, <3>1, <3>2
    <2>4. BookDeposit(w, sig, a)
      BY <1>3, <2>1, <2>2, <2>3 DEF BookDeposit
    <2>5. QED
      BY <2>4 DEF LedgerNext
  <1>5. CASE q.kind = "pick"
    <2>1. PICK w \in Wallets : w = q.wallet
      BY <1>1, <1>2, <1>5 DEF RequestSound, Asks
    <2>2. /\ users[w].token > 0 /\ LiquidationOK(curve, users[w])
          /\ q.curve = AfterLiquidation(curve, users[w])
          /\ q.user = User(LessFee(Proceeds(curve, users[w])), 0)
          /\ q.fee = LiquidationFees(curve, users[w])
      BY <1>1, <1>2, <1>5, <2>1 DEF RequestSound, Computed
    <2>3. deposits' = deposits
      <3>1. deposits' = [s \in Signatures |-> deposits[s]]
        BY <1>2, <1>5 DEF Commit
      <3>2. QED
        BY <1>1, <3>1
    <2>4. BookPick(w)
      BY <1>1, <1>3, <2>1, <2>2, <2>3 DEF BookPick
    <2>5. QED
      BY <2>4 DEF LedgerNext
  <1>6. q.kind \in {"deposit", "pick"}
    BY <1>1, <1>2 DEF RequestSound, Asks
  <1>7. QED
    BY <1>4, <1>5, <1>6

LEMMA CommitSound ==
    ASSUME EngineInv, NEW r \in Requests, Commit(r)
    PROVE  EngineInv'
  <1>1. /\ RequestsTyped /\ RequestSound(r) /\ request[r] \in RequestRows
        /\ request[r].step = "commit" /\ users \in [Wallets -> UserRows]
    BY DEF EngineInv, LedgerInv, LedgerTypeOK, RequestsTyped, Commit, At
  <1>2. PICK w \in Wallets : w = request[r].wallet /\ userRow[w] = r /\ curveRow = r
    BY <1>1 DEF RequestSound, Asks, Holds
  <1>3. PICK q \in RequestRows : q = [request[r] EXCEPT !.step = "flush"]
    BY <1>1, MovedRow DEF Steps
  <1>4. q.step = "flush" /\ q.kind = request[r].kind /\ q.wallet = request[r].wallet
        /\ q.sig = request[r].sig /\ q.amount = request[r].amount
    BY <1>1, <1>3 DEF RequestRows
  <1>5. /\ request' = [request EXCEPT ![r] = q] /\ UnlockRows(r) /\ lock' = lock
        /\ users' = [users EXCEPT ![w] = request[r].user]
    BY <1>1, <1>2, <1>3 DEF Commit, Goto, RequestsTyped
  <1>6. /\ request' \in [Requests -> RequestRows] /\ request'[r] = q
        /\ \A o \in Requests \ {r} : request'[o] = request[o]
    BY <1>1, <1>5, SetRequest DEF RequestsTyped
  <1>7. RequestsTyped'
    BY <1>1, <1>5, <1>6, Unlocked DEF RequestsTyped
  <1>8. RequestSound(r)'
    BY <1>1, <1>4, <1>6 DEF RequestSound, Asks, Holds, Computed
  <1>9. \A o \in Requests \ {r} : Apart(o)
    <2> TAKE o \in Requests \ {r}
    <2>1. \A v \in Wallets : userRow[v] = o => users'[v] = users[v]
      BY <1>1, <1>2, <1>5
    <2>2. QED
      BY <1>1, <1>2, <1>5, <1>6, <2>1, Unlocked DEF Apart
  <1>10. [LedgerNext]_ledgerVars
    BY CommitBooks
  <1>11. QED
    BY <1>7, <1>8, <1>9, <1>10, StepSound

LEMMA LockWithdrawerSound ==
    ASSUME EngineInv, NEW r \in Requests, LockWithdrawer(r)
    PROVE  EngineInv'
  <1>1. /\ RequestsTyped /\ RequestSound(r) /\ request[r] \in RequestRows
        /\ request[r].step = "withdraw" /\ request[r].kind = "withdrawal"
        /\ lock \in Requests \cup {Nobody, Crashed}
    BY DEF EngineInv, RequestsTyped, RequestSound, Asks, LockWithdrawer, At
  <1>2. PICK w \in Wallets, a \in WithdrawalAmounts : w = request[r].wallet /\ a = request[r].amount
    BY <1>1 DEF RequestSound, Asks
  <1>3. CASE ~Covered(w, a)
    <2>1. End(r) /\ UNCHANGED <<ledgerVars, lock, curveRow, userRow>>
      BY <1>2, <1>3 DEF LockWithdrawer
    <2>2. QED
      BY <1>1, <2>1, EndedSound
  <1>4. CASE Covered(w, a)
    <2>1. PICK q \in RequestRows : q = [request[r] EXCEPT !.step = "debit"]
      BY <1>1, MovedRow DEF Steps
    <2>2. q.step = "debit" /\ q.kind = "withdrawal" /\ q.wallet = w /\ q.amount = a
          /\ q.sig = request[r].sig
      BY <1>1, <1>2, <2>1 DEF RequestRows
    <2>3. /\ request' = [request EXCEPT ![r] = q]
          /\ userRow[w] = Nobody /\ userRow' = [userRow EXCEPT ![w] = r]
          /\ a <= users[w].sol
          /\ UNCHANGED <<ledgerVars, lock, curveRow>>
      BY <1>1, <1>2, <1>4, <2>1
         DEF LockWithdrawer, NoFurtherRow, Goto, UserRowFree, RequestsTyped, Covered
    <2>4. /\ request' \in [Requests -> RequestRows] /\ request'[r] = q
          /\ \A o \in Requests \ {r} : request'[o] = request[o]
      BY <1>1, <2>3, SetRequest DEF RequestsTyped
    <2>5. RequestsTyped' /\ userRow'[w] = r
      BY <1>1, <2>3, <2>4 DEF RequestsTyped
    <2>6. RequestSound(r)'
      <3>1. users' = users
        BY <2>3 DEF ledgerVars
      <3>2. QED
        BY <2>2, <2>3, <2>4, <2>5, <3>1 DEF RequestSound, Asks, Holds, Computed
    <2>7. \A o \in Requests \ {r} : Apart(o)
      BY <1>1, <2>3, <2>4, TradeEngineAssumption DEF Apart, ledgerVars, RequestsTyped
    <2>8. QED
      BY <2>3, <2>5, <2>6, <2>7, StepSound
  <1>5. QED
    BY <1>3, <1>4

\* A withdrawn amount leaves a row of users.
LEMMA Debited ==
    ASSUME NEW u \in UserRows, NEW a \in WithdrawalAmounts, a <= u.sol
    PROVE  [u EXCEPT !.sol = @ - a] \in UserRows
  <1>1. a \in Nat /\ a > 0
    BY LedgerAssumption
  <1>2. u # NoUser
    BY <1>1 DEF NoUser
  <1>3. u \in [exists : {TRUE}, sol : Nat, token : Nat]
    BY <1>2 DEF UserRows
  <1>4. u.sol - a \in Nat
    BY <1>1, <1>3
  <1>5. QED
    BY <1>3, <1>4 DEF UserRows

LEMMA DebitSound ==
    ASSUME EngineInv, NEW r \in Requests, Debit(r)
    PROVE  EngineInv'
  <1>1. /\ RequestsTyped /\ RequestSound(r) /\ request[r] \in RequestRows
        /\ request[r].step = "debit" /\ request[r].kind = "withdrawal"
        /\ users \in [Wallets -> UserRows]
    BY DEF EngineInv, LedgerInv, LedgerTypeOK, RequestsTyped, RequestSound, Asks, Debit, At
  <1>2. PICK w \in Wallets, a \in WithdrawalAmounts :
          /\ w = request[r].wallet /\ a = request[r].amount
          /\ a <= users[w].sol /\ userRow[w] = r
    BY <1>1 DEF RequestSound, Asks, Holds
  <1>3. PICK u \in UserRows : u = [users[w] EXCEPT !.sol = @ - a]
    BY <1>1, <1>2, Debited
  <1>4. PICK q : q = [request[r] EXCEPT !.user = u, !.step = "refresh"]
    OBVIOUS
  <1>5. q \in RequestRows /\ q.step = "refresh" /\ q.kind = "withdrawal"
        /\ q.wallet = w /\ q.amount = a /\ q.user = u
    BY <1>1, <1>2, <1>4 DEF RequestRows, Steps
  <1>6. request' = [request EXCEPT ![r] = q] /\ UNCHANGED <<ledgerVars, lock, curveRow, userRow>>
    BY <1>1, <1>2, <1>3, <1>4 DEF Debit, lockVars, RequestsTyped
  <1>7. request'[r] = q => RequestSound(r)'
    <2>1. users' = users /\ userRow' = userRow
      BY <1>6 DEF ledgerVars
    <2>2. QED
      BY <1>2, <1>3, <1>5, <2>1 DEF RequestSound, Asks, Holds, Computed
  <1>8. QED
    BY <1>1, <1>5, <1>6, <1>7, OwnStepSound DEF RequestsTyped

\* The caches are written between the computation and the commit, or after the
\* transaction has been closed.
LEMMA WriteThroughSound ==
    ASSUME EngineInv, NEW r \in Requests, CacheCurve(r) \/ RefreshUser(r)
    PROVE  EngineInv'
  <1>1. RequestsTyped /\ RequestSound(r) /\ request[r] \in RequestRows
        /\ lock \in Requests \cup {Nobody, Crashed}
    BY DEF EngineInv, RequestsTyped
  <1>2. UNCHANGED <<ledgerVars, lock, curveRow, userRow>>
    BY DEF CacheCurve, RefreshUser, lockVars
  <1>3. CASE Goto(r, "release")
    BY <1>1, <1>2, <1>3, GotoSound
  <1>4. CASE End(r)
    BY <1>1, <1>2, <1>4, EndedSound
  <1>5. ASSUME NEW s \in {"commit", "commit withdrawal"}, Goto(r, s),
               s = "commit" => request[r].step = "cache",
               s = "commit withdrawal" => request[r].step = "refresh"
        PROVE  EngineInv'
    <2>1. PICK q \in RequestRows : q = [request[r] EXCEPT !.step = s]
      BY <1>1, MovedRow DEF Steps
    <2>2. /\ q.step = s /\ q.kind = request[r].kind /\ q.wallet = request[r].wallet
          /\ q.sig = request[r].sig /\ q.amount = request[r].amount
          /\ q.curve = request[r].curve /\ q.user = request[r].user /\ q.fee = request[r].fee
      BY <1>1, <2>1 DEF RequestRows
    <2>3. request' = [request EXCEPT ![r] = q]
      BY <1>5, <2>1 DEF Goto
    <2>4. request'[r] = q => RequestSound(r)'
      <3>1. HAVE request'[r] = q
      <3>2. UNCHANGED <<curve, users, deposits, curveRow, userRow>>
        BY <1>2 DEF ledgerVars
      <3>3. Asks(r)'
        BY <1>1, <1>5, <2>2, <3>1 DEF RequestSound, Asks
      <3>4. s = "commit" => ~complete'
        <4>1. s = "commit" => ~complete /\ complete' = complete
          BY <1>1, <1>2, <1>5 DEF RequestSound, Holds, ledgerVars
        <4>2. QED
          BY <4>1, Zenon
      <3>5. Holds(r)'
        BY <1>1, <1>5, <2>2, <3>1, <3>2, <3>4 DEF RequestSound, Holds
      <3>6. Computed(r)'
        BY <1>1, <1>5, <2>2, <3>1, <3>2 DEF RequestSound, Computed
      <3>7. QED
        BY <3>3, <3>5, <3>6 DEF RequestSound
    <2>5. QED
      BY <1>1, <1>2, <2>3, <2>4, OwnStepSound
  <1>6. QED
    BY <1>3, <1>4, <1>5 DEF CacheCurve, RefreshUser, At

LEMMA CommitWithdrawalBooks ==
    ASSUME EngineInv, NEW r \in Requests, CommitWithdrawal(r)
    PROVE  LedgerNext
  <1>1. RequestSound(r) /\ request[r].step = "commit withdrawal"
    BY DEF EngineInv, CommitWithdrawal, At
  <1>2. PICK w \in Wallets, a \in WithdrawalAmounts :
          /\ w = request[r].wallet /\ a = request[r].amount /\ a <= users[w].sol
          /\ request[r].user = [users[w] EXCEPT !.sol = @ - a]
    BY <1>1 DEF RequestSound, Asks, Holds, Computed
  <1>3. BookWithdrawal(w, a)
    BY <1>2 DEF CommitWithdrawal, BookWithdrawal
  <1>4. QED
    BY <1>3 DEF LedgerNext

LEMMA CommitWithdrawalSound ==
    ASSUME EngineInv, NEW r \in Requests, CommitWithdrawal(r)
    PROVE  EngineInv'
  <1>1. /\ RequestsTyped /\ RequestSound(r) /\ request[r].step = "commit withdrawal"
        /\ users \in [Wallets -> UserRows]
    BY DEF EngineInv, LedgerInv, LedgerTypeOK, CommitWithdrawal, At
  <1>2. PICK w \in Wallets : w = request[r].wallet /\ userRow[w] = r
    BY <1>1 DEF RequestSound, Asks, Holds
  <1>3. /\ End(r) /\ UnlockRows(r) /\ users' = [users EXCEPT ![w] = request[r].user]
        /\ UNCHANGED <<curve, complete, deposits, lock>>
    BY <1>2 DEF CommitWithdrawal
  <1>4. /\ request' \in [Requests -> RequestRows] /\ request'[r] = Idle
        /\ \A o \in Requests \ {r} : request'[o] = request[o]
    BY <1>1, <1>3, IdleRow, SetRequest DEF End, RequestsTyped
  <1>5. RequestsTyped'
    BY <1>1, <1>3, <1>4, Unlocked DEF RequestsTyped
  <1>6. RequestSound(r)'
    BY <1>4 DEF RequestSound, Asks, Holds, Computed, Idle
  <1>7. \A o \in Requests \ {r} : Apart(o)
    <2> TAKE o \in Requests \ {r}
    <2>1. \A v \in Wallets : userRow[v] = o => users'[v] = users[v]
      BY <1>1, <1>2, <1>3
    <2>2. QED
      BY <1>1, <1>3, <1>4, <2>1, Unlocked DEF Apart
  <1>8. [LedgerNext]_ledgerVars
    BY CommitWithdrawalBooks
  <1>9. QED
    BY <1>5, <1>6, <1>7, <1>8, StepSound
LEMMA FailuresSound ==
    ASSUME EngineInv, NEW r \in Requests,
           Rollback(r) \/ TimesOut(r) \/ Crash(r) \/ RejectClosed(r)
    PROVE  EngineInv'
  <1>1. lock \in Requests \cup {Nobody, Crashed}
    BY DEF EngineInv, RequestsTyped
  <1>2. CASE Fail(r)
    BY <1>2, FailSound
  <1>3. CASE End(r) /\ UnlockRows(r) /\ UNCHANGED <<ledgerVars, lock>>
    BY <1>1, <1>3, EndSound
  <1>4. CASE Crash(r)
    <2>1. End(r) /\ UnlockRows(r) /\ UNCHANGED ledgerVars
          /\ lock' \in Requests \cup {Nobody, Crashed}
      BY <1>1, <1>4 DEF Crash
    <2>2. QED
      BY <2>1, EndSound
  <1>5. CASE TimesOut(r)
    BY <1>5, ClosedSound DEF TimesOut
  <1>6. QED
    BY <1>2, <1>3, <1>4, <1>5 DEF Rollback, RejectClosed

\* A step that is nobody's request.
LEMMA BystanderSound ==
    ASSUME EngineInv, UNCHANGED <<ledgerVars, request, curveRow, userRow>>,
           lock' \in Requests \cup {Nobody, Crashed}
    PROVE  EngineInv'
  <1>1. LedgerInv'
    BY LedgerStep DEF EngineInv
  <1>2. RequestsTyped'
    BY DEF EngineInv, RequestsTyped
  <1>3. \A o \in Requests : RequestSound(o)'
    <2> TAKE o \in Requests
    <2>1. RequestSound(o) /\ request[o] \in RequestRows
      BY DEF EngineInv, RequestsTyped
    <2>2. Apart(o)
      BY DEF Apart, ledgerVars
    <2>3. QED
      BY <2>1, <2>2, ApartSound
  <1>4. QED
    BY <1>1, <1>2, <1>3 DEF EngineInv

LEMMA EngineStepSound == EngineInv /\ [LossyNext]_engineVars => EngineInv'
  <1> SUFFICES ASSUME EngineInv, [LossyNext]_engineVars PROVE EngineInv'
    OBVIOUS
  <1>1. lock \in Requests \cup {Nobody, Crashed}
    BY DEF EngineInv, RequestsTyped
  <1>2. ASSUME NEW r \in Requests, Arrival(r) \/ RequestStep(r) PROVE EngineInv'
    BY <1>2, ArrivalSound, LockingSound, LockCurveRowSound, FailuresSound, InsertDepositSound,
       AutobuySound, ChooseWalletSound, LockChosenSound, LiquidateSound, CommitSound,
       LockWithdrawerSound, DebitSound, WriteThroughSound, CommitWithdrawalSound DEF RequestStep
  <1>3. ASSUME NEW r \in Requests, Rollback(r) \/ TimesOut(r) \/ FlushFails(r) \/ Crash(r)
        PROVE  EngineInv'
    BY <1>3, FailuresSound, LockingSound
  <1>4. ASSUME NEW d \in Readers, ReaderStep(d) PROVE EngineInv'
    <2>1. UNCHANGED <<ledgerVars, request, curveRow, userRow, lock>>
      BY <1>4 DEF ReaderStep, ReadUserCache, ReadUserRow, FillUser, ReadCurveCache, ReadCurveRow,
                  FillCurve, Reading, lockVars
    <2>2. QED
      BY <1>1, <2>1, BystanderSound
  <1>5. CASE LockExpires \/ ValkeyLosesData
    <2>1. UNCHANGED <<ledgerVars, request, curveRow, userRow>> /\ lock' = Nobody
      BY <1>5 DEF LockExpires, ValkeyLosesData
    <2>2. QED
      BY <2>1, BystanderSound
  <1>6. CASE UNCHANGED engineVars
    <2>1. UNCHANGED <<ledgerVars, request, curveRow, userRow, lock>>
      BY <1>6 DEF engineVars, lockVars
    <2>2. QED
      BY <1>1, <2>1, BystanderSound
  <1>7. QED
    BY <1>2, <1>3, <1>4, <1>5, <1>6 DEF LossyNext, EngineNext, PromptNext

LEMMA EngineInitially == EngineInit => EngineInv /\ LedgerInit
  <1> SUFFICES ASSUME EngineInit PROVE EngineInv /\ LedgerInit
    OBVIOUS
  <1>1. LedgerInit /\ LedgerInv
    BY LedgerInitially DEF EngineInit
  <1>2. RequestsTyped
    BY IdleRow DEF EngineInit, RequestsTyped
  <1>3. \A r \in Requests : RequestSound(r)
    BY DEF EngineInit, Idle, RequestSound, Asks, Holds, Computed
  <1>4. QED
    BY <1>1, <1>2, <1>3 DEF EngineInv

\* Nothing but a commit touches the tables.
LEMMA QuietRequest ==
    ASSUME NEW r \in Requests, Arrival(r) \/ RequestStep(r), ~Commit(r), ~CommitWithdrawal(r)
    PROVE  UNCHANGED ledgerVars
  <1>1. CASE Arrival(r)
    BY <1>1 DEF Arrival, BeginDeposit, BeginPick, BeginWithdrawal
  <1>2. CASE RequestStep(r)
    BY <1>2
       DEF RequestStep, CheckPrior, AcquireLock, GiveUp, LockCurveRow, RejectClosed, Fail,
           InsertDeposit, Autobuy, ChooseWallet, LockChosen, Liquidate, SaveCurve, CacheCurve,
           Flush, Release, LockWithdrawer, Debit, RefreshUser
  <1>3. QED
    BY <1>1, <1>2

LEMMA OnlyCommitsWrite ==
    ASSUME [LossyNext]_engineVars
    PROVE  (\E r \in Requests : Commit(r) \/ CommitWithdrawal(r)) \/ UNCHANGED ledgerVars
  <1>1. ASSUME NEW r \in Requests, Arrival(r) \/ RequestStep(r)
        PROVE  Commit(r) \/ CommitWithdrawal(r) \/ UNCHANGED ledgerVars
    BY <1>1, QuietRequest
  <1>2. ASSUME NEW r \in Requests, Rollback(r) \/ TimesOut(r) \/ FlushFails(r) \/ Crash(r)
        PROVE  UNCHANGED ledgerVars
    BY <1>2 DEF Rollback, TimesOut, Fail, FlushFails, Crash
  <1>3. ASSUME NEW d \in Readers, ReaderStep(d) PROVE UNCHANGED ledgerVars
    BY <1>3 DEF ReaderStep, ReadUserCache, ReadUserRow, FillUser, ReadCurveCache, ReadCurveRow,
                FillCurve, Reading
  <1>4. CASE LockExpires \/ ValkeyLosesData \/ UNCHANGED engineVars
    BY <1>4 DEF LockExpires, ValkeyLosesData, engineVars
  <1>5. QED
    BY <1>1, <1>2, <1>3, <1>4 DEF LossyNext, EngineNext, PromptNext

\* Every step of the engine is one step of the book, or none.
LEMMA EngineStepBooks == EngineInv /\ [LossyNext]_engineVars => [LedgerNext]_ledgerVars
  <1>1. ASSUME EngineInv, NEW r \in Requests, Commit(r) \/ CommitWithdrawal(r) PROVE LedgerNext
    BY <1>1, CommitBooks, CommitWithdrawalBooks
  <1>2. QED
    BY <1>1, OnlyCommitsWrite

LEMMA EngineKept == EngineInit /\ [][LossyNext]_engineVars => []EngineInv
  BY EngineInitially, EngineStepSound, PTL

\* The concurrent engine implements the account book, although Valkey may
\* lose the lock of the curve at any time: "no two trades compute against
\* stale reserves" (repo.ts:63-64).
THEOREM EngineBooks == EngineInit /\ [][LossyNext]_engineVars => ImplementsLedger
  BY EngineKept, EngineInitially, EngineStepBooks, PTL DEF ImplementsLedger, LedgerSpec

LEMMA SafetyIsLossy == EngineSafety => EngineInit /\ [][LossyNext]_engineVars
  <1>1. [EngineNext]_engineVars => [LossyNext]_engineVars
    BY DEF LossyNext
  <1>2. QED
    BY <1>1, PTL DEF EngineSafety

\* So the engine can pay every quote, and no trade that was waiting or being
\* computed at the graduation is executed after it.
THEOREM EnginePays == EngineSafety => []QuotesPayable
  BY SafetyIsLossy, EngineBooks, BookQuotesPayable, PTL DEF ImplementsLedger

THEOREM EngineCloses == EngineSafety => ClosedOnceComplete
  BY SafetyIsLossy, EngineBooks, BookClosed, PTL DEF ImplementsLedger

\* So do the accounts of the engine add up, over all interleavings of its
\* requests and whatever of them fail or crash: every lamport deposited ...
THEOREM EngineSolAccounted == EngineSafety => []SolAccounted
  BY SafetyIsLossy, EngineBooks, BookSolAccounted, PTL DEF ImplementsLedger

\* ... and every token sold is accounted for ...
THEOREM EngineTokensAccounted == EngineSafety => []TokensAccounted
  BY SafetyIsLossy, EngineBooks, BookTokensAccounted, PTL DEF ImplementsLedger

\* ... and a curve that has no tokens left sells no more.
THEOREM EngineSoldOutIsClosed ==
    ASSUME SeedSuffices
    PROVE  EngineSafety => []SoldOutIsClosed
  BY SafetyIsLossy, EngineBooks, BookSoldOutIsClosed, PTL DEF ImplementsLedger
-----------------------------------------------------------------------------
(***************************************************************************)
(* The caches.                                                             *)
(***************************************************************************)
CurveCaches == [cached : BOOLEAN, reserves : Reserves, complete : BOOLEAN, late : BOOLEAN]

ReaderRows ==
    [step : {"idle", "user row", "fill user", "curve", "curve row", "fill curve"},
     wallet : Wallets \cup {Nobody}, user : UserRows, curve : CurveCaches]

CachesTyped ==
    /\ userCache \in [Wallets -> UserRows]
    /\ curveCache \in CurveCaches
    /\ reader \in [Readers -> ReaderRows]
    /\ \A d \in Readers : reader[d].step \in {"user row", "fill user"} => reader[d].wallet \in Wallets

LEMMA CacheRow ==
    ASSUME NEW c \in Reserves, NEW closed \in BOOLEAN
    PROVE  /\ CacheOf(c, closed) \in CurveCaches
           /\ CachedCurve(c) \in CurveCaches
           /\ CachedCurve(c).cached = TRUE
           /\ NoCurve \in CurveCaches
  BY LedgerAssumption DEF CacheOf, CachedCurve, NoCurve, CurveCaches, HasGraduated

\* A late write is marked, and otherwise like another.
LEMMA LateRow ==
    ASSUME NEW c \in CurveCaches, NEW d, d = [c EXCEPT !.late = TRUE]
    PROVE  d \in CurveCaches /\ d.late = TRUE /\ d.cached = c.cached
  BY DEF CurveCaches

\* What a callback writes through, in time or late.
LEMMA WrittenCurve ==
    ASSUME EngineInv, NEW r \in Requests, CacheCurve(r)
    PROVE  /\ curveCache' \in CurveCaches /\ curveCache'.cached = TRUE
           /\ userCache' = userCache /\ reader' = reader
           /\ \/ /\ request[r].step = "cache" /\ Goto(r, "commit")
                 /\ curveCache' = CachedCurve(request[r].curve)
              \/ /\ request[r].step = "late cache" /\ Goto(r, "release")
                 /\ curveCache'.late = TRUE
  <1>1. request[r].curve \in Reserves
    BY DEF EngineInv, RequestsTyped, RequestRows
  <1>2. userCache' = userCache /\ reader' = reader
    BY DEF CacheCurve
  <1>3. CASE request[r].step = "cache"
    BY <1>1, <1>2, <1>3, CacheRow DEF CacheCurve, CachedAfter, At
  <1>4. CASE request[r].step = "late cache"
    <2>1. PICK c \in CurveCaches : c = CachedCurve(request[r].curve) /\ c.cached = TRUE
      BY <1>1, CacheRow
    <2>2. Goto(r, "release") /\ curveCache' = [c EXCEPT !.late = TRUE]
      BY <1>4, <2>1 DEF CacheCurve, CachedAfter, At
    <2>3. QED
      BY <1>2, <1>4, <2>1, <2>2, LateRow
  <1>5. QED
    BY <1>3, <1>4 DEF CacheCurve, At

LEMMA ReadersTyped ==
    ASSUME CachesTyped, LedgerTypeOK, NEW d \in Readers, ReaderStep(d)
    PROVE  CachesTyped'
  <1>1. /\ reader \in [Readers -> ReaderRows] /\ reader[d] \in ReaderRows
        /\ userCache \in [Wallets -> UserRows] /\ curveCache \in CurveCaches
        /\ users \in [Wallets -> UserRows] /\ curve \in Reserves /\ complete \in BOOLEAN
    BY DEF CachesTyped, LedgerTypeOK
  <1>2. NotReading \in ReaderRows /\ NotReading.step = "idle"
    BY LedgerAssumption DEF NotReading, ReaderRows, NoCurve, CurveCaches, UserRows
  <1>3. ASSUME NEW step, NEW row \in ReaderRows, Reading(d, step, row),
               row.step \in {"user row", "fill user"} => row.wallet \in Wallets,
               userCache' \in [Wallets -> UserRows], curveCache' \in CurveCaches
        PROVE  CachesTyped'
    BY <1>1, <1>3 DEF Reading, CachesTyped
  <1>4. ASSUME NEW w \in Wallets, ReadUserCache(d, w) PROVE CachesTyped'
    <2>1. PICK s : /\ s = IF userCache[w].exists THEN "curve" ELSE "user row"
                   /\ s \in {"curve", "user row"}
      OBVIOUS
    <2>2. PICK row : row = [NotReading EXCEPT !.step = s, !.wallet = w]
      OBVIOUS
    <2>3. row \in ReaderRows /\ row.wallet \in Wallets
      BY <1>2, <2>1, <2>2 DEF ReaderRows
    <2>4. Reading(d, "idle", row) /\ UNCHANGED cacheVars
      BY <1>4, <2>1, <2>2 DEF ReadUserCache
    <2>5. QED
      BY <1>1, <1>3, <2>3, <2>4 DEF cacheVars
  <1>5. CASE ReadUserRow(d)
    <2>1. reader[d].step = "user row" /\ reader[d].wallet \in Wallets
      BY <1>5 DEF ReadUserRow, Reading, CachesTyped
    <2>2. PICK u, found : /\ u = users[reader[d].wallet] /\ u \in UserRows
                          /\ found = [reader[d] EXCEPT !.step = "fill user", !.user = u]
      BY <1>1, <2>1
    <2>3. found \in ReaderRows /\ found.wallet \in Wallets
      BY <1>1, <2>1, <2>2 DEF ReaderRows
    <2>4. Reading(d, "user row", IF u.exists THEN found ELSE NotReading) /\ UNCHANGED cacheVars
      BY <1>5, <2>2 DEF ReadUserRow
    <2>5. CASE u.exists
      <3>1. Reading(d, "user row", found)
        BY <2>4, <2>5
      <3>2. QED
        BY <1>1, <1>3, <2>3, <2>4, <3>1 DEF cacheVars
    <2>6. CASE ~u.exists
      <3>1. Reading(d, "user row", NotReading)
        BY <2>4, <2>6
      <3>2. QED
        BY <1>1, <1>2, <1>3, <2>4, <3>1 DEF cacheVars
    <2>7. QED
      BY <2>5, <2>6
  <1>6. CASE FillUser(d)
    <2>1. PICK row : row = [NotReading EXCEPT !.step = "curve"]
      OBVIOUS
    <2>2. row \in ReaderRows /\ row.step = "curve"
      BY <1>2, <2>1 DEF ReaderRows
    <2>3. Reading(d, "fill user", row) /\ curveCache' = curveCache
          /\ userCache' = [userCache EXCEPT ![reader[d].wallet] = reader[d].user]
      BY <1>6, <2>1 DEF FillUser
    <2>4. userCache' \in [Wallets -> UserRows]
      BY <1>1, <2>3 DEF ReaderRows
    <2>5. QED
      BY <1>1, <1>3, <2>2, <2>3, <2>4
  <1>7. CASE ReadCurveCache(d)
    <2>1. PICK missed : missed = [NotReading EXCEPT !.step = "curve row"]
      OBVIOUS
    <2>2. missed \in ReaderRows /\ missed.step = "curve row"
      BY <1>2, <2>1 DEF ReaderRows
    <2>3. PICK row : /\ row = IF curveCache.cached THEN NotReading ELSE missed
                     /\ row \in ReaderRows /\ row.step \notin {"user row", "fill user"}
      BY <1>2, <2>2
    <2>4. PICK step : Reading(d, step, row)
      BY <1>7, <2>1, <2>3 DEF ReadCurveCache
    <2>5. UNCHANGED cacheVars
      BY <1>7 DEF ReadCurveCache
    <2>6. QED
      BY <1>1, <1>3, <2>3, <2>4, <2>5 DEF cacheVars
  <1>8. CASE ReadCurveRow(d)
    <2>1. PICK c \in CurveCaches : c = CacheOf(curve, complete)
      BY <1>1, CacheRow
    <2>2. PICK row : row = [NotReading EXCEPT !.step = "fill curve", !.curve = c]
      OBVIOUS
    <2>3. row \in ReaderRows /\ row.step = "fill curve"
      BY <1>2, <2>2 DEF ReaderRows
    <2>4. Reading(d, "curve row", row) /\ UNCHANGED cacheVars
      BY <1>8, <2>1, <2>2 DEF ReadCurveRow
    <2>5. QED
      BY <1>1, <1>3, <2>3, <2>4 DEF cacheVars
  <1>9. CASE FillCurve(d)
    <2>1. Reading(d, "fill curve", NotReading) /\ userCache' = userCache
          /\ curveCache' \in CurveCaches
      BY <1>1, <1>9 DEF FillCurve, ReaderRows
    <2>2. QED
      BY <1>1, <1>2, <1>3, <2>1
  <1>10. QED
    BY <1>4, <1>5, <1>6, <1>7, <1>8, <1>9 DEF ReaderStep

LEMMA CachesStep == EngineInv /\ EngineInv' /\ CachesTyped /\ [LossyNext]_engineVars => CachesTyped'
  <1> SUFFICES ASSUME EngineInv, EngineInv', CachesTyped, [LossyNext]_engineVars PROVE CachesTyped'
    OBVIOUS
  <1>1. request \in [Requests -> RequestRows] /\ request' \in [Requests -> RequestRows]
    BY DEF EngineInv, RequestsTyped
  <1>2. userCache \in [Wallets -> UserRows] /\ curveCache \in CurveCaches
    BY DEF CachesTyped
  <1>3. ASSUME reader' = reader, userCache' \in [Wallets -> UserRows], curveCache' \in CurveCaches
        PROVE  CachesTyped'
    BY <1>3 DEF CachesTyped
  <1>4. ASSUME NEW r \in Requests, CacheCurve(r) PROVE CachesTyped'
    BY <1>2, <1>3, <1>4, WrittenCurve
  <1>5. ASSUME NEW r \in Requests, Flush(r) \/ RefreshUser(r) PROVE CachesTyped'
    <2>1. request[r].user \in UserRows
      BY <1>1 DEF RequestRows
    <2>2. reader' = reader /\ curveCache' = curveCache
      BY <1>5 DEF Flush, RefreshUser
    <2>3. userCache' = [userCache EXCEPT ![request[r].wallet] = request[r].user]
      BY <1>5 DEF Flush, RefreshUser
    <2>4. QED
      BY <1>2, <1>3, <2>1, <2>2, <2>3
  <1>6. ASSUME NEW r \in Requests,
               \/ Arrival(r) \/ RequestStep(r)
               \/ Rollback(r) \/ TimesOut(r) \/ FlushFails(r) \/ Crash(r),
               ~CacheCurve(r), ~Flush(r), ~RefreshUser(r)
        PROVE  CachesTyped'
    <2>1. UNCHANGED <<cacheVars, reader>>
      <3>1. CASE Arrival(r)
        BY <3>1 DEF Arrival, BeginDeposit, BeginPick, BeginWithdrawal
      <3>2. CASE RequestStep(r)
        BY <1>6, <3>2
           DEF RequestStep, CheckPrior, AcquireLock, GiveUp, LockCurveRow, RejectClosed, Fail,
               InsertDeposit, Autobuy, ChooseWallet, LockChosen, Liquidate, SaveCurve, Commit,
               Release, LockWithdrawer, Debit, CommitWithdrawal
      <3>3. CASE Rollback(r) \/ TimesOut(r) \/ FlushFails(r) \/ Crash(r)
        BY <3>3 DEF Rollback, TimesOut, Fail, FlushFails, Crash
      <3>4. QED
        BY <1>6, <3>1, <3>2, <3>3
    <2>2. QED
      BY <1>2, <1>3, <2>1 DEF cacheVars
  <1>7. ASSUME NEW d \in Readers, ReaderStep(d) PROVE CachesTyped'
    BY <1>7, ReadersTyped DEF EngineInv, LedgerInv
  <1>8. CASE LockExpires \/ UNCHANGED engineVars
    <2>1. UNCHANGED <<cacheVars, reader>>
      BY <1>8 DEF LockExpires, engineVars
    <2>2. QED
      BY <1>2, <1>3, <2>1 DEF cacheVars
  <1>9. CASE ValkeyLosesData
    <2>1. reader' = reader /\ userCache' \in [Wallets -> UserRows] /\ curveCache' \in CurveCaches
      BY <1>9, CacheRow, GenesisSound DEF ValkeyLosesData, UserRows, CurveSound
    <2>2. QED
      BY <1>3, <2>1
  <1>10. QED
    BY <1>4, <1>5, <1>6, <1>7, <1>8, <1>9 DEF LossyNext, EngineNext, PromptNext

LEMMA CachesInitially == EngineInit => CachesTyped
  <1> SUFFICES ASSUME EngineInit PROVE CachesTyped
    OBVIOUS
  <1>1. CachedCurve(Genesis) \in CurveCaches /\ NoCurve \in CurveCaches
    BY CacheRow, GenesisSound DEF CurveSound
  <1>2. NotReading \in ReaderRows /\ NotReading.step = "idle"
    BY <1>1 DEF NotReading, ReaderRows, UserRows
  <1>3. QED
    BY <1>1, <1>2 DEF EngineInit, CachesTyped, UserRows

\* The tables, the locks, the requests and the caches keep their types.
THEOREM EngineTypes == EngineSafety => []EngineTypeOK
  <1>1. EngineInv /\ CachesTyped => EngineTypeOK
    BY DEF EngineInv, LedgerInv, RequestsTyped, CachesTyped, CurveCaches, RequestRows, EngineTypeOK
  <1>2. QED
    BY <1>1, SafetyIsLossy, EngineKept, CachesInitially, CachesStep, PTL
(***************************************************************************)
(* As long as Valkey keeps its data, the curve is always cached, no reader *)
(* fills the cache, and the one trade about to commit has cached its own   *)
(* curve, unless one that is closed already has come in between.           *)
(***************************************************************************)
CacheInv ==
    /\ curveCache.cached = TRUE
    /\ \A d \in Readers : reader[d].step \notin {"curve row", "fill curve"}
    /\ \A r \in Requests : request[r].step = "commit" =>
          curveCache = CachedCurve(request[r].curve) \/ curveCache.late

LEMMA CacheInitially == EngineInit => CacheInv
  <1> SUFFICES ASSUME EngineInit PROVE CacheInv
    OBVIOUS
  <1>1. CachedCurve(Genesis).cached = TRUE
    BY DEF CachedCurve, CacheOf
  <1>2. QED
    BY <1>1 DEF EngineInit, CacheInv, Idle, NotReading

LEMMA MovedCurve ==
    ASSUME request \in [Requests -> RequestRows], NEW r \in Requests, NEW s, Goto(r, s)
    PROVE  \E q : /\ request' = [request EXCEPT ![r] = q]
                  /\ q.step = s /\ q.curve = request[r].curve
  <1>1. PICK q : q = [request[r] EXCEPT !.step = s]
    OBVIOUS
  <1>2. q.step = s /\ q.curve = request[r].curve
    BY <1>1 DEF RequestRows
  <1>3. request' = [request EXCEPT ![r] = q]
    BY <1>1 DEF Goto
  <1>4. QED
    BY <1>2, <1>3

LEMMA CacheStep ==
    EngineInv /\ EngineInv' /\ CachesTyped /\ CacheInv /\ [EngineNext]_engineVars => CacheInv'
  <1> SUFFICES ASSUME EngineInv, EngineInv', CachesTyped, CacheInv, [EngineNext]_engineVars
               PROVE  CacheInv'
    OBVIOUS
  <1>1. /\ request \in [Requests -> RequestRows] /\ reader \in [Readers -> ReaderRows]
        /\ request' \in [Requests -> RequestRows]
    BY DEF EngineInv, RequestsTyped, CachesTyped
  <1>2. ASSUME NEW r \in Requests, CacheCurve(r) PROVE CacheInv'
    <2>1. PICK q : /\ request' = [request EXCEPT ![r] = q]
                   /\ q.curve = request[r].curve
                   /\ \/ Goto(r, "commit") /\ q.step = "commit"
                      \/ Goto(r, "release") /\ q.step = "release"
      <3>1. Goto(r, "commit") \/ Goto(r, "release")
        BY <1>2, WrittenCurve
      <3>2. ASSUME NEW s \in {"commit", "release"}, Goto(r, s)
            PROVE  \E q : /\ request' = [request EXCEPT ![r] = q]
                          /\ q.curve = request[r].curve
                          /\ \/ Goto(r, "commit") /\ q.step = "commit"
                             \/ Goto(r, "release") /\ q.step = "release"
        BY <1>1, <3>2, MovedCurve
      <3>3. QED
        BY <3>1, <3>2
    <2>2. /\ request'[r] = q /\ \A o \in Requests \ {r} : request'[o] = request[o]
          /\ curveCache'.cached = TRUE /\ reader' = reader
      BY <1>1, <1>2, <2>1, WrittenCurve
    <2>3. CASE curveCache'.late = TRUE
      BY <2>2, <2>3 DEF CacheInv
    <2>4. CASE request[r].step = "cache" /\ curveCache' = CachedCurve(request[r].curve)
      <3>1. \A o \in Requests \ {r} : request[o].step # "commit"
        BY <2>4 DEF EngineInv, RequestSound, Holds
      <3>2. \A o \in Requests : request'[o].step = "commit" =>
               curveCache' = CachedCurve(request'[o].curve)
        BY <2>1, <2>2, <2>4, <3>1
      <3>3. QED
        BY <2>2, <3>2 DEF CacheInv
    <2>5. QED
      BY <1>2, <2>3, <2>4, WrittenCurve
  <1>3. ASSUME reader' = reader, curveCache' = curveCache,
               \A o \in Requests : request'[o].step = "commit" => request'[o] = request[o]
        PROVE  CacheInv'
    BY <1>3 DEF CacheInv
  <1>4. ASSUME NEW r \in Requests,
               \/ Arrival(r) \/ RequestStep(r)
               \/ Rollback(r) \/ TimesOut(r) \/ FlushFails(r) \/ Crash(r),
               ~CacheCurve(r)
        PROVE  CacheInv'
    <2>1. reader' = reader /\ curveCache' = curveCache
      <3>1. CASE Arrival(r)
        BY <3>1 DEF Arrival, BeginDeposit, BeginPick, BeginWithdrawal, cacheVars
      <3>2. CASE RequestStep(r)
        BY <1>4, <3>2
           DEF RequestStep, CheckPrior, AcquireLock, GiveUp, LockCurveRow, RejectClosed, Fail,
               InsertDeposit, Autobuy, ChooseWallet, LockChosen, Liquidate, SaveCurve, Commit,
               Flush, Release, LockWithdrawer, Debit, RefreshUser, CommitWithdrawal, cacheVars
      <3>3. CASE Rollback(r) \/ TimesOut(r) \/ FlushFails(r) \/ Crash(r)
        BY <3>3 DEF Rollback, TimesOut, Fail, FlushFails, Crash, cacheVars
      <3>4. QED
        BY <1>4, <3>1, <3>2, <3>3
    <2>2. ASSUME NEW q, request' = [request EXCEPT ![r] = q], q.step # "commit"
          PROVE  \A o \in Requests : request'[o].step = "commit" => request'[o] = request[o]
      BY <1>1, <2>2
    <2>3. ASSUME NEW s, Goto(r, s), s # "commit"
          PROVE  \A o \in Requests : request'[o].step = "commit" => request'[o] = request[o]
      <3>1. request' = [request EXCEPT ![r] = [request[r] EXCEPT !.step = s]]
        BY <1>1, <2>3 DEF Goto
      <3>2. [request[r] EXCEPT !.step = s].step = s
        BY <1>1 DEF RequestRows
      <3>3. QED
        BY <1>1, <2>3, <3>1, <3>2
    <2>4. \A o \in Requests : request'[o].step = "commit" => request'[o] = request[o]
      <3>1. CASE End(r)
        BY <1>1, <3>1 DEF End, Idle
      <3>2. CASE Arrival(r)
        BY <1>1, <3>2 DEF Arrival, BeginDeposit, BeginPick, BeginWithdrawal, Idle
      <3>3. CASE Fail(r) \/ Commit(r) \/ Flush(r) \/ FlushFails(r) \/ InsertDeposit(r)
                   \/ AcquireLock(r) \/ TimesOut(r)
        BY <2>3, <3>3
           DEF Fail, Commit, Flush, FlushFails, InsertDeposit, AcquireLock, TimesOut
      <3>4. CASE CheckPrior(r) \/ LockWithdrawer(r)
        BY <2>3, <3>1, <3>4 DEF CheckPrior, LockWithdrawer, NoFurtherRow
      <3>5. CASE LockCurveRow(r)
        BY <1>1, <3>5 DEF LockCurveRow, RequestRows
      <3>6. CASE ChooseWallet(r)
        <4>1. ASSUME NEW w \in Wallets,
                     request' = [request EXCEPT ![r].wallet = w, ![r].step = "chosen"]
              PROVE  \A o \in Requests : request'[o].step = "commit" => request'[o] = request[o]
          BY <1>1, <4>1 DEF RequestRows
        <4>2. QED
          BY <3>3, <3>6, <4>1 DEF ChooseWallet
      <3>7. CASE LockChosen(r)
        BY <1>1, <3>3, <3>7 DEF LockChosen, RequestRows
      <3>8. CASE Debit(r)
        BY <1>1, <3>8 DEF Debit, RequestRows
      <3>9. CASE RefreshUser(r)
        BY <2>3, <3>1, <3>9 DEF RefreshUser
      <3>10. CASE Autobuy(r) \/ Liquidate(r)
        <4>1. ASSUME NEW c, NEW u, NEW fee, SaveCurve(r, c, u, fee)
              PROVE  \A o \in Requests : request'[o].step = "commit" => request'[o] = request[o]
          BY <1>1, <4>1 DEF SaveCurve, RequestRows
        <4>2. QED
          BY <3>3, <3>10, <4>1 DEF Autobuy, Liquidate
      <3>11. QED
        BY <1>4, <3>1, <3>2, <3>3, <3>4, <3>5, <3>6, <3>7, <3>8, <3>9, <3>10
           DEF RequestStep, Rollback, Crash, GiveUp, Release, RejectClosed, CommitWithdrawal
    <2>5. QED
      BY <1>3, <2>1, <2>4
  <1>5. ASSUME NEW d \in Readers, ReaderStep(d) PROVE CacheInv'
    <2>1. reader[d].step \notin {"curve row", "fill curve"} /\ curveCache.cached = TRUE
      BY DEF CacheInv
    <2>2. ~ReadCurveRow(d) /\ ~FillCurve(d)
      BY <2>1 DEF ReadCurveRow, FillCurve, Reading
    <2>3. request' = request /\ curveCache' = curveCache
      BY <1>5, <2>2 DEF ReaderStep, ReadUserCache, ReadUserRow, FillUser, ReadCurveCache, Reading,
                        cacheVars
    <2>4. \A o \in Readers : reader'[o].step \notin {"curve row", "fill curve"}
      <3>1. ASSUME NEW step, NEW row, Reading(d, step, row), row.step \notin {"curve row", "fill curve"}
            PROVE  \A o \in Readers : reader'[o].step \notin {"curve row", "fill curve"}
        BY <1>1, <3>1 DEF Reading, CacheInv
      <3>2. QED
        BY <1>1, <1>5, <2>1, <2>2, <3>1
           DEF ReaderStep, ReadUserCache, ReadUserRow, FillUser, ReadCurveCache, NotReading,
               ReaderRows
    <2>5. QED
      BY <2>3, <2>4 DEF CacheInv
  <1>6. CASE LockExpires \/ UNCHANGED engineVars
    BY <1>6 DEF LockExpires, engineVars, cacheVars, CacheInv
  <1>7. QED
    BY <1>2, <1>4, <1>5, <1>6 DEF EngineNext, PromptNext

\* A commit finds its own curve in the cache, or that of a trade whose
\* transaction had been closed before it wrote, whatever becomes of the lock of
\* the curve, for any requests and readers: no two trades that are both able to
\* commit write the cache in another order than they commit.
THEOREM CacheInOrder == EngineSafety => CurveCachedInOrder
  <1>1. EngineInv /\ CacheInv /\ [EngineNext]_engineVars
          => [curve' # curve =>
                curveCache' = CachedCurve(curve') \/ curveCache'.late]_engineVars
    <2> SUFFICES ASSUME EngineInv, CacheInv, EngineNext, curve' # curve
                 PROVE  curveCache' = CachedCurve(curve') \/ curveCache'.late
      OBVIOUS
    <2>1. PICK r \in Requests : Commit(r)
      <3>1. \A r \in Requests : CommitWithdrawal(r) => curve' = curve
        BY DEF CommitWithdrawal
      <3>2. UNCHANGED ledgerVars => curve' = curve
        BY DEF ledgerVars
      <3>3. [LossyNext]_engineVars
        BY DEF LossyNext
      <3>4. QED
        BY <3>1, <3>2, <3>3, OnlyCommitsWrite
    <2>2. curve' = request[r].curve /\ curveCache' = curveCache /\ request[r].step = "commit"
      BY <2>1 DEF Commit, cacheVars, At
    <2>3. QED
      BY <2>2 DEF CacheInv
  <1>2. EngineSafety => [][EngineNext]_engineVars
    BY PTL DEF EngineSafety
  <1>3. EngineSafety => []EngineInv /\ []CachesTyped
    BY SafetyIsLossy, EngineKept, CachesInitially, CachesStep, PTL
  <1>4. EngineSafety => []CacheInv
    BY <1>2, <1>3, CacheInitially, CacheStep, PTL DEF EngineSafety
  <1>5. QED
    BY <1>1, <1>2, <1>3, <1>4, PTL DEF CurveCachedInOrder

-----------------------------------------------------------------------------
(***************************************************************************)
(* Who waits for whom.  A transaction waits for a row another one holds.   *)
(* A trade locks the curve's row before a user's, a withdrawal locks only  *)
(* a user's, and both give their rows back whichever way they end; so a    *)
(* request that waits is two steps at most from one that does not.         *)
(***************************************************************************)
\* Rows are held by transactions in the steps that follow their lock, and by
\* nobody that has come to an end.
OwnRows(r) ==
    /\ curveRow = r => request[r].step \in {"closed", "user", "chosen", "trade", "cache", "commit"}
    /\ \A w \in Wallets : userRow[w] = r =>
          /\ request[r].wallet = w
          /\ request[r].step \in {"trade", "cache", "commit", "debit", "refresh", "commit withdrawal"}

RowsHeld == \A r \in Requests : OwnRows(r)

\* The other requests keep their step and gain no row.
OthersGain(r) ==
    \A o \in Requests \ {r} :
        /\ request'[o] = request[o]
        /\ curveRow' = o => curveRow = o
        /\ \A w \in Wallets : userRow'[w] = o => userRow[w] = o

LEMMA RowsStep ==
    ASSUME RowsHeld, NEW r \in Requests, OthersGain(r), OwnRows(r)'
    PROVE  RowsHeld'
  <1>1. ASSUME NEW o \in Requests \ {r} PROVE OwnRows(o)'
    <2>1. OwnRows(o)
      BY DEF RowsHeld
    <2>2. /\ request'[o] = request[o]
          /\ curveRow' = o => curveRow = o
          /\ \A w \in Wallets : userRow'[w] = o => userRow[w] = o
      BY <1>1 DEF OthersGain
    <2>3. QED
      BY <2>1, <2>2 DEF OwnRows
  <1>2. QED
    BY <1>1 DEF RowsHeld

\* A transaction that ends keeps no row.
LEMMA EndedRows ==
    ASSUME RequestsTyped, RowsHeld, NEW r \in Requests, UnlockRows(r),
           NEW q, request' = [request EXCEPT ![r] = q]
    PROVE  RowsHeld'
  <1>1. /\ \A o \in Requests : o # Nobody
        /\ \A o \in Requests \ {r} : request'[o] = request[o]
    BY TradeEngineAssumption DEF RequestsTyped
  <1>2. OthersGain(r)
    BY <1>1 DEF OthersGain, UnlockRows
  <1>3. curveRow' # r /\ \A w \in Wallets : userRow'[w] # r
    BY <1>1 DEF UnlockRows
  <1>4. OwnRows(r)'
    BY <1>3 DEF OwnRows
  <1>5. QED
    BY <1>2, <1>4, RowsStep

\* Outside of a transaction there is none to keep.
LEMMA NoRows ==
    ASSUME RequestsTyped, RowsHeld, NEW r \in Requests,
           request[r].step \in {"idle", "prior", "lock", "withdraw", "late cache", "flush",
                                 "release", "late refresh"},
           UNCHANGED <<curveRow, userRow>>, NEW q, request' = [request EXCEPT ![r] = q]
    PROVE  RowsHeld'
  <1>1. OwnRows(r)
    BY DEF RowsHeld
  <1>2. curveRow' # r /\ \A w \in Wallets : userRow'[w] # r
    BY <1>1 DEF OwnRows
  <1>3. OwnRows(r)' /\ OthersGain(r)
    BY <1>2 DEF OwnRows, OthersGain, RequestsTyped
  <1>4. QED
    BY <1>3, RowsStep

\* A transaction that has the rows its step comes with goes on to one that
\* comes with these and, may be, the user's row it has locked.
LEMMA UserRowTaken ==
    ASSUME RequestsTyped, RowsHeld, NEW r \in Requests,
           request[r].step \in {"user", "chosen", "withdraw"},
           NEW w \in Wallets, w = request[r].wallet,
           NEW q, request' = [request EXCEPT ![r] = q], q.wallet = w,
           \/ q.step = "trade" /\ request[r].step # "withdraw"
           \/ q.step = "debit" /\ request[r].step = "withdraw",
           userRow' = [userRow EXCEPT ![w] = r], UNCHANGED curveRow
    PROVE  RowsHeld'
  <1>1. OwnRows(r)
    BY DEF RowsHeld
  <1>2. /\ request'[r] = q
        /\ \A o \in Requests \ {r} : request'[o] = request[o]
        /\ \A x \in Wallets : userRow'[x] = IF x = w THEN r ELSE userRow[x]
    BY DEF RequestsTyped
  <1>3. OwnRows(r)' /\ OthersGain(r)
    BY <1>1, <1>2 DEF OwnRows, OthersGain
  <1>4. QED
    BY <1>3, RowsStep

LEMMA SameRows ==
    ASSUME RequestsTyped, RowsHeld, NEW r \in Requests,
           NEW q, request' = [request EXCEPT ![r] = q],
           \/ request[r].step = "user" /\ q.step = "chosen"
           \/ /\ q.wallet = request[r].wallet
              /\ \/ request[r].step = "trade" /\ q.step = "cache"
                 \/ request[r].step = "cache" /\ q.step = "commit"
                 \/ request[r].step = "debit" /\ q.step = "refresh"
                 \/ request[r].step = "refresh" /\ q.step = "commit withdrawal",
           UNCHANGED <<curveRow, userRow>>
    PROVE  RowsHeld'
  <1>1. OwnRows(r)
    BY DEF RowsHeld
  <1>2. request'[r] = q /\ \A o \in Requests \ {r} : request'[o] = request[o]
    BY DEF RequestsTyped
  <1>3. OwnRows(r)' /\ OthersGain(r)
    BY <1>1, <1>2 DEF OwnRows, OthersGain
  <1>4. QED
    BY <1>3, RowsStep

LEMMA GotoRow ==
    ASSUME RequestsTyped, NEW r \in Requests, NEW step, Goto(r, step)
    PROVE  \E q : /\ request' = [request EXCEPT ![r] = q]
                  /\ q.step = step /\ q.wallet = request[r].wallet
  <1>1. PICK q : q = [request[r] EXCEPT !.step = step]
    OBVIOUS
  <1>2. request[r] \in RequestRows
    BY DEF RequestsTyped
  <1>3. q.step = step /\ q.wallet = request[r].wallet
    BY <1>1, <1>2 DEF RequestRows
  <1>4. request' = [request EXCEPT ![r] = q]
    BY <1>1 DEF Goto
  <1>5. QED
    BY <1>3, <1>4

LEMMA FailedRows ==
    ASSUME RequestsTyped, RowsHeld, NEW r \in Requests, Fail(r)
    PROVE  RowsHeld'
  <1>1. UnlockRows(r) /\ Goto(r, "release")
    BY DEF Fail
  <1>2. PICK q : request' = [request EXCEPT ![r] = q]
    BY <1>1, GotoRow
  <1>3. QED
    BY <1>1, <1>2, EndedRows

\* The steps in which a request takes the rows it needs.
LEMMA TradeRows ==
    ASSUME EngineInv, RowsHeld, NEW r \in Requests,
           \/ LockCurveRow(r) \/ InsertDeposit(r) \/ ChooseWallet(r) \/ LockChosen(r)
           \/ LockWithdrawer(r)
    PROVE  RowsHeld'
  <1>1. RequestsTyped /\ Asks(r) /\ OwnRows(r)
    BY DEF EngineInv, RequestSound, RowsHeld
  <1>2. PICK old \in RequestRows : old = request[r]
    BY <1>1 DEF RequestsTyped
  <1>3. CASE LockCurveRow(r)
    <2>1. PICK step \in {"user", "closed"} : step = IF TradingOpen THEN "user" ELSE "closed"
      OBVIOUS
    <2>2. /\ old.step = "transaction" /\ curveRow = Nobody
          /\ curveRow' = r /\ UNCHANGED userRow
          /\ request' = [request EXCEPT ![r].curve = curve, ![r].step = step]
      BY <1>2, <1>3, <2>1 DEF LockCurveRow, At, CurveRowFree
    <2>3. /\ request'[r].step = step
          /\ \A o \in Requests \ {r} : request'[o] = request[o]
      BY <1>1, <1>2, <2>2 DEF RequestsTyped, RequestRows
    <2>4. \A w \in Wallets : userRow'[w] # r
      BY <1>1, <1>2, <2>2 DEF OwnRows
    <2>5. OwnRows(r)'
      BY <2>3, <2>4 DEF OwnRows
    <2>6. OthersGain(r)
      BY <2>2, <2>3 DEF OthersGain
    <2>7. QED
      BY <2>5, <2>6, RowsStep
  <1>4. CASE InsertDeposit(r)
    <2>1. CASE Fail(r)
      BY <1>1, <2>1, FailedRows
    <2>2. CASE ~Fail(r)
      <3>1. PICK w : w = request[r].wallet
        OBVIOUS
      <3>2. /\ request[r].step = "user" /\ request[r].kind = "deposit"
            /\ userRow' = [userRow EXCEPT ![w] = r]
            /\ Goto(r, "trade") /\ UNCHANGED curveRow
        BY <1>4, <2>2, <3>1 DEF InsertDeposit, At
      <3>3. w \in Wallets
        BY <1>1, <3>1, <3>2 DEF Asks
      <3>4. PICK q : /\ request' = [request EXCEPT ![r] = q]
                     /\ q.step = "trade" /\ q.wallet = w
        BY <1>1, <3>1, <3>2, GotoRow
      <3>5. QED
        BY <1>1, <3>1, <3>2, <3>3, <3>4, UserRowTaken
    <2>3. QED
      BY <2>1, <2>2
  <1>5. CASE ChooseWallet(r)
    <2>1. CASE Fail(r)
      BY <1>1, <2>1, FailedRows
    <2>2. CASE ~Fail(r)
      <3>1. PICK w \in Wallets :
               request' = [request EXCEPT ![r].wallet = w, ![r].step = "chosen"]
        BY <1>5, <2>2 DEF ChooseWallet
      <3>2. request[r].step = "user" /\ UNCHANGED <<curveRow, userRow>>
        BY <1>5, <2>2 DEF ChooseWallet, At, lockVars
      <3>3. PICK q : q = [old EXCEPT !.wallet = w, !.step = "chosen"]
        OBVIOUS
      <3>4. request' = [request EXCEPT ![r] = q] /\ q.step = "chosen"
        BY <1>1, <1>2, <3>1, <3>3 DEF RequestsTyped, RequestRows
      <3>5. QED
        BY <1>1, <3>2, <3>4, SameRows
    <2>3. QED
      BY <2>1, <2>2
  <1>6. CASE LockChosen(r)
    <2>1. CASE Fail(r)
      BY <1>1, <2>1, FailedRows
    <2>2. CASE ~Fail(r)
      <3>1. PICK w : w = request[r].wallet
        OBVIOUS
      <3>2. /\ request[r].step = "chosen"
            /\ userRow' = [userRow EXCEPT ![w] = r]
            /\ request' = [request EXCEPT ![r].user = users[w], ![r].step = "trade"]
            /\ UNCHANGED curveRow
        BY <1>6, <2>2, <3>1 DEF LockChosen, At
      <3>3. w \in Wallets
        BY <1>1, <3>1, <3>2 DEF Asks
      <3>4. PICK q : q = [old EXCEPT !.user = users[w], !.step = "trade"]
        OBVIOUS
      <3>5. request' = [request EXCEPT ![r] = q] /\ q.step = "trade" /\ q.wallet = w
        BY <1>1, <1>2, <3>1, <3>2, <3>4 DEF RequestsTyped, RequestRows
      <3>6. QED
        BY <1>1, <3>1, <3>2, <3>3, <3>5, UserRowTaken
    <2>3. QED
      BY <2>1, <2>2
  <1>7. CASE LockWithdrawer(r)
    <2>1. PICK w : w = request[r].wallet
      OBVIOUS
    <2>2. request[r].step = "withdraw" /\ UNCHANGED curveRow
      BY <1>7 DEF LockWithdrawer, At
    <2>3. CASE Covered(w, request[r].amount)
      <3>1. userRow' = [userRow EXCEPT ![w] = r] /\ Goto(r, "debit")
        BY <1>7, <2>1, <2>3 DEF LockWithdrawer, NoFurtherRow
      <3>2. w \in Wallets
        BY <1>1, <2>1, <2>2 DEF Asks
      <3>3. PICK q : /\ request' = [request EXCEPT ![r] = q]
                     /\ q.step = "debit" /\ q.wallet = w
        BY <1>1, <2>1, <3>1, GotoRow
      <3>4. QED
        BY <1>1, <2>1, <2>2, <3>1, <3>2, <3>3, UserRowTaken
    <2>4. CASE ~Covered(w, request[r].amount)
      <3>1. request' = [request EXCEPT ![r] = Idle] /\ UNCHANGED userRow
        BY <1>7, <2>1, <2>4 DEF LockWithdrawer, End
      <3>2. QED
        BY <1>1, <2>2, <3>1, NoRows
    <2>5. QED
      BY <2>3, <2>4
  <1>8. QED
    BY <1>3, <1>4, <1>5, <1>6, <1>7

\* The steps between a transaction's last lock and its commit.
LEMMA HoldingRows ==
    ASSUME EngineInv, RowsHeld, NEW r \in Requests,
           Autobuy(r) \/ Liquidate(r) \/ CacheCurve(r) \/ Debit(r) \/ RefreshUser(r)
    PROVE  RowsHeld'
  <1>1. RequestsTyped
    BY DEF EngineInv
  <1>2. PICK old \in RequestRows : old = request[r]
    BY <1>1 DEF RequestsTyped
  <1>3. ASSUME NEW c, NEW u, NEW fee, SaveCurve(r, c, u, fee), request[r].step = "trade"
        PROVE  RowsHeld'
    <2>1. PICK q : q = [old EXCEPT !.curve = c, !.user = u, !.fee = fee, !.step = "cache"]
      OBVIOUS
    <2>2. /\ request' = [request EXCEPT ![r] = q]
          /\ q.step = "cache" /\ q.wallet = request[r].wallet
          /\ UNCHANGED <<curveRow, userRow>>
      BY <1>1, <1>2, <1>3, <2>1 DEF SaveCurve, RequestsTyped, RequestRows, lockVars
    <2>3. QED
      BY <1>1, <1>3, <2>2, SameRows
  <1>4. CASE Autobuy(r) \/ Liquidate(r)
    <2>1. request[r].step = "trade"
      BY <1>4 DEF Autobuy, Liquidate, At
    <2>2. Fail(r) \/ \E c, u, fee : SaveCurve(r, c, u, fee)
      BY <1>4 DEF Autobuy, Liquidate
    <2>3. QED
      BY <1>1, <1>3, <2>1, <2>2, FailedRows
  <1>5. CASE Debit(r)
    <2>1. PICK w, u : /\ request' = [request EXCEPT ![r].user = u, ![r].step = "refresh"]
                      /\ request[r].step = "debit" /\ UNCHANGED <<curveRow, userRow>>
      BY <1>5 DEF Debit, At, lockVars
    <2>2. PICK q : q = [old EXCEPT !.user = u, !.step = "refresh"]
      OBVIOUS
    <2>3. /\ request' = [request EXCEPT ![r] = q]
          /\ q.step = "refresh" /\ q.wallet = request[r].wallet
      BY <1>1, <1>2, <2>1, <2>2 DEF RequestsTyped, RequestRows
    <2>4. QED
      BY <1>1, <2>1, <2>3, SameRows
  <1>6. CASE CacheCurve(r) \/ RefreshUser(r)
    <2>1. UNCHANGED <<curveRow, userRow>>
      BY <1>6 DEF CacheCurve, RefreshUser, lockVars
    <2>2. CASE request[r].step = "late refresh" /\ End(r)
      BY <1>1, <2>1, <2>2, NoRows DEF End
    <2>3. ASSUME NEW step, Goto(r, step),
                 \/ request[r].step = "cache" /\ step = "commit"
                 \/ request[r].step = "refresh" /\ step = "commit withdrawal"
          PROVE  RowsHeld'
      <3>1. PICK q : /\ request' = [request EXCEPT ![r] = q]
                     /\ q.step = step /\ q.wallet = request[r].wallet
        BY <1>1, <2>3, GotoRow
      <3>2. QED
        BY <1>1, <2>1, <2>3, <3>1, SameRows
    <2>4. CASE request[r].step = "late cache" /\ Goto(r, "release")
      <3>1. PICK q : request' = [request EXCEPT ![r] = q]
        BY <1>1, <2>4, GotoRow
      <3>2. QED
        BY <1>1, <2>1, <2>4, <3>1, NoRows
    <2>5. QED
      BY <1>6, <2>2, <2>3, <2>4 DEF CacheCurve, RefreshUser, At
  <1>7. QED
    BY <1>4, <1>5, <1>6

\* The steps outside of a transaction, and those that end one.
LEMMA OutsideRows ==
    ASSUME EngineInv, RowsHeld, NEW r \in Requests,
           \/ Arrival(r) \/ CheckPrior(r) \/ AcquireLock(r) \/ GiveUp(r) \/ RejectClosed(r)
           \/ Commit(r) \/ CommitWithdrawal(r) \/ Flush(r) \/ FlushFails(r) \/ Release(r)
           \/ Rollback(r) \/ TimesOut(r) \/ Crash(r)
    PROVE  RowsHeld'
  <1>1. RequestsTyped
    BY DEF EngineInv
  <1>2. CASE \/ Arrival(r) \/ CheckPrior(r) \/ AcquireLock(r) \/ GiveUp(r)
             \/ Flush(r) \/ FlushFails(r) \/ Release(r)
    <2>1. request[r].step \in {"idle", "prior", "lock", "withdraw", "flush", "release"}
          /\ UNCHANGED <<curveRow, userRow>>
      BY <1>2 DEF Arrival, BeginDeposit, BeginPick, BeginWithdrawal, CheckPrior, AcquireLock,
         GiveUp, Flush, FlushFails, Release, At, lockVars
    <2>2. \/ \E q : request' = [request EXCEPT ![r] = q]
          \/ \E step : Goto(r, step)
      BY <1>2 DEF Arrival, BeginDeposit, BeginPick, BeginWithdrawal, CheckPrior, AcquireLock,
         GiveUp, Flush, FlushFails, Release, End
    <2>3. \E q : request' = [request EXCEPT ![r] = q]
      BY <1>1, <2>2, GotoRow
    <2>4. QED
      BY <1>1, <2>1, <2>3, NoRows
  <1>3. CASE RejectClosed(r)
    BY <1>1, <1>3, FailedRows DEF RejectClosed
  <1>4. CASE Commit(r) \/ CommitWithdrawal(r) \/ Rollback(r) \/ TimesOut(r) \/ Crash(r)
    <2>1. Fail(r) \/ (UnlockRows(r) /\ (End(r) \/ \E step : Goto(r, step)))
      BY <1>4 DEF Commit, CommitWithdrawal, Rollback, TimesOut, Crash
    <2>2. Fail(r) \/ (UnlockRows(r) /\ \E q : request' = [request EXCEPT ![r] = q])
      BY <1>1, <2>1, GotoRow DEF End
    <2>3. QED
      BY <1>1, <2>2, FailedRows, EndedRows
  <1>5. QED
    BY <1>2, <1>3, <1>4

LEMMA StepKeepsRows == EngineInv /\ RowsHeld /\ [LossyNext]_engineVars => RowsHeld'
  <1> SUFFICES ASSUME EngineInv, RowsHeld, [LossyNext]_engineVars PROVE RowsHeld'
    OBVIOUS
  <1>1. ASSUME NEW r \in Requests,
               \/ Arrival(r) \/ RequestStep(r)
               \/ Rollback(r) \/ TimesOut(r) \/ FlushFails(r) \/ Crash(r)
        PROVE  RowsHeld'
    BY <1>1, TradeRows, HoldingRows, OutsideRows DEF RequestStep
  <1>2. CASE UNCHANGED <<request, curveRow, userRow>>
    BY <1>2 DEF RowsHeld, OwnRows
  <1>3. ASSUME NEW d \in Readers, ReaderStep(d) PROVE UNCHANGED <<request, curveRow, userRow>>
    BY <1>3 DEF ReaderStep, ReadUserCache, ReadUserRow, FillUser, ReadCurveCache, ReadCurveRow,
                FillCurve, Reading, lockVars
  <1>4. CASE LockExpires \/ ValkeyLosesData \/ UNCHANGED engineVars
    BY <1>2, <1>4 DEF LockExpires, ValkeyLosesData, engineVars, lockVars
  <1>5. QED
    BY <1>1, <1>2, <1>3, <1>4 DEF LossyNext, EngineNext, PromptNext

\* No two requests wait for each other's rows, in a circle of any length:
\* who holds a row and waits, waits for somebody who does not.  Neither the
\* Valkey lock, which may be lost, nor any timeout is needed for that.
THEOREM NoCircularWait == EngineInit /\ [][LossyNext]_engineVars => []WaitsAreShort
  <1>1. ASSUME RowsHeld PROVE WaitsAreShort
    <2> SUFFICES ASSUME NEW r \in Requests, NEW o \in Requests, NEW p \in Requests,
                        NEW q \in Requests, WaitsFor(r, o), WaitsFor(o, p), WaitsFor(p, q)
                 PROVE  FALSE
      BY DEF WaitsAreShort
    <2>1. /\ request[o].step \in {"closed", "user", "chosen", "trade", "cache", "commit", "debit",
                                  "refresh", "commit withdrawal"}
          /\ request[o].step \in {"transaction", "user", "chosen", "withdraw"}
      BY <1>1 DEF WaitsFor, WaitsForCurve, WaitsForUser, At, RowsHeld, OwnRows
    <2>2. WaitsForUser(o, p)
      BY <2>1 DEF WaitsFor, WaitsForCurve, At
    <2>3. request[p].step \in {"trade", "cache", "commit", "debit", "refresh", "commit withdrawal"}
      BY <1>1, <2>2 DEF WaitsForUser, RowsHeld, OwnRows
    <2>4. QED
      BY <2>3 DEF WaitsFor, WaitsForCurve, WaitsForUser, At
  <1>2. EngineInit => RowsHeld
    BY TradeEngineAssumption DEF EngineInit, RowsHeld, OwnRows
  <1>3. QED
    BY <1>1, <1>2, EngineKept, StepKeepsRows, PTL
=============================================================================
