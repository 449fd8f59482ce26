------------------------------- MODULE Ledger -------------------------------
(***************************************************************************)
(* What the perpetual backend promises: an account book in which deposits, *)
(* picks and withdrawals happen one at a time, each as a whole.  Module    *)
(* TradeEngine, where they are concurrent transactions that wait, fail and *)
(* crash, implements it.                                                   *)
(*                                                                         *)
(* The variables are tables of Postgres.  The status of a user, which no   *)
(* operation changes, and the append-only log of trades are left out: of   *)
(* the log only the sum of its fees is kept.                               *)
(***************************************************************************)
EXTENDS Amm, FiniteSets, Functions

CONSTANTS
    Wallets,            \* wallet addresses
    Signatures,         \* txSignatures of deposits
    DepositAmounts,     \* lamports a deposit may bring,
    WithdrawalAmounts,  \* and a withdrawal may ask for
    Genesis,            \* the curve row the seed script writes
    GraduationLamports  \* config.curve.graduationLamports

Reserves == [virtual_sol : Nat, virtual_token : Nat, real_sol : Int, real_token : Int]

\* Addresses and signatures are byte strings of a fixed length, so there are
\* finitely many.
ASSUME LedgerAssumption ==
    /\ IsFiniteSet(Wallets)
    /\ IsFiniteSet(Signatures)
    /\ Genesis \in Reserves
    /\ Genesis.virtual_sol > 0
    /\ Genesis.virtual_token > 0
    /\ Genesis.real_sol >= 0
    /\ GraduationLamports \in Nat
    /\ DepositAmounts \cup WithdrawalAmounts \subseteq Nat \ {0}

VARIABLES
    curve,       \* the reserves of bonding_curve_state
    complete,    \* its complete flag
    users,       \* the users table
    deposits,    \* lamports of the deposit with a signature, 0 without one
    withdrawn,   \* lamports in every wallet's withdrawals
    fees         \* lamports of feePaid in the trades

ledgerVars == <<curve, complete, users, deposits, withdrawn, fees>>

\* A row of users, and its absence.
NoUser == [exists |-> FALSE, sol |-> 0, token |-> 0]
User(sol, token) == [exists |-> TRUE, sol |-> sol, token |-> token]
UserRows == {NoUser} \cup [exists : {TRUE}, sol : Nat, token : Nat]

LedgerInit ==
    /\ curve = Genesis
    /\ complete = FALSE
    /\ users = [w \in Wallets |-> NoUser]
    /\ deposits = [s \in Signatures |-> 0]
    /\ withdrawn = [w \in Wallets |-> 0]
    /\ fees = 0

-----------------------------------------------------------------------------
(***************************************************************************)
(* A pick's two legs on a user: the residual SOL is bought in first, then  *)
(* all tokens are sold.                                                    *)
(***************************************************************************)
Residual(u) == u.sol > 0

BoughtIn(c, u) == IF Residual(u) THEN AfterBuy(c, u.sol) ELSE c
Holding(c, u)  == u.token + (IF Residual(u) THEN TokensFor(c, u.sol) ELSE 0)
Proceeds(c, u) == GrossFor(BoughtIn(c, u), Holding(c, u))

LiquidationOK(c, u) ==
    /\ Residual(u) => BuyOK(c, u.sol)
    /\ SellOK(BoughtIn(c, u), Holding(c, u))

AfterLiquidation(c, u) == AfterSell(BoughtIn(c, u), Holding(c, u))

LiquidationFees(c, u) ==
    FeeOn(Proceeds(c, u)) + (IF Residual(u) THEN FeeOn(u.sol) ELSE 0)

-----------------------------------------------------------------------------
BookCurve(c) ==
    /\ curve' = c
    /\ complete' = HasGraduated(c, GraduationLamports)

BookDeposit(w, sig, amount) ==
    /\ ~complete
    /\ deposits[sig] = 0
    /\ BuyOK(curve, amount)
    /\ BookCurve(AfterBuy(curve, amount))
    /\ users' = [users EXCEPT ![w] = User(@.sol, @.token + TokensFor(curve, amount))]
    /\ deposits' = [deposits EXCEPT ![sig] = amount]
    /\ fees' = fees + FeeOn(amount)
    /\ UNCHANGED withdrawn

BookPick(w) ==
    /\ ~complete
    /\ users[w].token > 0
    /\ LiquidationOK(curve, users[w])
    /\ BookCurve(AfterLiquidation(curve, users[w]))
    /\ users' = [users EXCEPT ![w] = User(LessFee(Proceeds(curve, @)), 0)]
    /\ fees' = fees + LiquidationFees(curve, users[w])
    /\ UNCHANGED <<deposits, withdrawn>>

BookWithdrawal(w, amount) ==
    /\ amount <= users[w].sol
    /\ users' = [users EXCEPT ![w].sol = @ - amount]
    /\ withdrawn' = [withdrawn EXCEPT ![w] = @ + amount]
    /\ UNCHANGED <<curve, complete, deposits, fees>>

LedgerNext ==
    \E w \in Wallets :
        \/ \E sig \in Signatures, amount \in DepositAmounts : BookDeposit(w, sig, amount)
        \/ BookPick(w)
        \/ \E amount \in WithdrawalAmounts : BookWithdrawal(w, amount)

LedgerSpec == LedgerInit /\ [][LedgerNext]_ledgerVars

-----------------------------------------------------------------------------
\* Types of the tables.
LedgerTypeOK ==
    /\ curve \in Reserves
    /\ complete \in BOOLEAN
    /\ users \in [Wallets -> UserRows]
    /\ deposits \in [Signatures -> Nat]
    /\ withdrawn \in [Wallets -> Nat]
    /\ fees \in Nat

\* Every lamport deposited, once for each signature, is in the curve, in a
\* balance, in a withdrawal or among the fees: no update is lost, no deposit
\* is credited twice and no failed trade leaves a trace.
SolAccounted ==
    Genesis.real_sol + SumFunction(deposits)
      = curve.real_sol + fees + SumFunction([w \in Wallets |-> users[w].sol])
                              + SumFunction(withdrawn)

\* The tokens of the users are those missing from the curve.
TokensAccounted ==
    Genesis.virtual_token
      = curve.virtual_token + SumFunction([w \in Wallets |-> users[w].token])

\* Rounding never costs the curve: it holds the real SOL it started with,
\* and any single quote of withdrawableSol can be paid from its real SOL
\* (amm.ts: only "the sum of all users' withdrawable amounts can exceed the
\* real SOL in the vault").
QuotesPayable ==
    /\ curve.real_sol >= Genesis.real_sol
    /\ \A w \in Wallets : Quote(curve, users[w].token) <= curve.real_sol

\* A curve whose tokens are sold out is closed.  Nothing in applyBuy looks at
\* realTokenReserves, and the buy that graduates the curve may overshoot
\* them: it is the graduation, tested after every trade, that keeps a later
\* deposit from buying tokens that are not there.
SoldOutIsClosed == curve.real_token <= 0 => complete

\* The seeded reserves just suffice for that, as config.ts's do: with a
\* lamport less than it takes to graduate, the hyperbola through them still
\* has a real token left.
SeedSuffices ==
    /\ Genesis.real_token > 0
    /\ (Genesis.virtual_sol - Genesis.real_sol + GraduationLamports - 1)
         * (Genesis.virtual_token - Genesis.real_token) < Invariant(Genesis)

\* "curve has graduated; trading is closed" (trade.ts:208, pick.ts:36): no
\* trade that was waiting or being computed when the curve graduated is
\* executed afterwards.
ClosedOnceComplete ==
    [][complete => UNCHANGED <<curve, complete, deposits, fees>>]_ledgerVars
=============================================================================
