----------------------------- MODULE FlipVault -----------------------------
(***************************************************************************)
(* The FlipVault program: the round lifecycle of module Round composed     *)
(* with the pool it plays on -- the reserve, the vaults with their two     *)
(* tranches, the share positions of the users and the fee treasury.        *)
(*                                                                         *)
(* Lamport balances are SPENDABLE balances: what an account holds above    *)
(* its rent-exempt minimum, so that move_lamports_out's rent check is that *)
(* the balance does not become negative.  Fields that are never read       *)
(* (commit_slot, the bumps) and the owner of a position, which its address *)
(* fixes, are left out.                                                    *)
(***************************************************************************)
EXTENDS Round, Curve, FiniteSets, Functions

CONSTANTS
    Users,        \* wallets that deposit and withdraw
    Founder,      \* the treasury authority's wallet
    Funds,        \* lamports each wallet has when the program starts
    SeedSol,      \* initialize's seed_sol
    InitRTok,     \* initialize's init_r_tok
    MinReserve,   \* config.min_reserve
    FeeBps,       \* config.fee_bps
    MaxFeeBps,    \* MAX_FEE_BPS
    BpsDenom,     \* BPS_DENOM
    MinDeposit,   \* MIN_DEPOSIT
    MaxU64        \* the largest u64

Wallets == Users \cup {Founder}
K       == SeedSol * InitRTok
Slots   == {0, 1}

\* The parameters initialize accepts, and the program's own constants.  An
\* address has 32 bytes, so the users are finitely many.
ASSUME FlipVaultAssumption ==
    /\ IsFiniteSet(Users)
    /\ Founder \notin Users
    /\ Funds \in [Wallets -> Nat]
    /\ SeedSol \in Nat \ {0}
    /\ InitRTok \in Nat \ {0}
    /\ MinReserve \in Nat
    /\ MinReserve < SeedSol
    /\ FeeBps \in Nat
    /\ MaxFeeBps \in Nat
    /\ BpsDenom \in Nat
    /\ FeeBps <= MaxFeeBps
    /\ MaxFeeBps < BpsDenom
    /\ MinDeposit \in Nat \ {0}
    /\ MaxU64 \in Nat
    /\ InitRTok <= MaxU64

VARIABLES
    r_tok,      \* config.r_tok, the curve's virtual tokens
    reserve,    \* spendable lamports of the reserve: the curve's r_sol
    lamports,   \* spendable lamports of every vault account
    tranches,   \* the two tranches of every vault
    position,   \* shares of every user, vault and slot
    treasury,   \* spendable lamports of the treasury
    wallet      \* lamports of every wallet

poolVars == <<r_tok, reserve, lamports, tranches, position, treasury, wallet>>
vars     == <<roundVars, poolVars>>

Tranche == [asset : {"Sol", "Token"}, amount : Nat, total_shares : Nat]

\* Vault::sol_slot: the first slot whose asset is SOL, if there is one.
HasSolSlot(v) == \E i \in Slots : tranches[v][i].asset = "Sol"
SolSlot(v)    == IF tranches[v][0].asset = "Sol" THEN 0 ELSE 1
TokSlot(v)    == 1 - SolSlot(v)

SolAmount(v)   == tranches[v][SolSlot(v)].amount
TokenAmount(v) == tranches[v][TokSlot(v)].amount

-----------------------------------------------------------------------------
\* The state initialize leaves behind.
Init ==
    /\ RoundInit
    /\ r_tok = InitRTok
    /\ reserve = SeedSol
    /\ lamports = [v \in Vaults |-> 0]
    /\ tranches = [v \in Vaults |->
                     [i \in Slots |-> [asset        |-> IF i = 0 THEN "Sol" ELSE "Token",
                                       amount       |-> 0,
                                       total_shares |-> 0]]]
    /\ position = [u \in Users |-> [v \in Vaults |-> [i \in Slots |-> 0]]]
    /\ treasury = 0
    /\ wallet = Funds

\* deposit and withdraw are refused while a round is pending.  (Mutant: they
\* are not.)
NeverLocked == phase \in {"Idle", "Pending"}
Unlocked    == phase = "Idle"

\* Shares a deposit into a SOL tranche is worth.  (Mutant: rounded up.)
SharesForRoundedUp(tr, amount) ==
    IF tr.total_shares = 0 THEN amount
                           ELSE CeilDiv(amount * tr.total_shares, tr.amount)
SharesFor(tr, amount) ==
    IF tr.total_shares = 0 THEN amount
                           ELSE MulDivFloor(amount, tr.total_shares, tr.amount)

\* The depositor's position grows.  (Mutant: init_if_needed starts it anew.)
CreditAnew(u, v, i, shares) ==
    position' = [position EXCEPT ![u][v][i] = shares]
CreditShares(u, v, i, shares) ==
    position' = [position EXCEPT ![u][v][i] = @ + shares]

\* Users trade with SOL tranches only: the slot they name may have turned TOKEN
\* since they looked.  (Mutant: any slot will do.)
AnySlot(tr)  == tr.asset \in {"Sol", "Token"}
TakesSol(tr) == tr.asset = "Sol"

\* The checks of deposit, with those of the arithmetic and of the transfer.
DepositOK(u, v, i, amount) ==
    LET tr     == tranches[v][i]
        shares == SharesFor(tr, amount)
    IN  /\ Unlocked
        /\ amount >= MinDeposit
        /\ TakesSol(tr)
        /\ tr.total_shares # 0 => tr.amount > 0
        /\ shares > 0
        /\ tr.amount + amount <= MaxU64
        /\ tr.total_shares + shares <= MaxU64
        /\ position[u][v][i] + shares <= MaxU64
        /\ amount <= wallet[u]

\* deposit
Deposit(u, v, i, amount) ==
    LET tr     == tranches[v][i]
        shares == SharesFor(tr, amount)
    IN  /\ DepositOK(u, v, i, amount)
        /\ tranches' = [tranches EXCEPT ![v][i] =
                           [tr EXCEPT !.amount = @ + amount, !.total_shares = @ + shares]]
        /\ CreditShares(u, v, i, shares)
        /\ wallet' = [wallet EXCEPT ![u] = @ - amount]
        /\ lamports' = [lamports EXCEPT ![v] = @ + amount]
        /\ UNCHANGED <<roundVars, r_tok, reserve, treasury>>

\* Only shares of one's own are redeemed.  (Mutant: any of the tranche's.)
HoldsOrNot(u, v, i, shares) == shares <= tranches[v][i].total_shares
Holds(u, v, i, shares)      == shares <= position[u][v][i]

\* What shares of a tranche are worth.  (Mutant: as if there were one more.)
GrossOfOneMore(tr, shares) == MulDivFloor(shares, tr.amount, tr.total_shares + 1)
GrossOf(tr, shares)        == MulDivFloor(shares, tr.amount, tr.total_shares)

FeeOf(gross) == MulDivFloor(gross, FeeBps, BpsDenom)

\* What the user receives.  (Mutant: the fee is not deducted.)
NetWithoutFee(gross) == gross
NetOf(gross)         == gross - FeeOf(gross)

\* The checks of withdraw, with those of the arithmetic and of the payout.
WithdrawOK(u, v, i, shares) ==
    LET tr    == tranches[v][i]
        gross == GrossOf(tr, shares)
    IN  /\ Unlocked
        /\ shares > 0
        /\ TakesSol(tr)
        /\ tr.total_shares > 0
        /\ Holds(u, v, i, shares)
        /\ gross > 0
        /\ gross <= tr.amount
        /\ shares <= tr.total_shares
        /\ gross <= lamports[v]

\* withdraw: the fee is part of what leaves the tranche.
Withdraw(u, v, i, shares) ==
    LET tr    == tranches[v][i]
        gross == GrossOf(tr, shares)
    IN  /\ WithdrawOK(u, v, i, shares)
        /\ tranches' = [tranches EXCEPT ![v][i] =
                           [tr EXCEPT !.amount = @ - gross, !.total_shares = @ - shares]]
        /\ position' = [position EXCEPT ![u][v][i] = @ - shares]
        /\ lamports' = [lamports EXCEPT ![v] = @ - gross]
        /\ wallet' = [wallet EXCEPT ![u] = @ + NetOf(gross)]
        /\ treasury' = treasury + FeeOf(gross)
        /\ UNCHANGED <<roundVars, r_tok, reserve>>

\* sweep_treasury, which the treasury authority signs.  The recipient may
\* be any account; paying one of the program's own is a sweep to the
\* founder followed by a transfer.
SweepTreasury(recipient, amount) ==
    /\ amount <= treasury
    /\ treasury' = treasury - amount
    /\ wallet' = [wallet EXCEPT ![recipient] = @ + amount]
    /\ UNCHANGED <<roundVars, r_tok, reserve, lamports, tranches, position>>

-----------------------------------------------------------------------------
(***************************************************************************)
(* execute_flip on the vault a settlement selects.                         *)
(***************************************************************************)
FlipOf(v) == Flip(reserve, r_tok, K, SolAmount(v), TokenAmount(v))

BothEmpty(v) == SolAmount(v) = 0 /\ TokenAmount(v) = 0

\* The sale would take the reserve below its floor.  (Mutant: or down to the
\* seed.)
ReachesSeed(v)   == FlipOf(v).post_sell_r_sol <= SeedSol
BreachesFloor(v) == FlipOf(v).post_sell_r_sol < MinReserve

\* The errors that would abort settle_round and leave the round Pending:
\* no SOL slot, a zero divisor in a leg of the trade, a credit that does not
\* fit a u64 (a payout is part of the reserve's own u64 balance), or a debit
\* that would take an account below its rent.
DivisorsNonZero(v) ==
    /\ TokenAmount(v) > 0 => r_tok + TokenAmount(v) # 0
    /\ SolAmount(v) > 0 =>
         Sell(reserve, r_tok, K, TokenAmount(v)).r_sol + SolAmount(v) # 0

FlipFails(v) ==
    \/ ~HasSolSlot(v)
    \/ ~BothEmpty(v) /\ ~DivisorsNonZero(v)
    \/ /\ ~BothEmpty(v)
       /\ ~BreachesFloor(v)
       /\ \/ FlipOf(v).tok_out > MaxU64
          \/ FlipOf(v).sol_out > reserve
          \/ SolAmount(v) > lamports[v] + FlipOf(v).sol_out

\* swap_flags: the roles alternate, the share ledgers stay.  (Mutants: only
\* the token slot, or only the SOL slot, changes its role.)
SwapTokSlotOnly(v, sol_out, tok_out) ==
    tranches' = [tranches EXCEPT
        ![v][TokSlot(v)] = [@ EXCEPT !.asset = "Sol", !.amount = sol_out],
        ![v][SolSlot(v)] = [@ EXCEPT !.amount = tok_out]]
SwapSolSlotOnly(v, sol_out, tok_out) ==
    tranches' = [tranches EXCEPT
        ![v][TokSlot(v)] = [@ EXCEPT !.amount = sol_out],
        ![v][SolSlot(v)] = [@ EXCEPT !.asset = "Token", !.amount = tok_out]]
SwapFlags(v, sol_out, tok_out) ==
    tranches' = [tranches EXCEPT
        ![v][TokSlot(v)] = [@ EXCEPT !.asset = "Sol",   !.amount = sol_out],
        ![v][SolSlot(v)] = [@ EXCEPT !.asset = "Token", !.amount = tok_out]]

\* The two transfers of a flip: the reserve pays sol_out to the vault, the
\* vault pays its SOL tranche to the reserve.  (Mutants: the reserve is not
\* paid; the vault is not.)
ReserveUnpaid(v, sol_out)   == reserve - sol_out
ReserveAfter(v, sol_out)    == (reserve - sol_out) + SolAmount(v)
VaultUnpaid(v, sol_out)     == lamports[v] - SolAmount(v)
VaultAfter(v, sol_out)      == (lamports[v] + sol_out) - SolAmount(v)

\* SkippedEmpty
FlipEmpty(v) ==
    /\ BothEmpty(v)
    /\ SwapFlags(v, 0, 0)
    /\ UNCHANGED <<r_tok, reserve, lamports>>

\* SkippedReserveFloor: the roles do not alternate.
FlipSkipped(v) ==
    /\ ~BothEmpty(v)
    /\ BreachesFloor(v)
    /\ UNCHANGED <<r_tok, reserve, lamports, tranches>>

\* Flipped
FlipTraded(v) ==
    LET f == FlipOf(v)
    IN  /\ ~BothEmpty(v)
        /\ ~BreachesFloor(v)
        /\ reserve' = ReserveAfter(v, f.sol_out)
        /\ lamports' = [lamports EXCEPT ![v] = VaultAfter(v, f.sol_out)]
        /\ r_tok' = f.new_r_tok
        /\ SwapFlags(v, f.sol_out, f.tok_out)

ExecuteFlip(v) ==
    /\ ~FlipFails(v)
    /\ \/ FlipEmpty(v)
       \/ FlipSkipped(v)
       \/ FlipTraded(v)

-----------------------------------------------------------------------------
(***************************************************************************)
(* The instructions of the round, with what they do to the pool.           *)
(***************************************************************************)
Commit(force) == CommitRound(force) /\ UNCHANGED poolVars

Settle ==
    /\ SettleRound
    /\ ExecuteFlip(Selected)
    /\ UNCHANGED <<position, treasury, wallet>>

Recover == RecoverRound /\ UNCHANGED poolVars

\* Anybody may credit a program account with a plain transfer: the program
\* is not called.
DonateToReserve(w, amount) ==
    /\ amount \in 1 .. wallet[w]
    /\ wallet' = [wallet EXCEPT ![w] = @ - amount]
    /\ reserve' = reserve + amount
    /\ UNCHANGED <<roundVars, r_tok, lamports, tranches, position, treasury>>

DonateToVault(w, v, amount) ==
    /\ amount \in 1 .. wallet[w]
    /\ wallet' = [wallet EXCEPT ![w] = @ - amount]
    /\ lamports' = [lamports EXCEPT ![v] = @ + amount]
    /\ UNCHANGED <<roundVars, r_tok, reserve, tranches, position, treasury>>

UserStep ==
    \E u \in Users, v \in Vaults, i \in Slots :
        \/ \E amount \in 1 .. MaxU64 : Deposit(u, v, i, amount)
        \/ \E shares \in 1 .. MaxU64 : Withdraw(u, v, i, shares)

TreasuryStep ==
    \E w \in Wallets, amount \in 1 .. treasury : SweepTreasury(w, amount)

RoundStep ==
    \/ \E force \in Seeds : Commit(force)
    \/ Settle
    \/ Recover
    \/ Environment /\ UNCHANGED poolVars

\* Transfers into the reserve are kept apart: without them the curve stays less
\* than one lamport above its hyperbola.
VaultDonation ==
    \E w \in Wallets, v \in Vaults : \E amount \in 1 .. wallet[w] :
        DonateToVault(w, v, amount)

ReserveDonation ==
    \E w \in Wallets : \E amount \in 1 .. wallet[w] : DonateToReserve(w, amount)

NextNoGift == UserStep \/ TreasuryStep \/ RoundStep \/ VaultDonation
Next       == NextNoGift \/ ReserveDonation

Spec       == Init /\ [][Next]_vars
SpecNoGift == Init /\ [][NextNoGift]_vars

-----------------------------------------------------------------------------
(***************************************************************************)
(* Properties.                                                             *)
(***************************************************************************)

\* Types of the pool's state.
PoolTypeOK ==
    /\ r_tok \in Nat
    /\ reserve \in Nat
    /\ lamports \in [Vaults -> Nat]
    /\ tranches \in [Vaults -> [Slots -> Tranche]]
    /\ position \in [Users -> [Vaults -> [Slots -> Nat]]]
    /\ treasury \in Nat
    /\ wallet \in [Wallets -> Nat]

TypeOK == RoundTypeOK /\ PoolTypeOK

\* Every vault has exactly one SOL tranche and one TOKEN tranche, however
\* many rounds traded, were skipped or were cancelled.
OneSolSlot ==
    \A v \in Vaults : tranches[v][0].asset # tranches[v][1].asset

FlipsOf(v) == {i \in DOMAIN history : history[i].kind = "settled" /\ history[i].vault = v}

RoundsTurnRoles ==
    \A v \in Vaults : SolSlot(v) = Cardinality(FlipsOf(v)) % 2

\* The roles tell how often a vault was flipped: every settled round has
\* turned the slots of the vault it drew exactly once, no round that was
\* cancelled (or closed by whichever of settle and recover came first) has
\* turned any, and no flip was skipped.
RolesFollowHistory == OneSolSlot /\ RoundsTurnRoles

\* Solvency: the lamports of a vault's SOL tranche are physically in the
\* vault's account (vault.rs: "Holds its SOL-tranche's lamports
\* physically"), so a withdrawal never fails for lack of lamports.
VaultsSolvent ==
    \A v \in Vaults : SolAmount(v) <= lamports[v]

\* A tranche whose last share was redeemed holds nothing, whatever it was
\* traded for in between: the next depositor is priced 1:1 and neither
\* inherits nor pays for a remainder.
EmptyTrancheHoldsNothing ==
    \A v \in Vaults, i \in Slots :
        tranches[v][i].total_shares = 0 => tranches[v][i].amount = 0

\* The house never loses its seed: the reserve never falls below seed_sol,
\* also between the two legs of a flip.  As initialize wants min_reserve
\* below seed_sol, the SkippedReserveFloor branch of execute_flip is never
\* taken (config.rs: "Hard floor for spendable reserve r_sol; a flip that
\* would breach it is skipped").
ReserveKeepsSeed ==
    /\ reserve >= SeedSol
    /\ \A v \in Vaults : FlipOf(v).post_sell_r_sol >= SeedSol

\* The rounding of the two legs does not add up: whatever trades, skips and
\* donations came before, the curve is less than one token below its
\* hyperbola.  The product may be below K, as a buy floors the reserve of
\* tokens it leaves, but with one token more it is above.
CurveNotBelow == NotBelow(reserve, r_tok, K)

\* A settlement with its randomness answered never aborts, so no state of
\* the pool can jam the round (the errors of execute_flip are unreachable).
SettleNeverAborts == \A v \in Vaults : ~FlipFails(v)

\* Without transfers into the reserve, rounding never lifts the product of
\* the reserves by more than one lamport's worth above K: the drift of
\* curve.rs's test stays bounded over any number of rounds.
CurveNotAbove == NotAbove(reserve, r_tok, K)

\* A settlement does not lift a curve that rounding has left within that
\* bound out of it, whatever was transferred into the reserve before.
SettlementAddsNoDrift ==
    [][phase = "Pending" /\ phase' = "Idle" /\ CurveNotAbove => CurveNotAbove']_vars

\* The positions of the users add up to the shares of every tranche, across
\* flips that swap the assets under them: nobody's shares are lost, and
\* nobody redeems another user's.
SharesSumToTotal ==
    \A v \in Vaults, i \in Slots :
        SumFunction([u \in Users |-> position[u][v][i]]) = tranches[v][i].total_shares

\* No instruction creates or destroys lamports (the program's invariant Q,
\* with the wallets and the treasury on the other side of the balance).
LamportsConserved ==
    reserve + treasury + SumFunction(lamports) + SumFunction(wallet)
      = SeedSol + SumFunction(Funds)

\* The curve and the TOKEN tranches together never hold more virtual tokens
\* than the genesis supply, so r_tok and every credit fit the u64 they are
\* narrowed to.  (A sale that pays nothing burns its tokens.)
TokensBounded ==
    r_tok + SumFunction([v \in Vaults |-> TokenAmount(v)]) <= InitRTok

\* While no round is settling, no operation makes a share of any tranche
\* worth less: deposits and withdrawals by one user never dilute another.
SharePriceNeverFalls ==
    [][phase = "Idle" =>
         \A v \in Vaults, i \in Slots :
             tranches'[v][i].amount * tranches[v][i].total_shares
               >= tranches[v][i].amount * tranches'[v][i].total_shares]_vars

\* While a round is pending the tranches are frozen until the settlement
\* of that round, which touches the selected vault only, moves lamports
\* only between it and the reserve, and issues no shares.
LockedUntilSettled ==
    [][phase = "Pending" /\ tranches' # tranches =>
         /\ Resolved
         /\ phase' = "Idle"
         /\ selected_vault' = Selected
         /\ \A v \in Vaults \ {Selected} :
               tranches'[v] = tranches[v] /\ lamports'[v] = lamports[v]
         /\ \A i \in Slots : tranches'[Selected][i].total_shares
                               = tranches[Selected][i].total_shares
         /\ reserve' + lamports'[Selected] = reserve + lamports[Selected]]_vars

\* "Withdraw from a SOL tranche anytime" (README.md): whoever holds shares
\* of a SOL tranche can redeem some of them.  A buy that credits no tokens,
\* or a sale that pays nothing, leaves a tranche with shares and no value,
\* from which withdraw and deposit both fail from then on.
SharesRedeemable ==
    \A v \in Vaults, i \in Slots :
        tranches[v][i].asset = "Sol" /\ tranches[v][i].total_shares > 0
          => tranches[v][i].amount > 0

\* "Virtual tokens credited (rounded DOWN, house-safe)" (curve.rs:43): the
\* curve a buy leaves behind is not below K.  The code floors the reserve
\* that remains, which rounds the credit up.
CreditRoundsDown ==
    \A v \in Vaults :
        SolAmount(v) > 0 => FlipOf(v).new_r_tok * FlipOf(v).new_r_sol >= K
=============================================================================
