------------------------ MODULE FlipVaultStepProofs ------------------------
(***************************************************************************)
(* What a step of the FlipVault program may never do, and how far rounding *)
(* may lift its curve, from the inductive invariant of FlipVaultProofs;    *)
(* that the program implements the abstract house; its books, the sums of  *)
(* shares, lamports and tokens over all users, wallets and vaults; and     *)
(* that a deposit redeemed at once is no gain.                             *)
(***************************************************************************)
EXTENDS FlipVaultProofs, HouseRefinement

\* Which steps touch the tranches or the curve.
LEMMA QuietSteps ==
    ASSUME TreasuryStep \/ VaultDonation \/ ReserveDonation \/ UNCHANGED vars
    PROVE  UNCHANGED <<tranches, r_tok>>
  BY DEF TreasuryStep, SweepTreasury, VaultDonation, DonateToVault, ReserveDonation,
     DonateToReserve, vars, poolVars

LEMMA SelectedIsVault ==
    ASSUME RoundInv, SettleRound
    PROVE  Selected \in Vaults
  <1>1. vrf[round_seed].byte \in Nat
    BY RoundAssumption DEF RoundInv, RoundTypeOK, SettleRound, Resolved, RequestStates,
       NoRequest, Requested, Fulfilled
  <1>2. QED
    BY <1>1, RoundAssumption DEF Selected, Vaults

-----------------------------------------------------------------------------
\* Without transfers into the reserve the curve stays less than one lamport
\* above its hyperbola, whatever is deposited, flipped and withdrawn.
DriftInv == IInv /\ CurveNotAbove

LEMMA InitDrift == Init => CurveNotAbove
  <1> SUFFICES ASSUME Init PROVE CurveNotAbove
    OBVIOUS
  <1>1. (SeedSol - 1) * InitRTok = SeedSol * InitRTok - InitRTok
    BY ConstantFacts, SMT
  <1>2. SeedSol * InitRTok \in Nat
    BY ConstantFacts, SMT
  <1>3. QED
    BY <1>1, <1>2, ConstantFacts, SMT DEF Init, CurveNotAbove, NotAbove, K

LEMMA FlipKeepsDrift ==
    ASSUME PoolInv, CurveNotAbove, NEW v \in Vaults, ExecuteFlip(v)
    PROVE  CurveNotAbove'
  <1>1. CASE FlipEmpty(v) \/ FlipSkipped(v)
    BY <1>1 DEF FlipEmpty, FlipSkipped, CurveNotAbove
  <1>2. CASE FlipTraded(v)
    <2> DEFINE f == FlipOf(v)
    <2>1. FlipEffect(f, reserve, r_tok, K, SolAmount(v), TokenAmount(v))
      BY FlipOfFacts
    <2>2. reserve' = (reserve - f.sol_out) + SolAmount(v) /\ r_tok' = f.new_r_tok
      BY <1>2 DEF FlipTraded, ReserveAfter, VaultAfter
    <2> HIDE DEF f
    <2>3. reserve' = f.new_r_sol
      BY <2>1, <2>2 DEF FlipEffect
    <2>4. NotAbove(f.new_r_sol, f.new_r_tok, K)
      BY <2>1 DEF FlipEffect, CurveNotAbove
    <2>5. QED
      BY <2>2, <2>3, <2>4 DEF CurveNotAbove
  <1>3. QED
    BY <1>1, <1>2 DEF ExecuteFlip

LEMMA StepKeepsDrift == DriftInv /\ [NextNoGift]_vars => DriftInv'
  <1> SUFFICES ASSUME DriftInv, [NextNoGift]_vars PROVE DriftInv'
    OBVIOUS
  <1> USE DEF DriftInv
  <1>1. IInv'
    BY StepKeepsInv DEF Next
  <1>2. CASE UserStep
    <2>1. ASSUME NEW u, NEW v, NEW i, NEW n, Deposit(u, v, i, n)
          PROVE  UNCHANGED <<r_tok, reserve>>
      BY <2>1 DEF Deposit
    <2>2. ASSUME NEW u, NEW v, NEW i, NEW n, Withdraw(u, v, i, n)
          PROVE  UNCHANGED <<r_tok, reserve>>
      BY <2>2 DEF Withdraw
    <2>3. QED
      BY <1>1, <1>2, <2>1, <2>2 DEF UserStep, CurveNotAbove
  <1>3. CASE TreasuryStep \/ VaultDonation \/ UNCHANGED vars
    BY <1>1, <1>3 DEF TreasuryStep, SweepTreasury, VaultDonation, DonateToVault,
       vars, poolVars, CurveNotAbove
  <1>4. CASE RoundStep
    <2>1. CASE Settle
      BY <1>1, <2>1, FlipKeepsDrift, SelectedIsVault DEF Settle, IInv
    <2>2. CASE UNCHANGED poolVars
      BY <1>1, <2>2 DEF poolVars, CurveNotAbove
    <2>3. QED
      BY <1>4, <2>1, <2>2 DEF RoundStep, Commit, Recover
  <1>5. QED
    BY <1>2, <1>3, <1>4 DEF NextNoGift

THEOREM DriftBounded == SpecNoGift => []CurveNotAbove
  <1>1. Init => DriftInv
    BY InitInv, InitDrift DEF DriftInv
  <1>2. DriftInv => CurveNotAbove
    BY DEF DriftInv
  <1>3. QED
    BY <1>1, <1>2, StepKeepsDrift, PTL DEF SpecNoGift

\* A settlement that finds the curve within that bound leaves it there, also
\* among transfers into the reserve.
THEOREM SettlementsAddNoDrift == Spec => SettlementAddsNoDrift
  <1>1. ASSUME IInv, [Next]_vars, phase = "Pending", phase' = "Idle", CurveNotAbove
        PROVE  CurveNotAbove'
    <2>1. phase # phase'
      BY <1>1
    <2>2. ~UserStep
      <3>1. ASSUME NEW u, NEW v, NEW i, NEW n, Deposit(u, v, i, n) \/ Withdraw(u, v, i, n)
            PROVE  phase # "Pending"
        BY <3>1 DEF Deposit, DepositOK, Withdraw, WithdrawOK, Unlocked
      <3>2. QED
        BY <1>1, <3>1 DEF UserStep
    <2>3. RoundStep
      BY <1>1, <2>1, <2>2 DEF Next, NextNoGift, TreasuryStep, SweepTreasury, VaultDonation,
         DonateToVault, ReserveDonation, DonateToReserve, vars, roundVars, configVars
    <2>4. CASE Settle
      BY <1>1, <2>4, FlipKeepsDrift, SelectedIsVault DEF Settle, IInv
    <2>5. CASE UNCHANGED poolVars
      BY <1>1, <2>5 DEF poolVars, CurveNotAbove
    <2>6. QED
      BY <2>3, <2>4, <2>5 DEF RoundStep, Commit, Recover
  <1>2. IInv /\ [Next]_vars =>
          (phase = "Pending" /\ phase' = "Idle" /\ CurveNotAbove => CurveNotAbove')
    BY <1>1
  <1>3. QED
    BY <1>2, ProgramSafe, PTL DEF Spec, SettlementAddsNoDrift

-----------------------------------------------------------------------------
\* A pending round freezes the tranches until its own settlement, which
\* touches the selected vault only.
THEOREM Locked == Spec => LockedUntilSettled
  <1> DEFINE A == phase = "Pending" /\ tranches' # tranches =>
                    /\ Resolved
                    /\ phase' = "Idle"
                    /\ selected_vault' = Selected
                    /\ \A v \in Vaults \ {Selected} :
                          tranches'[v] = tranches[v] /\ lamports'[v] = lamports[v]
                    /\ \A i \in Slots : tranches'[Selected][i].total_shares
                                          = tranches[Selected][i].total_shares
                    /\ reserve' + lamports'[Selected] = reserve + lamports[Selected]
  <1>1. ASSUME IInv, [Next]_vars PROVE A
    <2> SUFFICES ASSUME phase = "Pending", tranches' # tranches
                 PROVE  /\ Resolved
                        /\ phase' = "Idle"
                        /\ selected_vault' = Selected
                        /\ \A v \in Vaults \ {Selected} :
                              tranches'[v] = tranches[v] /\ lamports'[v] = lamports[v]
                        /\ \A i \in Slots : tranches'[Selected][i].total_shares
                                              = tranches[Selected][i].total_shares
                        /\ reserve' + lamports'[Selected] = reserve + lamports[Selected]
      OBVIOUS
    <2>1. ~UserStep
      <3>1. ASSUME NEW u, NEW v, NEW i, NEW n PROVE ~Deposit(u, v, i, n)
        BY DEF Deposit, DepositOK, Unlocked
      <3>2. ASSUME NEW u, NEW v, NEW i, NEW n PROVE ~Withdraw(u, v, i, n)
        BY DEF Withdraw, WithdrawOK, Unlocked
      <3>3. QED
        BY <3>1, <3>2 DEF UserStep
    <2>2. RoundStep
      BY <1>1, <2>1, QuietSteps DEF Next, NextNoGift
    <2>3. Settle
      BY <2>2 DEF RoundStep, Commit, Recover, poolVars
    <2>4. Resolved /\ phase' = "Idle" /\ selected_vault' = Selected
      BY <2>3 DEF Settle, SettleRound, CloseRound
    <2> DEFINE w == Selected
    <2>5. w \in Vaults
      BY <1>1, <2>3, SelectedIsVault DEF Settle, IInv
    <2>6. ExecuteFlip(w)
      BY <2>3 DEF Settle
    <2> HIDE DEF w
    <2>7. PoolTypeOK /\ OneSolSlot /\ PoolInv
      BY <1>1 DEF IInv, PoolInv
    <2>8. /\ reserve \in Nat /\ lamports \in [Vaults -> Nat] /\ lamports[w] \in Nat
          /\ SolAmount(w) \in Nat
      BY <2>5, <2>7, SlotFacts DEF PoolTypeOK
    <2>9. CASE FlipEmpty(w)
      <3>1. SwapFlags(w, 0, 0) /\ UNCHANGED <<reserve, lamports>>
        BY <2>9 DEF FlipEmpty
      <3>2. QED
        BY <2>4, <2>5, <2>7, <2>8, <3>1, SwapFacts DEF w
    <2>10. CASE FlipTraded(w)
      <3> DEFINE f == FlipOf(w)
      <3>1. FlipEffect(f, reserve, r_tok, K, SolAmount(w), TokenAmount(w))
        BY <2>5, <2>7, FlipOfFacts
      <3>2. /\ reserve' = (reserve - f.sol_out) + SolAmount(w)
            /\ lamports' = [lamports EXCEPT ![w] = (@ + f.sol_out) - SolAmount(w)]
            /\ SwapFlags(w, f.sol_out, f.tok_out)
        BY <2>10 DEF FlipTraded, ReserveAfter, VaultAfter
      <3> HIDE DEF f
      <3>3. f.sol_out \in Nat /\ f.tok_out \in Nat
        BY <3>1 DEF FlipEffect
      <3>4. /\ \A v \in Vaults : v # w => lamports'[v] = lamports[v]
            /\ lamports'[w] = (lamports[w] + f.sol_out) - SolAmount(w)
        BY <2>5, <2>8, <3>2
      <3>5. reserve' + lamports'[w] = reserve + lamports[w]
        BY <2>8, <3>2, <3>3, <3>4
      <3>6. /\ \A v \in Vaults : v # w => tranches'[v] = tranches[v]
            /\ \A i \in Slots : tranches'[w][i].total_shares = tranches[w][i].total_shares
        BY <2>5, <2>7, <3>2, <3>3, SwapFacts
      <3>7. QED
        BY <2>4, <3>4, <3>5, <3>6 DEF w
    <2>11. QED
      BY <2>6, <2>9, <2>10 DEF ExecuteFlip, FlipSkipped
  <1>2. QED
    BY <1>1, ProgramSafe, PTL DEF Spec, LockedUntilSettled

-----------------------------------------------------------------------------
\* The price of a share, cross-multiplied: paying in at the rounded-down
\* number of shares, or out at the rounded-down amount, never lowers it.
LEMMA PriceAfterDeposit ==
    ASSUME NEW A \in Nat, NEW T \in Nat, NEW a \in Nat, NEW s \in Nat, s * A <= a * T
    PROVE  (A + a) * T >= A * (T + s)
  <1>1. (A + a) * T = A * T + a * T /\ A * (T + s) = A * T + s * A
    BY SMT
  <1>2. A * T \in Nat /\ a * T \in Nat /\ s * A \in Nat
    BY SMT
  <1>3. QED
    BY <1>1, <1>2, SMT

LEMMA PriceAfterWithdrawal ==
    ASSUME NEW A \in Nat, NEW T \in Nat, NEW g \in Nat, NEW s \in Nat, g * T <= s * A
    PROVE  (A - g) * T >= A * (T - s)
  <1>1. (A - g) * T = A * T - g * T /\ A * (T - s) = A * T - s * A
    BY SMT
  <1>2. A * T \in Nat /\ g * T \in Nat /\ s * A \in Nat
    BY SMT
  <1>3. QED
    BY <1>1, <1>2, SMT

\* No operation in an Idle phase makes a share of any tranche worth less.
NoShareCheaper ==
    \A v \in Vaults, i \in Slots :
        tranches'[v][i].amount * tranches[v][i].total_shares
          >= tranches[v][i].amount * tranches'[v][i].total_shares

LEMMA SameTranchesSamePrice ==
    ASSUME PoolInv, UNCHANGED tranches
    PROVE  NoShareCheaper
  <1>1. ASSUME NEW a \in Nat, NEW b \in Nat PROVE a * b >= a * b
    BY SMT
  <1>2. \A v \in Vaults, i \in Slots :
           tranches[v][i].amount \in Nat /\ tranches[v][i].total_shares \in Nat
    BY DEF PoolInv, PoolTypeOK, Tranche
  <1>3. QED
    BY <1>1, <1>2 DEF NoShareCheaper

\* One tranche changes, at a price that does not fall.
LEMMA OneTranchePrice ==
    ASSUME PoolInv, NEW v \in Vaults, NEW i \in Slots, NEW A \in Nat, NEW T \in Nat,
           tranches' = [tranches EXCEPT ![v][i] =
                          [tranches[v][i] EXCEPT !.amount = A, !.total_shares = T]],
           A * tranches[v][i].total_shares >= tranches[v][i].amount * T
    PROVE  NoShareCheaper
  <1>1. \A w \in Vaults, j \in Slots :
           /\ tranches[w][j] \in Tranche
           /\ tranches[w][j].amount \in Nat /\ tranches[w][j].total_shares \in Nat
    BY DEF PoolInv, PoolTypeOK, Tranche
  <1>2. \A w \in Vaults, j \in Slots : w # v \/ j # i => tranches'[w][j] = tranches[w][j]
    BY DEF PoolInv, PoolTypeOK
  <1> DEFINE tr  == tranches[v][i]
             new == [tr EXCEPT !.amount = A, !.total_shares = T]
  <1>3. tranches'[v][i] = new
    BY DEF PoolInv, PoolTypeOK
  <1>4. new.amount = A /\ new.total_shares = T
    <2>1. tr \in Tranche
      BY <1>1
    <2> HIDE DEF tr
    <2>2. QED
      BY <2>1 DEF Tranche
  <1> HIDE DEF new
  <1>5. ASSUME NEW a \in Nat, NEW b \in Nat PROVE a * b >= a * b
    BY SMT
  <1>6. ASSUME NEW w \in Vaults, NEW j \in Slots
        PROVE  tranches'[w][j].amount * tranches[w][j].total_shares
                 >= tranches[w][j].amount * tranches'[w][j].total_shares
    <2>1. CASE w = v /\ j = i
      BY <1>3, <1>4, <2>1
    <2>2. CASE ~(w = v /\ j = i)
      BY <1>1, <1>2, <1>5, <2>2
    <2>3. QED
      BY <2>1, <2>2
  <1>7. QED
    BY <1>6 DEF NoShareCheaper

LEMMA DepositPrice ==
    ASSUME PoolInv, NEW u \in Users, NEW v \in Vaults, NEW i \in Slots,
           NEW amount \in Nat, Deposit(u, v, i, amount)
    PROVE  NoShareCheaper
  <1> DEFINE T == tranches[v][i].total_shares
             a == tranches[v][i].amount
             s == SharesFor(tranches[v][i], amount)
             A == a + amount
             S == T + s
  <1>1. T \in Nat /\ a \in Nat
    BY DEF PoolInv, PoolTypeOK, Tranche
  <1>2. /\ T # 0 => a > 0
        /\ tranches' = [tranches EXCEPT ![v][i] =
                          [tranches[v][i] EXCEPT !.amount = A, !.total_shares = S]]
    BY DEF Deposit, DepositOK
  <1>3. s \in Nat /\ s * a <= amount * T
    <2>1. CASE T = 0
      <3>1. a = 0 /\ s = amount
        BY <2>1 DEF PoolInv, EmptyTrancheHoldsNothing, SharesFor
      <3>2. amount * 0 = 0
        BY SMT
      <3> HIDE DEF s, a, T
      <3>3. QED
        BY <2>1, <3>1, <3>2
    <2>2. CASE T # 0
      <3>1. s = MulDivFloor(amount, T, a)
        BY <2>2 DEF SharesFor
      <3>2. a \in Nat \ {0}
        BY <1>1, <1>2, <2>2
      <3> HIDE DEF s, a, T
      <3>3. QED
        BY <1>1, <3>1, <3>2, MulDivBounds
    <2>3. QED
      BY <2>1, <2>2
  <1>4. A \in Nat /\ S \in Nat
    BY <1>1, <1>3
  <1>5. A * T >= a * S
    <2> HIDE DEF s, a, T
    <2>1. QED
      BY <1>1, <1>3, PriceAfterDeposit
  <1> HIDE DEF A, S
  <1>6. QED
    BY <1>2, <1>4, <1>5, OneTranchePrice

LEMMA WithdrawPrice ==
    ASSUME PoolInv, NEW u \in Users, NEW v \in Vaults, NEW i \in Slots,
           NEW shares \in Nat, Withdraw(u, v, i, shares)
    PROVE  NoShareCheaper
  <1> DEFINE T == tranches[v][i].total_shares
             a == tranches[v][i].amount
             g == MulDivFloor(shares, a, T)
             A == a - g
             S == T - shares
  <1>1. T \in Nat /\ a \in Nat
    BY DEF PoolInv, PoolTypeOK, Tranche
  <1>2. /\ T > 0 /\ g <= a /\ shares <= T
        /\ tranches' = [tranches EXCEPT ![v][i] =
                          [tranches[v][i] EXCEPT !.amount = A, !.total_shares = S]]
    BY DEF Withdraw, WithdrawOK, GrossOf
  <1> HIDE DEF a, T
  <1>3. g \in Nat /\ g * T <= shares * a
    BY <1>1, <1>2, MulDivBounds
  <1> HIDE DEF g
  <1>4. A \in Nat /\ S \in Nat
    BY <1>1, <1>2, <1>3
  <1>5. A * T >= a * S
    BY <1>1, <1>3, PriceAfterWithdrawal
  <1> HIDE DEF A, S
  <1>6. QED
    BY <1>2, <1>4, <1>5, OneTranchePrice DEF a, T

\* Deposits and withdrawals never dilute the holders of a tranche.
THEOREM PriceHolds == Spec => SharePriceNeverFalls
  <1>1. ASSUME IInv, [Next]_vars, phase = "Idle"
        PROVE  NoShareCheaper
    <2>1. PoolInv
      BY <1>1 DEF IInv
    <2>2. CASE UserStep
      <3>1. PICK u \in Users, v \in Vaults, i \in Slots :
               \/ \E amount \in 1 .. MaxU64 : Deposit(u, v, i, amount)
               \/ \E shares \in 1 .. MaxU64 : Withdraw(u, v, i, shares)
        BY <2>2 DEF UserStep
      <3>2. QED
        BY <2>1, <3>1, DepositPrice, WithdrawPrice
    <2>3. CASE RoundStep
      <3>1. ~Settle
        BY <1>1 DEF Settle, SettleRound
      <3>2. UNCHANGED tranches
        BY <2>3, <3>1 DEF RoundStep, Commit, Recover, poolVars
      <3>3. QED
        BY <2>1, <3>2, SameTranchesSamePrice
    <2>4. QED
      BY <1>1, <2>1, <2>2, <2>3, QuietSteps, SameTranchesSamePrice DEF Next, NextNoGift
  <1>2. IInv /\ [Next]_vars => (phase = "Idle" => NoShareCheaper)
    BY <1>1
  <1>3. QED
    BY <1>2, ProgramSafe, PTL DEF Spec, SharePriceNeverFalls, NoShareCheaper
-----------------------------------------------------------------------------
(***************************************************************************)
(* The roles of a vault's slots follow the history of its rounds.          *)
(***************************************************************************)
LEMMA FlipsFinite ==
    ASSUME RoundInv, NEW v \in Vaults
    PROVE  IsFiniteSet(FlipsOf(v)) /\ Cardinality(FlipsOf(v)) \in Nat
  <1>1. DOMAIN history = 1 .. Len(history) /\ Len(history) \in Nat
    BY DEF RoundInv, RoundTypeOK
  <1>2. IsFiniteSet(1 .. Len(history))
    BY <1>1, FS_Interval
  <1>3. FlipsOf(v) \subseteq 1 .. Len(history)
    BY <1>1 DEF FlipsOf
  <1>4. QED
    BY <1>2, <1>3, FS_Subset, FS_CardinalityType

\* A closed round is a flip of the vault it drew, and of no other; a
\* cancelled one is none.
LEMMA ClosingFlips ==
    ASSUME RoundInv, NEW kind, NEW w, CloseRound(kind, w), NEW v \in Vaults
    PROVE  IF kind = "settled" /\ w = v
           THEN Cardinality(FlipsOf(v))' = Cardinality(FlipsOf(v)) + 1
           ELSE Cardinality(FlipsOf(v))' = Cardinality(FlipsOf(v))
  <1> DEFINE e == [kind |-> kind, seed |-> round_seed, vault |-> w,
                   opened |-> commit_ts, at |-> now]
             n == Len(history) + 1
  <1>1. history' = Append(history, e) /\ history \in Seq(Closed)
    BY DEF CloseRound, RoundInv, RoundTypeOK
  <1>2. e.kind = kind /\ e.vault = w
    OBVIOUS
  <1> HIDE DEF e
  <1>3. /\ DOMAIN history' = DOMAIN history \cup {n}
        /\ n \notin DOMAIN history
        /\ \A i \in DOMAIN history : history'[i] = history[i]
        /\ history'[n] = e
    BY <1>1
  <1> HIDE DEF n
  <1>4. CASE kind = "settled" /\ w = v
    <2>1. FlipsOf(v)' = FlipsOf(v) \cup {n} /\ n \notin FlipsOf(v)
      BY <1>2, <1>3, <1>4 DEF FlipsOf
    <2>2. QED
      BY <1>4, <2>1, FlipsFinite, FS_AddElement
  <1>5. CASE ~(kind = "settled" /\ w = v)
    <2>1. FlipsOf(v)' = FlipsOf(v)
      BY <1>2, <1>3, <1>5 DEF FlipsOf
    <2>2. QED
      BY <1>5, <2>1
  <1>6. QED
    BY <1>4, <1>5

\* Only a settlement changes roles: those of the vault it draws, whose flip
\* is never skipped.
LEMMA SettleTurnsRoles ==
    ASSUME PoolInv, NEW w \in Vaults, ExecuteFlip(w)
    PROVE  /\ SolSlot(w)' = TokSlot(w)
           /\ \A v \in Vaults : v # w => SolSlot(v)' = SolSlot(v)
  <1>1. ~BreachesFloor(w)
    <2>1. FlipOf(w).post_sell_r_sol \in Nat /\ FlipOf(w).post_sell_r_sol >= SeedSol
      BY FlipOfFacts DEF FlipEffect
    <2>2. QED
      BY <2>1, FlipVaultAssumption DEF BreachesFloor
  <1>2. PICK a \in Nat, b \in Nat : SwapFlags(w, a, b)
    <2>1. CASE FlipEmpty(w)
      BY <2>1 DEF FlipEmpty
    <2>2. CASE FlipTraded(w)
      BY <2>2, FlipOfFacts DEF FlipTraded, FlipEffect
    <2>3. QED
      BY <1>1, <2>1, <2>2 DEF ExecuteFlip, FlipSkipped
  <1>3. PoolTypeOK /\ OneSolSlot
    BY DEF PoolInv
  <1>4. QED
    BY <1>2, <1>3, SwapFacts DEF SolSlot

RolesInv == IInv /\ RoundsTurnRoles

LEMMA SettleKeepsRoles == RolesInv /\ Settle => RoundsTurnRoles'
  <1> SUFFICES ASSUME RolesInv, Settle, NEW v \in Vaults
               PROVE  (SolSlot(v) = Cardinality(FlipsOf(v)) % 2)'
    BY DEF RoundsTurnRoles
  <1>1. RoundInv /\ PoolInv /\ SettleRound /\ ExecuteFlip(Selected)
        /\ CloseRound("settled", Selected) /\ Selected \in Vaults
    BY SelectedIsVault DEF RolesInv, IInv, Settle, SettleRound
  <1>2. PICK w \in Vaults :
           /\ w = Selected
           /\ SolSlot(w)' = TokSlot(w)
           /\ \A u \in Vaults : u # w => SolSlot(u)' = SolSlot(u)
    <2> DEFINE w == Selected
    <2>1. w \in Vaults /\ PoolInv /\ ExecuteFlip(w)
      BY <1>1
    <2> HIDE DEF w
    <2>2. QED
      BY <2>1, SettleTurnsRoles DEF w
  <1>3. PICK c \in Nat : c = Cardinality(FlipsOf(v)) /\ SolSlot(v) = c % 2
    BY <1>1, FlipsFinite DEF RolesInv, RoundsTurnRoles
  <1>4. CASE v = w
    <2>1. Cardinality(FlipsOf(v))' = c + 1
      BY <1>1, <1>2, <1>3, <1>4, ClosingFlips
    <2>2. SolSlot(v)' = 1 - (c % 2)
      BY <1>2, <1>3, <1>4 DEF TokSlot
    <2>3. (c + 1) % 2 = 1 - (c % 2)
      BY SMT
    <2>4. QED
      BY <2>1, <2>2, <2>3
  <1>5. CASE v # w
    <2>1. Cardinality(FlipsOf(v))' = c
      BY <1>1, <1>2, <1>3, <1>5, ClosingFlips
    <2>2. QED
      BY <1>2, <1>3, <1>5, <2>1
  <1>6. QED
    BY <1>4, <1>5

\* A step that leaves the assets of the slots and the history alone.
LEMMA SameAssetsSameRoles ==
    ASSUME RoundsTurnRoles, UNCHANGED history,
           \A v \in Vaults : tranches'[v][0].asset = tranches[v][0].asset
    PROVE  RoundsTurnRoles'
  BY DEF RoundsTurnRoles, FlipsOf, SolSlot

LEMMA UserKeepsAssets ==
    ASSUME PoolInv, UserStep
    PROVE  \A v \in Vaults : tranches'[v][0].asset = tranches[v][0].asset
  <1>1. PICK u \in Users, w \in Vaults, i \in Slots :
           \/ \E amount \in 1 .. MaxU64 : Deposit(u, w, i, amount)
           \/ \E shares \in 1 .. MaxU64 : Withdraw(u, w, i, shares)
    BY DEF UserStep
  <1>2. PICK A, T : tranches' = [tranches EXCEPT ![w][i] =
                       [tranches[w][i] EXCEPT !.amount = A, !.total_shares = T]]
    <2>1. ASSUME NEW n, Deposit(u, w, i, n)
          PROVE  tranches' = [tranches EXCEPT ![w][i] =
                    [tranches[w][i] EXCEPT
                        !.amount = tranches[w][i].amount + n,
                        !.total_shares = tranches[w][i].total_shares
                                           + SharesFor(tranches[w][i], n)]]
      BY <2>1 DEF Deposit
    <2>2. ASSUME NEW n, Withdraw(u, w, i, n)
          PROVE  tranches' = [tranches EXCEPT ![w][i] =
                    [tranches[w][i] EXCEPT
                        !.amount = tranches[w][i].amount - GrossOf(tranches[w][i], n),
                        !.total_shares = tranches[w][i].total_shares - n]]
      BY <2>2 DEF Withdraw
    <2>3. QED
      BY <1>1, <2>1, <2>2
  <1>3. /\ tranches \in [Vaults -> [Slots -> Tranche]] /\ 0 \in Slots
        /\ tranches[w][i] \in Tranche
    BY DEF PoolInv, PoolTypeOK, Slots
  <1>4. [tranches[w][i] EXCEPT !.amount = A, !.total_shares = T].asset
          = tranches[w][i].asset
    BY <1>3 DEF Tranche
  <1>5. QED
    BY <1>2, <1>3, <1>4

LEMMA StepKeepsRoles == RolesInv /\ [Next]_vars => RolesInv'
  <1> SUFFICES ASSUME RolesInv, [Next]_vars PROVE RolesInv'
    OBVIOUS
  <1>1. IInv'
    BY StepKeepsInv DEF RolesInv
  <1>2. PoolInv /\ RoundInv /\ RoundsTurnRoles
    BY DEF RolesInv, IInv
  <1>3. CASE UserStep
    <2>1. UNCHANGED history
      <3>1. ASSUME NEW u, NEW v, NEW i, NEW n, Deposit(u, v, i, n) \/ Withdraw(u, v, i, n)
            PROVE  UNCHANGED history
        BY <3>1 DEF Deposit, Withdraw, roundVars
      <3>2. QED
        BY <1>3, <3>1 DEF UserStep
    <2>2. QED
      BY <1>1, <1>2, <1>3, <2>1, UserKeepsAssets, SameAssetsSameRoles DEF RolesInv
  <1>4. CASE TreasuryStep \/ VaultDonation \/ ReserveDonation \/ UNCHANGED vars
    <2>1. UNCHANGED <<tranches, history>>
      BY <1>4, QuietSteps DEF TreasuryStep, SweepTreasury, VaultDonation, DonateToVault,
         ReserveDonation, DonateToReserve, vars, roundVars
    <2>2. QED
      BY <1>1, <1>2, <2>1, SameAssetsSameRoles DEF RolesInv
  <1>5. CASE RoundStep
    <2>1. CASE Settle
      BY <1>1, <2>1, SettleKeepsRoles DEF RolesInv
    <2>2. CASE Recover
      <3>1. CloseRound("recovered", NoVault) /\ UNCHANGED tranches
        BY <2>2 DEF Recover, RecoverRound, poolVars
      <3>2. \A v \in Vaults : Cardinality(FlipsOf(v))' = Cardinality(FlipsOf(v))
        BY <1>2, <3>1, ClosingFlips
      <3>3. QED
        BY <1>1, <1>2, <3>1, <3>2 DEF RolesInv, RoundsTurnRoles, SolSlot
    <2>3. CASE UNCHANGED <<history, poolVars>>
      <3>1. UNCHANGED <<history, tranches>>
        BY <2>3 DEF poolVars
      <3>2. QED
        BY <1>1, <1>2, <3>1, SameAssetsSameRoles DEF RolesInv
    <2>4. QED
      BY <1>5, <2>1, <2>2, <2>3 DEF RoundStep, Commit, CommitRound, Environment, Tick,
         RequestElsewhere, FulfillRandomness
  <1>6. QED
    BY <1>3, <1>4, <1>5 DEF Next, NextNoGift

\* Every settled round has turned the roles of the vault it drew exactly
\* once, no cancelled round has, and no flip was ever skipped.
THEOREM RolesFollow == Spec => []RolesFollowHistory
  <1>1. Init => RolesInv
    <2>1. Init => RoundsTurnRoles
      BY FS_EmptySet DEF Init, RoundInit, RoundsTurnRoles, FlipsOf, SolSlot, Slots
    <2>2. QED
      BY <2>1, InitInv DEF RolesInv
  <1>2. RolesInv => RolesFollowHistory
    BY DEF RolesInv, IInv, PoolInv, RolesFollowHistory
  <1>3. QED
    BY <1>1, <1>2, StepKeepsRoles, PTL DEF Spec

-----------------------------------------------------------------------------
(***************************************************************************)
(* FlipVault implements House.                                             *)
(***************************************************************************)
LEMMA InitMaps == Init => H!HouseInit
  BY DEF Init, H!HouseInit, SolAmount, SolSlot, Slots

\* A step that leaves the tranches alone leaves what is owed alone.
LEMMA SameTranchesSameOwed ==
    ASSUME UNCHANGED tranches
    PROVE  UNCHANGED [v \in Vaults |-> SolAmount(v)]
  BY DEF SolAmount, SolSlot

\* Money paid in or out of a SOL tranche is paid into or out of its till.
LEMMA CashMaps ==
    ASSUME PoolInv, NEW v \in Vaults, NEW i \in Slots, NEW A \in Nat, NEW T \in Nat,
           tranches[v][i].asset = "Sol",
           tranches' = [tranches EXCEPT ![v][i] =
                          [tranches[v][i] EXCEPT !.amount = A, !.total_shares = T]],
           lamports' = [lamports EXCEPT ![v] = @ + (A - tranches[v][i].amount)],
           UNCHANGED reserve
    PROVE  H!PayInOrOut(v)
  <1>1. tranches \in [Vaults -> [Slots -> Tranche]]
    BY DEF PoolInv, PoolTypeOK
  <1>2. SolSlot(v) = i
    BY SlotFacts DEF PoolInv, Tranche, SolSlot, Slots
  <1> DEFINE tr  == tranches[v][i]
             new == [tr EXCEPT !.amount = A, !.total_shares = T]
  <1>3. tranches'[v][i] = new
        /\ \A w \in Vaults, j \in Slots : w # v \/ j # i => tranches'[w][j] = tranches[w][j]
    BY <1>1
  <1>4. new.amount = A /\ new.asset = tr.asset
    <2>1. tr \in Tranche
      BY <1>1
    <2> HIDE DEF tr
    <2>2. QED
      BY <2>1 DEF Tranche
  <1> HIDE DEF new
  <1>5. \A w \in Vaults, j \in Slots : tranches'[w][j].asset = tranches[w][j].asset
    BY <1>3, <1>4
  <1>6. \A w \in Vaults : SolSlot(w)' = SolSlot(w)
    BY <1>5 DEF SolSlot, Slots
  <1>7. SolAmount(v)' = A /\ SolAmount(v) = tranches[v][i].amount
    BY <1>2, <1>3, <1>4, <1>6 DEF SolAmount
  <1>8. \A w \in Vaults : w # v => SolAmount(w)' = SolAmount(w)
    <2>1. \A w \in Vaults : SolSlot(w) \in Slots
      BY DEF SolSlot, Slots
    <2>2. QED
      BY <1>3, <1>6, <2>1 DEF SolAmount
  <1> DEFINE o == [w \in Vaults |-> SolAmount(w)]
  <1>9. o' = [w \in Vaults |-> SolAmount(w)'] /\ o'[v] = A /\ o[v] = tr.amount
    BY <1>7
  <1>10. o' = [o EXCEPT ![v] = o'[v]]
    BY <1>7, <1>8
  <1>11. lamports' = [lamports EXCEPT ![v] = @ + (o'[v] - o[v])]
    BY <1>9
  <1>12. QED
    BY <1>9, <1>10, <1>11 DEF H!PayInOrOut, H!OnlyOwedBy

LEMMA UserMaps == IInv /\ UserStep => \E v \in Vaults : H!PayInOrOut(v)
  <1> SUFFICES ASSUME IInv, UserStep PROVE \E v \in Vaults : H!PayInOrOut(v)
    OBVIOUS
  <1>1. PICK u \in Users, v \in Vaults, i \in Slots :
           \/ \E amount \in 1 .. MaxU64 : Deposit(u, v, i, amount)
           \/ \E shares \in 1 .. MaxU64 : Withdraw(u, v, i, shares)
    BY DEF UserStep
  <1> DEFINE a == tranches[v][i].amount
             T == tranches[v][i].total_shares
  <1>2. /\ a \in Nat /\ T \in Nat /\ lamports \in [Vaults -> Nat]
    BY DEF IInv, PoolInv, PoolTypeOK, Tranche
  <1>3. ASSUME NEW n \in 1 .. MaxU64, Deposit(u, v, i, n)
        PROVE  H!PayInOrOut(v)
    <2> DEFINE s == SharesFor(tranches[v][i], n)
               A == a + n
               S == T + s
    <2>1. /\ tranches[v][i].asset = "Sol" /\ (T # 0 => a > 0)
          /\ tranches' = [tranches EXCEPT ![v][i] =
                            [tranches[v][i] EXCEPT !.amount = A, !.total_shares = S]]
          /\ lamports' = [lamports EXCEPT ![v] = @ + n]
          /\ UNCHANGED reserve
      BY <1>3 DEF Deposit, DepositOK, TakesSol
    <2>2. n \in Nat /\ A \in Nat /\ A - a = n
      BY <1>2
    <2>3. s \in Nat
      BY <1>2, <2>1, <2>2, MulDivBounds DEF SharesFor
    <2> HIDE DEF s
    <2>4. S \in Nat
      BY <1>2, <2>3
    <2> HIDE DEF A, S
    <2>5. lamports' = [lamports EXCEPT ![v] = @ + (A - a)]
      BY <2>1, <2>2
    <2>6. QED
      BY <2>1, <2>2, <2>4, <2>5, CashMaps DEF IInv
  <1>4. ASSUME NEW n \in 1 .. MaxU64, Withdraw(u, v, i, n)
        PROVE  H!PayInOrOut(v)
    <2> DEFINE g == MulDivFloor(n, a, T)
               A == a - g
               S == T - n
    <2>1. /\ tranches[v][i].asset = "Sol" /\ T > 0 /\ g <= a /\ n <= T
          /\ tranches' = [tranches EXCEPT ![v][i] =
                            [tranches[v][i] EXCEPT !.amount = A, !.total_shares = S]]
          /\ lamports' = [lamports EXCEPT ![v] = @ - g]
          /\ UNCHANGED reserve
      BY <1>4 DEF Withdraw, WithdrawOK, TakesSol, GrossOf
    <2>2. n \in Nat /\ g \in Nat
      <3>1. n \in Nat /\ a \in Nat /\ T \in Nat \ {0}
        BY <1>2, <2>1
      <3> HIDE DEF a, T
      <3>2. QED
        BY <3>1, MulDivBounds
    <2> HIDE DEF g
    <2>3. A \in Nat /\ S \in Nat /\ A - a = -g
      BY <1>2, <2>1, <2>2
    <2>4. lamports' = [lamports EXCEPT ![v] = @ + (A - a)]
      <3>1. lamports[v] - g = lamports[v] + (A - a)
        BY <1>2, <2>2, <2>3
      <3>2. QED
        BY <1>2, <2>1, <3>1
    <2> HIDE DEF A, S
    <2>5. QED
      BY <2>1, <2>3, <2>4, CashMaps DEF IInv
  <1>5. QED
    BY <1>1, <1>3, <1>4

\* A settlement is a trade of the selected vault's till, or nothing.
LEMMA SettleMaps ==
    ASSUME PoolInv, NEW v \in Vaults, ExecuteFlip(v)
    PROVE  H!Trade(v) \/ UNCHANGED <<reserve, lamports, [w \in Vaults |-> SolAmount(w)]>>
  <1> DEFINE o == [w \in Vaults |-> SolAmount(w)]
  <1>1. /\ PoolTypeOK /\ OneSolSlot /\ reserve \in Nat
        /\ SolAmount(v) \in Nat /\ lamports \in [Vaults -> Nat]
    BY SlotFacts DEF PoolInv, PoolTypeOK
  <1>2. CASE FlipEmpty(v)
    <2>1. SwapFlags(v, 0, 0) /\ UNCHANGED <<reserve, lamports>> /\ SolAmount(v) = 0
      BY <1>2 DEF FlipEmpty, BothEmpty
    <2>2. SolAmount(v)' = 0 /\ \A w \in Vaults : w # v => SolAmount(w)' = SolAmount(w)
      BY <1>1, <2>1, SwapFacts
    <2>3. UNCHANGED o
      BY <2>1, <2>2
    <2>4. QED
      BY <2>1, <2>3
  <1>3. CASE FlipSkipped(v)
    BY <1>3, SameTranchesSameOwed DEF FlipSkipped
  <1>4. CASE FlipTraded(v)
    <2> DEFINE f == FlipOf(v)
    <2>1. FlipEffect(f, reserve, r_tok, K, SolAmount(v), TokenAmount(v))
          /\ f.post_sell_r_sol >= SeedSol
      BY FlipOfFacts
    <2>2. /\ reserve' = (reserve - f.sol_out) + SolAmount(v)
          /\ lamports' = [lamports EXCEPT ![v] = (@ + f.sol_out) - SolAmount(v)]
          /\ SwapFlags(v, f.sol_out, f.tok_out)
      BY <1>4 DEF FlipTraded, ReserveAfter, VaultAfter
    <2> HIDE DEF f
    <2>3. f.sol_out \in Nat /\ f.tok_out \in Nat /\ f.post_sell_r_sol \in Nat
          /\ f.sol_out = reserve - f.post_sell_r_sol
      BY <2>1 DEF FlipEffect
    <2>4. reserve - f.sol_out >= SeedSol
      BY <1>1, <2>1, <2>3, ConstantFacts
    <2>5. SolAmount(v)' = f.sol_out
          /\ \A w \in Vaults : w # v => SolAmount(w)' = SolAmount(w)
      BY <1>1, <2>2, <2>3, SwapFacts
    <2>6. o'[v] = f.sol_out /\ o[v] = SolAmount(v) /\ o' = [o EXCEPT ![v] = o'[v]]
      BY <2>5
    <2>7. H!Trade(v)
      <3>1. o'[v] \in Nat /\ reserve - o'[v] >= SeedSol
            /\ reserve' = (reserve - o'[v]) + o[v]
            /\ lamports' = [lamports EXCEPT ![v] = (@ + o'[v]) - o[v]]
        BY <2>2, <2>3, <2>4, <2>6
      <3>2. QED
        BY <2>6, <3>1 DEF H!Trade, H!OnlyOwedBy
    <2>8. QED
      BY <2>7
  <1>5. QED
    BY <1>2, <1>3, <1>4 DEF ExecuteFlip

LEMMA DonationMaps ==
    ASSUME IInv, VaultDonation \/ ReserveDonation
    PROVE  H!GiftToBank \/ \E v \in Vaults : H!GiftToTill(v)
  <1>1. reserve \in Nat /\ lamports \in [Vaults -> Nat] /\ wallet \in [Wallets -> Nat]
    BY DEF IInv, PoolInv, PoolTypeOK
  <1>2. UNCHANGED [v \in Vaults |-> SolAmount(v)]
    BY QuietSteps, SameTranchesSameOwed
  <1>3. ASSUME NEW w \in Wallets, NEW v \in Vaults, NEW n \in 1 .. wallet[w],
               DonateToVault(w, v, n)
        PROVE  H!GiftToTill(v)
    <2>1. lamports' = [lamports EXCEPT ![v] = @ + n] /\ UNCHANGED reserve
      BY <1>3 DEF DonateToVault
    <2>2. lamports'[v] = lamports[v] + n /\ n > 0 /\ n \in Nat
      BY <1>1, <2>1
    <2>3. QED
      BY <1>1, <1>2, <2>1, <2>2 DEF H!GiftToTill
  <1>4. ASSUME NEW w \in Wallets, NEW n \in 1 .. wallet[w], DonateToReserve(w, n)
        PROVE  H!GiftToBank
    <2>1. reserve' = reserve + n /\ UNCHANGED lamports
      BY <1>4 DEF DonateToReserve
    <2>2. QED
      BY <1>1, <1>2, <2>1 DEF H!GiftToBank
  <1>5. QED
    BY <1>3, <1>4 DEF VaultDonation, ReserveDonation

LEMMA StepMaps == IInv /\ [Next]_vars => [H!HouseNext]_(H!houseVars)
  <1> SUFFICES ASSUME IInv, [Next]_vars
               PROVE  H!HouseNext
                      \/ UNCHANGED <<reserve, lamports, [v \in Vaults |-> SolAmount(v)]>>
    BY DEF H!houseVars
  <1>1. CASE UserStep
    BY <1>1, UserMaps DEF H!HouseNext
  <1>2. CASE TreasuryStep
    BY <1>2, QuietSteps, SameTranchesSameOwed DEF TreasuryStep, SweepTreasury
  <1>3. CASE RoundStep
    <2>1. CASE Settle
      BY <2>1, SettleMaps, SelectedIsVault DEF Settle, IInv, H!HouseNext
    <2>2. CASE UNCHANGED poolVars
      BY <2>2, SameTranchesSameOwed DEF poolVars
    <2>3. QED
      BY <1>3, <2>1, <2>2 DEF RoundStep, Commit, Recover
  <1>4. CASE VaultDonation \/ ReserveDonation
    BY <1>4, DonationMaps DEF H!HouseNext
  <1>5. CASE UNCHANGED vars
    BY <1>5, SameTranchesSameOwed DEF vars, poolVars
  <1>6. QED
    BY <1>1, <1>2, <1>3, <1>4, <1>5 DEF Next, NextNoGift

\* The program is an implementation of the abstract house.
THEOREM Refinement == Spec => ImplementsHouse
  BY InitMaps, StepMaps, ProgramSafe, PTL DEF Spec, ImplementsHouse, H!HouseSpec
-----------------------------------------------------------------------------
(***************************************************************************)
(* The books: the shares of a tranche are its users' positions, and the    *)
(* lamports of all accounts are the ones there were at the start.          *)
(***************************************************************************)
OtherTranchesKept(v, i) ==
    \A w \in Vaults, j \in Slots : w # v \/ j # i => tranches'[w][j] = tranches[w][j]

LEMMA WalletsFinite == IsFiniteSet(Wallets) /\ IsFiniteSet(Users)
  BY FlipVaultAssumption, FS_AddElement DEF Wallets

\* What a deposit does to the ledgers, with its shares computed.
LEMMA DepositFacts ==
    ASSUME PoolInv, NEW u \in Users, NEW v \in Vaults, NEW i \in Slots,
           NEW n \in 1 .. MaxU64, Deposit(u, v, i, n)
    PROVE  /\ n \in Nat
           /\ \E s \in Nat :
                /\ position' = [position EXCEPT ![u][v][i] = @ + s]
                /\ tranches'[v][i].total_shares = tranches[v][i].total_shares + s
           /\ OtherTranchesKept(v, i)
           /\ wallet' = [wallet EXCEPT ![u] = @ - n]
           /\ lamports' = [lamports EXCEPT ![v] = @ + n]
           /\ UNCHANGED <<reserve, treasury>>
  <1> DEFINE tr == tranches[v][i]
             s  == SharesFor(tr, n)
             a  == tr.amount + n
             T  == tr.total_shares + s
  <1>1. n \in Nat /\ tr \in Tranche /\ tranches \in [Vaults -> [Slots -> Tranche]]
    BY FlipVaultAssumption DEF PoolInv, PoolTypeOK
  <1>2. s \in Nat
    <2>1. tr.total_shares \in Nat /\ tr.amount \in Nat
          /\ (tr.total_shares # 0 => tr.amount > 0)
      BY <1>1 DEF Tranche, Deposit, DepositOK
    <2> HIDE DEF tr
    <2>2. CASE tr.total_shares = 0
      BY <1>1, <2>2 DEF SharesFor
    <2>3. CASE tr.total_shares # 0
      <3>1. SharesFor(tr, n) = MulDivFloor(n, tr.total_shares, tr.amount)
        BY <2>3 DEF SharesFor
      <3>2. PICK b \in Nat, c \in Nat \ {0} : b = tr.total_shares /\ c = tr.amount
        BY <2>1, <2>3
      <3>3. MulDivFloor(n, b, c) \in Nat
        BY <1>1, MulDivBounds
      <3>4. QED
        BY <3>1, <3>2, <3>3
    <2>4. QED
      BY <2>2, <2>3
  <1>3. /\ position' = [position EXCEPT ![u][v][i] = @ + s]
        /\ tranches' = [tranches EXCEPT ![v][i] =
                          [tr EXCEPT !.amount = a, !.total_shares = T]]
        /\ wallet' = [wallet EXCEPT ![u] = @ - n]
        /\ lamports' = [lamports EXCEPT ![v] = @ + n]
        /\ UNCHANGED <<reserve, treasury>>
    BY DEF Deposit, CreditShares
  <1>4. [tr EXCEPT !.amount = a, !.total_shares = T].total_shares = T
    <2> HIDE DEF tr, a, T
    <2>1. QED
      BY <1>1 DEF Tranche
  <1>5. tranches'[v][i].total_shares = T
        /\ OtherTranchesKept(v, i)
    <2> HIDE DEF s, a, T
    <2>1. QED
      BY <1>1, <1>3, <1>4 DEF OtherTranchesKept
  <1> HIDE DEF s
  <1>6. QED
    BY <1>1, <1>2, <1>3, <1>5

\* What a withdrawal does to the ledgers, with its payout and fee computed.
LEMMA WithdrawFacts ==
    ASSUME PoolInv, NEW u \in Users, NEW v \in Vaults, NEW i \in Slots,
           NEW n \in 1 .. MaxU64, Withdraw(u, v, i, n)
    PROVE  /\ n \in Nat
           /\ position' = [position EXCEPT ![u][v][i] = @ - n]
           /\ tranches'[v][i].total_shares = tranches[v][i].total_shares - n
           /\ OtherTranchesKept(v, i)
           /\ \E gross \in Nat, fee \in Nat :
                /\ wallet' = [wallet EXCEPT ![u] = @ + (gross - fee)]
                /\ lamports' = [lamports EXCEPT ![v] = @ - gross]
                /\ treasury' = treasury + fee
           /\ UNCHANGED reserve
  <1> DEFINE tr    == tranches[v][i]
             gross == MulDivFloor(n, tr.amount, tr.total_shares)
             fee   == MulDivFloor(gross, FeeBps, BpsDenom)
             a     == tr.amount - gross
             T     == tr.total_shares - n
  <1>1. n \in Nat /\ tr \in Tranche /\ tranches \in [Vaults -> [Slots -> Tranche]]
    BY FlipVaultAssumption DEF PoolInv, PoolTypeOK
  <1>2. /\ tr.total_shares > 0
        /\ position' = [position EXCEPT ![u][v][i] = @ - n]
        /\ tranches' = [tranches EXCEPT ![v][i] =
                          [tr EXCEPT !.amount = a, !.total_shares = T]]
        /\ wallet' = [wallet EXCEPT ![u] = @ + (gross - fee)]
        /\ lamports' = [lamports EXCEPT ![v] = @ - gross]
        /\ treasury' = treasury + fee
        /\ UNCHANGED reserve
    BY DEF Withdraw, WithdrawOK, GrossOf, NetOf, FeeOf
  <1>3. gross \in Nat
    <2>1. tr.total_shares \in Nat \ {0} /\ tr.amount \in Nat
      BY <1>1, <1>2 DEF Tranche
    <2> HIDE DEF tr
    <2>2. QED
      BY <1>1, <2>1, MulDivBounds
  <1> HIDE DEF gross
  <1>4. fee \in Nat
    BY <1>3, MulDivBounds, ConstantFacts
  <1> HIDE DEF fee
  <1>5. [tr EXCEPT !.amount = a, !.total_shares = T].total_shares = T
    <2> HIDE DEF tr, a, T
    <2>1. QED
      BY <1>1 DEF Tranche
  <1>6. tranches'[v][i].total_shares = T
        /\ OtherTranchesKept(v, i)
    <2> HIDE DEF a, T
    <2>1. QED
      BY <1>1, <1>2, <1>5 DEF OtherTranchesKept
  <1>7. QED
    BY <1>1, <1>2, <1>3, <1>4, <1>6

\* One user's position in a tranche and the tranche's total change alike.
LEMMA OnePosition ==
    ASSUME PoolInv, PoolInv', SharesSumToTotal,
           NEW u \in Users, NEW v \in Vaults, NEW i \in Slots, NEW d \in Int,
           position' = [position EXCEPT ![u][v][i] = @ + d],
           tranches'[v][i].total_shares = tranches[v][i].total_shares + d,
           OtherTranchesKept(v, i)
    PROVE  SharesSumToTotal'
  <1>1. /\ position \in [Users -> [Vaults -> [Slots -> Nat]]]
        /\ position' \in [Users -> [Vaults -> [Slots -> Nat]]]
    BY DEF PoolInv, PoolTypeOK
  <1>2. ASSUME NEW w \in Vaults, NEW j \in Slots
        PROVE  SumFunction([x \in Users |-> position'[x][w][j]]) = tranches'[w][j].total_shares
    <2>1. PICK f : f = [x \in Users |-> position[x][w][j]]
      OBVIOUS
    <2>2. PICK g : g = [x \in Users |-> position'[x][w][j]]
      OBVIOUS
    <2>3. SumFunction(f) = tranches[w][j].total_shares
      BY <2>1 DEF SharesSumToTotal
    <2>4. CASE w = v /\ j = i
      <3>1. f \in [Users -> Int] /\ g \in [Users -> Int]
        BY <1>1, <2>1, <2>2
      <3>2. g[u] = f[u] + d /\ \A x \in Users : x # u => g[x] = f[x]
        BY <1>1, <2>1, <2>2, <2>4
      <3>3. SumFunction(g) = SumFunction(f) + (g[u] - f[u])
        BY <3>1, <3>2, WalletsFinite, SumChange
      <3>4. f[u] \in Int /\ g[u] \in Int /\ tranches[v][i].total_shares \in Int
        <4>1. tranches[v][i].total_shares \in Nat
          BY DEF PoolInv, PoolTypeOK, Tranche
        <4>2. QED
          BY <3>1, <4>1
      <3>5. SumFunction(g) = tranches[v][i].total_shares + d
        BY <2>3, <2>4, <3>2, <3>3, <3>4
      <3>6. QED
        BY <2>2, <2>4, <3>5
    <2>5. CASE ~(w = v /\ j = i)
      <3>1. \A x \in Users : position'[x][w][j] = position[x][w][j]
        BY <1>1, <2>5
      <3>2. f = g /\ tranches'[w][j] = tranches[w][j]
        BY <2>1, <2>2, <2>5, <3>1 DEF OtherTranchesKept
      <3>3. QED
        BY <2>2, <2>3, <3>2
    <2>6. QED
      BY <2>4, <2>5
  <1>3. QED
    BY <1>2 DEF SharesSumToTotal

\* Which steps leave the positions and the share totals alone.
LEMMA SamePositions ==
    ASSUME SharesSumToTotal, UNCHANGED position,
           \A v \in Vaults, i \in Slots :
               tranches'[v][i].total_shares = tranches[v][i].total_shares
    PROVE  SharesSumToTotal'
  BY DEF SharesSumToTotal

LEMMA FlipKeepsShares ==
    ASSUME PoolInv, NEW w \in Vaults, ExecuteFlip(w)
    PROVE  \A v \in Vaults, i \in Slots :
               tranches'[v][i].total_shares = tranches[v][i].total_shares
  <1>1. PoolTypeOK /\ OneSolSlot
    BY DEF PoolInv
  <1>2. ASSUME NEW a \in Nat, NEW b \in Nat, SwapFlags(w, a, b)
        PROVE  \A v \in Vaults, i \in Slots :
                   tranches'[v][i].total_shares = tranches[v][i].total_shares
    <2>1. /\ \A v \in Vaults : v # w => tranches'[v] = tranches[v]
          /\ \A i \in Slots : tranches'[w][i].total_shares = tranches[w][i].total_shares
      BY <1>1, <1>2, SwapFacts
    <2>2. QED
      BY <2>1
  <1>3. CASE FlipEmpty(w)
    BY <1>2, <1>3 DEF FlipEmpty
  <1>4. CASE FlipSkipped(w)
    BY <1>4 DEF FlipSkipped
  <1>5. CASE FlipTraded(w)
    BY <1>2, <1>5, FlipOfFacts DEF FlipTraded, FlipEffect
  <1>6. QED
    BY <1>3, <1>4, <1>5 DEF ExecuteFlip

SharesInv == IInv /\ SharesSumToTotal

LEMMA StepKeepsShares == SharesInv /\ [Next]_vars => SharesInv'
  <1> SUFFICES ASSUME SharesInv, [Next]_vars PROVE SharesInv'
    OBVIOUS
  <1>1. IInv' /\ PoolInv /\ PoolInv' /\ RoundInv /\ SharesSumToTotal
    BY StepKeepsInv DEF SharesInv, IInv
  <1>2. CASE UserStep
    <2>1. PICK u \in Users, v \in Vaults, i \in Slots :
             \/ \E amount \in 1 .. MaxU64 : Deposit(u, v, i, amount)
             \/ \E shares \in 1 .. MaxU64 : Withdraw(u, v, i, shares)
      BY <1>2 DEF UserStep
    <2>2. ASSUME NEW n \in 1 .. MaxU64, Deposit(u, v, i, n) PROVE SharesSumToTotal'
      <3>1. PICK s \in Nat :
               /\ position' = [position EXCEPT ![u][v][i] = @ + s]
               /\ tranches'[v][i].total_shares = tranches[v][i].total_shares + s
        BY <1>1, <2>2, DepositFacts
      <3>2. OtherTranchesKept(v, i)
        BY <1>1, <2>2, DepositFacts
      <3>3. s \in Int
        OBVIOUS
      <3>4. QED
        BY <1>1, <3>1, <3>2, <3>3, OnePosition
    <2>3. ASSUME NEW n \in 1 .. MaxU64, Withdraw(u, v, i, n) PROVE SharesSumToTotal'
      <3>1. /\ n \in Nat
            /\ position' = [position EXCEPT ![u][v][i] = @ - n]
            /\ tranches'[v][i].total_shares = tranches[v][i].total_shares - n
            /\ OtherTranchesKept(v, i)
        BY <1>1, <2>3, WithdrawFacts
      <3>2. PICK d \in Int : d = -n
        BY <3>1
      <3>3. position[u][v][i] \in Nat /\ tranches[v][i].total_shares \in Nat
        BY <1>1 DEF PoolInv, PoolTypeOK, Tranche
      <3>4. position[u][v][i] - n = position[u][v][i] + d
        BY <3>1, <3>2, <3>3
      <3>5. tranches[v][i].total_shares - n = tranches[v][i].total_shares + d
        BY <3>1, <3>2, <3>3
      <3>6. position' = [position EXCEPT ![u][v][i] = @ + d]
        BY <3>1, <3>4
      <3>7. QED
        BY <1>1, <3>1, <3>5, <3>6, OnePosition
    <2>4. QED
      BY <1>1, <2>1, <2>2, <2>3 DEF SharesInv
  <1>3. CASE TreasuryStep \/ VaultDonation \/ ReserveDonation \/ UNCHANGED vars
    <2>1. UNCHANGED <<tranches, position>>
      BY <1>3 DEF TreasuryStep, SweepTreasury, VaultDonation, DonateToVault, ReserveDonation,
         DonateToReserve, vars, poolVars
    <2>2. QED
      BY <1>1, <2>1, SamePositions DEF SharesInv
  <1>4. CASE RoundStep
    <2>1. CASE Settle
      <3>1. ExecuteFlip(Selected) /\ Selected \in Vaults /\ UNCHANGED position
        BY <1>1, <2>1, SelectedIsVault DEF Settle
      <3>2. \A v \in Vaults, i \in Slots :
               tranches'[v][i].total_shares = tranches[v][i].total_shares
        BY <1>1, <3>1, FlipKeepsShares
      <3>3. QED
        BY <1>1, <3>1, <3>2, SamePositions DEF SharesInv
    <2>2. CASE UNCHANGED poolVars
      <3>1. UNCHANGED <<tranches, position>>
        BY <2>2 DEF poolVars
      <3>2. QED
        BY <1>1, <3>1, SamePositions DEF SharesInv
    <2>3. QED
      BY <1>4, <2>1, <2>2 DEF RoundStep, Commit, Recover
  <1>5. QED
    BY <1>2, <1>3, <1>4 DEF Next, NextNoGift

LEMMA InitShares == Init => SharesSumToTotal
  <1> SUFFICES ASSUME Init, NEW v \in Vaults, NEW i \in Slots
               PROVE  SumFunction([u \in Users |-> position[u][v][i]])
                        = tranches[v][i].total_shares
    BY DEF SharesSumToTotal
  <1> DEFINE f == [u \in Users |-> position[u][v][i]]
  <1>1. f = [u \in Users |-> 0] /\ tranches[v][i].total_shares = 0
    BY DEF Init
  <1> HIDE DEF f
  <1>2. SumFunction(f) = 0
    BY <1>1, WalletsFinite, SumZero
  <1>3. QED
    BY <1>1, <1>2 DEF f

\* The users' positions add up to the shares of every tranche, however its
\* asset was swapped: no shares are lost, and nobody redeems another's.
THEOREM SharesAddUp == Spec => []SharesSumToTotal
  <1>1. Init => SharesInv
    BY InitInv, InitShares DEF SharesInv
  <1>2. SharesInv => SharesSumToTotal
    BY DEF SharesInv
  <1>3. QED
    BY <1>1, <1>2, StepKeepsShares, PTL DEF Spec

\* So no position exceeds the tranche it is a part of.
LEMMA PositionWithinTotal ==
    ASSUME PoolInv, SharesSumToTotal, NEW u \in Users, NEW v \in Vaults, NEW i \in Slots
    PROVE  position[u][v][i] <= tranches[v][i].total_shares
  <1> DEFINE f == [x \in Users |-> position[x][v][i]]
  <1>1. f \in [Users -> Nat] /\ f[u] = position[u][v][i]
    BY DEF PoolInv, PoolTypeOK
  <1>2. SumFunction(f) = tranches[v][i].total_shares
    BY DEF SharesSumToTotal
  <1> HIDE DEF f
  <1>3. f[u] <= SumFunction(f)
    BY <1>1, WalletsFinite, SumNat
  <1>4. QED
    BY <1>1, <1>2, <1>3

-----------------------------------------------------------------------------
\* Lamports move: one vault's account, one wallet, the reserve and the
\* treasury change, by amounts that cancel out.
LEMMA MovesConserve ==
    ASSUME PoolInv, PoolInv', LamportsConserved,
           NEW v \in Vaults, NEW w \in Wallets, NEW x \in Int, NEW y \in Int,
           lamports' = [lamports EXCEPT ![v] = @ + x],
           wallet' = [wallet EXCEPT ![w] = @ + y],
           reserve' + treasury' + x + y = reserve + treasury
    PROVE  LamportsConserved'
  <1>1. /\ lamports \in [Vaults -> Int] /\ lamports' \in [Vaults -> Int]
        /\ wallet \in [Wallets -> Int] /\ wallet' \in [Wallets -> Int]
        /\ reserve \in Nat /\ reserve' \in Nat /\ treasury \in Nat /\ treasury' \in Nat
    BY DEF PoolInv, PoolTypeOK
  <1>2. PICK l0, l1 : l0 = lamports /\ l1 = lamports'
    OBVIOUS
  <1>3. PICK w0, w1 : w0 = wallet /\ w1 = wallet'
    OBVIOUS
  <1>4. /\ l0 \in [Vaults -> Int] /\ l1 \in [Vaults -> Int] /\ l1[v] = l0[v] + x
        /\ \A z \in Vaults : z # v => l1[z] = l0[z]
    BY <1>1, <1>2
  <1>5. /\ w0 \in [Wallets -> Int] /\ w1 \in [Wallets -> Int] /\ w1[w] = w0[w] + y
        /\ \A z \in Wallets : z # w => w1[z] = w0[z]
    BY <1>1, <1>3
  <1>6. SumFunction(l1) = SumFunction(l0) + x
    <2>1. SumFunction(l1) = SumFunction(l0) + (l1[v] - l0[v])
      BY <1>4, VaultsFinite, SumChange
    <2>2. SumFunction(l0) \in Int /\ l0[v] \in Int
      BY <1>4, VaultsFinite, SumInt
    <2>3. QED
      BY <1>4, <2>1, <2>2
  <1>7. SumFunction(w1) = SumFunction(w0) + y
    <2>1. SumFunction(w1) = SumFunction(w0) + (w1[w] - w0[w])
      BY <1>5, WalletsFinite, SumChange
    <2>2. SumFunction(w0) \in Int /\ w0[w] \in Int
      BY <1>5, WalletsFinite, SumInt
    <2>3. QED
      BY <1>5, <2>1, <2>2
  <1>8. SumFunction(l0) \in Int /\ SumFunction(w0) \in Int
    BY <1>4, <1>5, VaultsFinite, WalletsFinite, SumInt
  <1>9. reserve + treasury + SumFunction(l0) + SumFunction(w0) = SeedSol + SumFunction(Funds)
    BY <1>2, <1>3 DEF LamportsConserved
  <1>10. reserve' + treasury' + SumFunction(l1) + SumFunction(w1)
           = reserve + treasury + SumFunction(l0) + SumFunction(w0)
    <2>1. PICK a \in Int, b \in Int : a = SumFunction(l0) /\ b = SumFunction(w0)
      BY <1>8
    <2>2. PICK r0 \in Int, t0 \in Int, r1 \in Int, t1 \in Int :
             r0 = reserve /\ t0 = treasury /\ r1 = reserve' /\ t1 = treasury'
      BY <1>1
    <2>3. r1 + t1 + x + y = r0 + t0
      BY <2>2
    <2>4. r1 + t1 + (a + x) + (b + y) = r0 + t0 + a + b
      BY <2>3
    <2>5. QED
      BY <1>6, <1>7, <2>1, <2>2, <2>4
  <1>11. reserve' + treasury' + SumFunction(l1) + SumFunction(w1) = SeedSol + SumFunction(Funds)
    BY <1>9, <1>10
  <1>12. QED
    BY <1>2, <1>3, <1>11 DEF LamportsConserved

\* An account that keeps its balance gains nothing.
LEMMA GainNothing ==
    ASSUME PoolInv
    PROVE  /\ \A v \in Vaults : lamports = [lamports EXCEPT ![v] = @ + 0]
           /\ \A w \in Wallets : wallet = [wallet EXCEPT ![w] = @ + 0]
  BY DEF PoolInv, PoolTypeOK

LEMMA UserConserves ==
    ASSUME PoolInv, PoolInv', LamportsConserved, UserStep
    PROVE  LamportsConserved'
  <1>1. PICK u \in Users, v \in Vaults, i \in Slots :
           \/ \E amount \in 1 .. MaxU64 : Deposit(u, v, i, amount)
           \/ \E shares \in 1 .. MaxU64 : Withdraw(u, v, i, shares)
    BY DEF UserStep
  <1>2. u \in Wallets /\ lamports[v] \in Nat /\ wallet[u] \in Nat
        /\ reserve \in Nat /\ treasury \in Nat
    BY DEF Wallets, PoolInv, PoolTypeOK
  <1>3. ASSUME NEW n \in 1 .. MaxU64, Deposit(u, v, i, n) PROVE LamportsConserved'
    <2>1. /\ n \in Nat
          /\ wallet' = [wallet EXCEPT ![u] = @ - n]
          /\ lamports' = [lamports EXCEPT ![v] = @ + n]
          /\ UNCHANGED <<reserve, treasury>>
      BY <1>3, DepositFacts
    <2>2. PICK y \in Int : y = -n
      BY <2>1
    <2>3. wallet[u] - n = wallet[u] + y
      BY <1>2, <2>1, <2>2
    <2>4. wallet' = [wallet EXCEPT ![u] = @ + y]
      BY <2>1, <2>3
    <2>5. n \in Int /\ reserve' + treasury' + n + y = reserve + treasury
      BY <1>2, <2>1, <2>2
    <2>6. QED
      BY <1>2, <2>1, <2>4, <2>5, MovesConserve
  <1>4. ASSUME NEW n \in 1 .. MaxU64, Withdraw(u, v, i, n) PROVE LamportsConserved'
    <2>1. PICK gross \in Nat, fee \in Nat :
             /\ wallet' = [wallet EXCEPT ![u] = @ + (gross - fee)]
             /\ lamports' = [lamports EXCEPT ![v] = @ - gross]
             /\ treasury' = treasury + fee
      BY <1>4, WithdrawFacts
    <2>2. UNCHANGED reserve
      BY <1>4, WithdrawFacts
    <2>3. PICK x \in Int, y \in Int : x = -gross /\ y = gross - fee
      OBVIOUS
    <2>4. lamports[v] - gross = lamports[v] + x
      BY <1>2, <2>3
    <2>5. lamports' = [lamports EXCEPT ![v] = @ + x] /\ wallet' = [wallet EXCEPT ![u] = @ + y]
      BY <2>1, <2>3, <2>4
    <2>6. reserve' + treasury' + x + y = reserve + treasury
      BY <1>2, <2>1, <2>2, <2>3
    <2>7. QED
      BY <1>2, <2>5, <2>6, MovesConserve
  <1>5. QED
    BY <1>1, <1>3, <1>4

LEMMA SweepConserves ==
    ASSUME PoolInv, PoolInv', LamportsConserved, TreasuryStep
    PROVE  LamportsConserved'
  <1>1. PICK w \in Wallets, n \in 1 .. treasury : SweepTreasury(w, n)
    BY DEF TreasuryStep
  <1>2. /\ treasury' = treasury - n
        /\ wallet' = [wallet EXCEPT ![w] = @ + n]
        /\ UNCHANGED <<reserve, lamports>>
    BY <1>1 DEF SweepTreasury
  <1>3. treasury \in Nat /\ reserve \in Nat
    BY DEF PoolInv, PoolTypeOK
  <1>4. n \in Int /\ 0 \in Int /\ reserve' + treasury' + 0 + n = reserve + treasury
    BY <1>2, <1>3
  <1>5. PICK v \in Vaults : TRUE
    BY RoundAssumption DEF Vaults
  <1>6. lamports' = [lamports EXCEPT ![v] = @ + 0]
    BY <1>2, GainNothing
  <1>7. QED
    BY <1>2, <1>4, <1>6, MovesConserve

LEMMA DonationConserves ==
    ASSUME PoolInv, PoolInv', LamportsConserved, VaultDonation \/ ReserveDonation
    PROVE  LamportsConserved'
  <1>1. /\ treasury \in Nat /\ reserve \in Nat /\ wallet \in [Wallets -> Nat]
    BY DEF PoolInv, PoolTypeOK
  <1>2. ASSUME NEW w \in Wallets, NEW n \in 1 .. wallet[w]
        PROVE  n \in Int /\ -n \in Int /\ wallet[w] - n = wallet[w] + (-n)
    BY <1>1
  <1>3. ASSUME NEW w \in Wallets, NEW v \in Vaults, NEW n \in 1 .. wallet[w],
               DonateToVault(w, v, n)
        PROVE  LamportsConserved'
    <2>1. PICK y \in Int : y = -n
      BY <1>2
    <2>2. /\ wallet' = [wallet EXCEPT ![w] = @ + y]
          /\ lamports' = [lamports EXCEPT ![v] = @ + n]
          /\ UNCHANGED <<reserve, treasury>>
      BY <1>2, <1>3, <2>1 DEF DonateToVault
    <2>3. n \in Int /\ reserve' + treasury' + n + y = reserve + treasury
      BY <1>1, <1>2, <2>1, <2>2
    <2>4. QED
      BY <2>2, <2>3, MovesConserve
  <1>4. ASSUME NEW w \in Wallets, NEW n \in 1 .. wallet[w], DonateToReserve(w, n)
        PROVE  LamportsConserved'
    <2>1. PICK y \in Int : y = -n
      BY <1>2
    <2>2. /\ wallet' = [wallet EXCEPT ![w] = @ + y]
          /\ reserve' = reserve + n
          /\ UNCHANGED <<lamports, treasury>>
      BY <1>2, <1>4, <2>1 DEF DonateToReserve
    <2>3. 0 \in Int /\ reserve' + treasury' + 0 + y = reserve + treasury
      BY <1>1, <1>2, <2>1, <2>2
    <2>4. PICK v \in Vaults : TRUE
      BY RoundAssumption DEF Vaults
    <2>5. lamports' = [lamports EXCEPT ![v] = @ + 0]
      BY <2>2, GainNothing
    <2>6. QED
      BY <2>2, <2>3, <2>5, MovesConserve
  <1>5. QED
    BY <1>3, <1>4 DEF VaultDonation, ReserveDonation

\* A settlement moves lamports between the reserve and the selected vault.
LEMMA FlipConserves ==
    ASSUME PoolInv, PoolInv', LamportsConserved, NEW v \in Vaults, ExecuteFlip(v),
           UNCHANGED <<treasury, wallet>>
    PROVE  LamportsConserved'
  <1>1. /\ treasury \in Nat /\ reserve \in Nat /\ SolAmount(v) \in Nat
        /\ lamports[v] \in Nat
    BY SlotFacts DEF PoolInv, PoolTypeOK
  <1>2. CASE FlipEmpty(v) \/ FlipSkipped(v)
    <2>1. UNCHANGED <<reserve, lamports>>
      BY <1>2 DEF FlipEmpty, FlipSkipped
    <2>2. QED
      BY <2>1 DEF LamportsConserved
  <1>3. CASE FlipTraded(v)
    <2>1. PICK p \in Nat : p = FlipOf(v).sol_out
      BY FlipOfFacts DEF FlipEffect
    <2>2. /\ reserve' = (reserve - p) + SolAmount(v)
          /\ lamports' = [lamports EXCEPT ![v] = (@ + p) - SolAmount(v)]
      BY <1>3, <2>1 DEF FlipTraded, ReserveAfter, VaultAfter
    <2>3. PICK x \in Int : x = p - SolAmount(v)
      BY <1>1
    <2>4. (lamports[v] + p) - SolAmount(v) = lamports[v] + x
      BY <1>1, <2>3
    <2>5. lamports' = [lamports EXCEPT ![v] = @ + x]
      BY <2>2, <2>4
    <2>6. 0 \in Int /\ reserve' + treasury' + x + 0 = reserve + treasury
      BY <1>1, <2>2, <2>3
    <2>7. Founder \in Wallets /\ wallet' = [wallet EXCEPT ![Founder] = @ + 0]
      BY GainNothing DEF Wallets
    <2>8. QED
      BY <2>5, <2>6, <2>7, MovesConserve
  <1>4. QED
    BY <1>2, <1>3 DEF ExecuteFlip

ConservedInv == IInv /\ LamportsConserved

LEMMA StepConserves == ConservedInv /\ [Next]_vars => ConservedInv'
  <1> SUFFICES ASSUME ConservedInv, [Next]_vars PROVE ConservedInv'
    OBVIOUS
  <1>1. IInv' /\ PoolInv /\ PoolInv' /\ RoundInv /\ LamportsConserved
    BY StepKeepsInv DEF ConservedInv, IInv
  <1>2. CASE UserStep \/ TreasuryStep \/ VaultDonation \/ ReserveDonation
    BY <1>1, <1>2, UserConserves, SweepConserves, DonationConserves DEF ConservedInv
  <1>3. CASE Settle
    <2>1. ExecuteFlip(Selected) /\ Selected \in Vaults /\ UNCHANGED <<treasury, wallet>>
      BY <1>1, <1>3, SelectedIsVault DEF Settle
    <2>2. QED
      BY <1>1, <2>1, FlipConserves DEF ConservedInv
  <1>4. CASE UNCHANGED poolVars
    BY <1>1, <1>4 DEF ConservedInv, LamportsConserved, poolVars
  <1>5. QED
    BY <1>2, <1>3, <1>4 DEF Next, NextNoGift, RoundStep, Commit, Recover, vars

\* No instruction, settlement or transfer creates or destroys a lamport.
THEOREM LamportsKept == Spec => []LamportsConserved
  <1>1. Init => LamportsConserved
    <2>1. ASSUME Init PROVE LamportsConserved
      <3>1. lamports = [v \in Vaults |-> 0] /\ wallet = Funds
            /\ reserve = SeedSol /\ treasury = 0
        BY <2>1 DEF Init
      <3>2. SumFunction(lamports) = 0
        BY <3>1, VaultsFinite, SumZero
      <3>3. Funds \in [Wallets -> Int]
        BY FlipVaultAssumption
      <3>4. SumFunction(Funds) \in Int
        BY <3>3, WalletsFinite, SumInt
      <3>5. QED
        BY <3>1, <3>2, <3>4, ConstantFacts DEF LamportsConserved
    <2>2. QED
      BY <2>1
  <1>2. Init => ConservedInv
    BY <1>1, InitInv DEF ConservedInv
  <1>3. ConservedInv => LamportsConserved
    BY DEF ConservedInv
  <1>4. QED
    BY <1>2, <1>3, StepConserves, PTL DEF Spec

\* The curve and the TOKEN tranches never hold more than the genesis
\* supply, so no credit of virtual tokens overflows.
THEOREM SupplyBounded == Spec => []TokensBounded
  <1>1. IInv => TokensBounded
    BY DEF IInv, PoolInv
  <1>2. QED
    BY <1>1, ProgramSafe, PTL
-----------------------------------------------------------------------------
(***************************************************************************)
(* There and back: what a deposit is worth at the moment it is made.       *)
(***************************************************************************)
LEMMA Monotone ==
    ASSUME NEW x \in Nat, NEW y \in Nat, NEW s \in Nat, x <= y
    PROVE  x * s <= y * s
  BY SMT

LEMMA Cancel ==
    ASSUME NEW x \in Nat, NEW y \in Nat, NEW s \in Nat \ {0}, x * s <= y * s
    PROVE  x <= y
  <1>1. y < x => y * s < x * s
    BY SMT
  <1>2. x * s \in Nat /\ y * s \in Nat
    BY SMT
  <1>3. QED
    BY <1>1, <1>2

\* Shares no better than the old price are worth no more than was paid.
LEMMA BoughtAndSold ==
    ASSUME NEW n \in Nat, NEW s \in Nat \ {0}, NEW a \in Nat, NEW T \in Nat, s * a <= n * T
    PROVE  MulDivFloor(s, a + n, T + s) <= n
  <1>1. PICK g \in Nat : g = MulDivFloor(s, a + n, T + s) /\ g * (T + s) <= s * (a + n)
    <2>1. PICK A \in Nat, S \in Nat \ {0} : A = a + n /\ S = T + s
      OBVIOUS
    <2>2. MulDivFloor(s, A, S) \in Nat /\ MulDivFloor(s, A, S) * S <= s * A
      BY MulDivBounds
    <2>3. QED
      BY <2>1, <2>2
  <1>2. s * (a + n) = s * a + s * n /\ n * (T + s) = n * T + n * s /\ s * n = n * s
    BY SMT
  <1>3. s * a \in Nat /\ s * n \in Nat /\ n * T \in Nat /\ g * (T + s) \in Nat
    BY SMT
  <1>4. g * (T + s) <= n * (T + s)
    BY <1>1, <1>2, <1>3
  <1>5. QED
    BY <1>1, <1>4, Cancel

\* What u has gained of a tranche in a step, at the tranche's new price.
GainWorth(u, v, i) == GrossOf(tranches'[v][i], position'[u][v][i] - position[u][v][i])

\* A deposit never buys shares that could be redeemed at once for more than it
\* paid in, before any fee.
NoProfitThereAndBack ==
    [][\A u \in Users, v \in Vaults, i \in Slots, n \in 1 .. MaxU64 :
         Deposit(u, v, i, n) => GainWorth(u, v, i) <= n]_vars

LEMMA DepositWorth ==
    ASSUME PoolInv, NEW u \in Users, NEW v \in Vaults, NEW i \in Slots,
           NEW n \in 1 .. MaxU64, Deposit(u, v, i, n)
    PROVE  GainWorth(u, v, i) <= n
  <1> DEFINE tr == tranches[v][i]
             T  == tr.total_shares
             a  == tr.amount
             s  == SharesFor(tr, n)
  <1>1. /\ n \in Nat /\ tr \in Tranche
        /\ tranches \in [Vaults -> [Slots -> Tranche]]
        /\ position \in [Users -> [Vaults -> [Slots -> Nat]]]
    BY FlipVaultAssumption DEF PoolInv, PoolTypeOK
  <1>2. T \in Nat /\ a \in Nat
    BY <1>1 DEF Tranche
  <1>3. /\ T # 0 => a > 0
        /\ s > 0
        /\ tranches' = [tranches EXCEPT ![v][i] =
                          [tr EXCEPT !.amount = a + n, !.total_shares = T + s]]
        /\ position' = [position EXCEPT ![u][v][i] = @ + s]
    BY DEF Deposit, DepositOK, CreditShares
  <1>4. s \in Nat \ {0} /\ s * a <= n * T
    <2>1. CASE T = 0
      <3>1. a = 0 /\ s = n
        BY <2>1 DEF PoolInv, EmptyTrancheHoldsNothing, SharesFor
      <3>2. n * 0 = 0
        BY <1>1, SMT
      <3> HIDE DEF s, a, T
      <3>3. QED
        BY <1>1, <1>3, <2>1, <3>1, <3>2
    <2>2. CASE T # 0
      <3>1. s = MulDivFloor(n, T, a)
        BY <2>2 DEF SharesFor
      <3>2. a \in Nat \ {0}
        BY <1>2, <1>3, <2>2
      <3> HIDE DEF s, a, T
      <3>3. QED
        BY <1>1, <1>2, <1>3, <3>1, <3>2, MulDivBounds
    <2>3. QED
      BY <2>1, <2>2
  <1>5. tranches'[v][i] = [tr EXCEPT !.amount = a + n, !.total_shares = T + s]
    <2> HIDE DEF s
    <2>1. QED
      BY <1>1, <1>3
  <1>6. tranches'[v][i].amount = a + n /\ tranches'[v][i].total_shares = T + s
    <2> HIDE DEF tr
    <2>1. QED
      BY <1>1, <1>5 DEF Tranche
  <1>7. position'[u][v][i] - position[u][v][i] = s
    <2> HIDE DEF s
    <2>1. QED
      BY <1>1, <1>3, <1>4
  <1>8. GainWorth(u, v, i) = MulDivFloor(s, a + n, T + s)
    BY <1>6, <1>7 DEF GainWorth, GrossOf
  <1> HIDE DEF s, a, T
  <1>9. QED
    BY <1>1, <1>2, <1>4, <1>8, BoughtAndSold

\* Nobody gains by depositing and withdrawing at once, for any amount, any
\* number of users and every state the program can reach: the rounding of both
\* operations is in the tranche's favour.
THEOREM ThereAndBack == Spec => NoProfitThereAndBack
  <1>1. ASSUME IInv
        PROVE  \A u \in Users, v \in Vaults, i \in Slots, n \in 1 .. MaxU64 :
                 Deposit(u, v, i, n) => GainWorth(u, v, i) <= n
    BY <1>1, DepositWorth DEF IInv
  <1>2. QED
    BY <1>1, ProgramSafe, PTL DEF NoProfitThereAndBack
=============================================================================
