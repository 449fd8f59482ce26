--------------------------- MODULE FrontendProofs ---------------------------
(***************************************************************************)
(* The safety of the web page, for any visitors, clicks and numbers typed: *)
(* every step of a page is a step of the program or leaves it alone, a     *)
(* page that is up to date is served, and what a withdrawal pays does not  *)
(* fall below what the page promised while no round closes.                *)
(***************************************************************************)
EXTENDS Frontend, FlipVaultStepProofs

-----------------------------------------------------------------------------
(***************************************************************************)
(* Prices, cross-multiplied.                                               *)
(***************************************************************************)
\* g for m is no better than a for s, and a for s no better than b for t.
LEMMA PriceChain ==
    ASSUME NEW g \in Nat, NEW m \in Nat, NEW a \in Nat, NEW s \in Nat \ {0},
           NEW b \in Nat, NEW t \in Nat, g * s <= m * a, a * t <= b * s
    PROVE  g * t <= m * b
  <1>1. g * s \in Nat /\ m * a \in Nat /\ a * t \in Nat /\ b * s \in Nat
        /\ g * t \in Nat /\ m * b \in Nat
    BY SMT
  <1>2. (g * s) * t <= (m * a) * t
    BY <1>1, Monotone
  <1>3. (a * t) * m <= (b * s) * m
    BY <1>1, Monotone
  <1>4. (g * s) * t = (g * t) * s /\ (m * a) * t = (a * t) * m /\ (b * s) * m = (m * b) * s
    BY SMT
  <1>5. (g * s) * t \in Nat /\ (m * a) * t \in Nat /\ (b * s) * m \in Nat
    BY <1>1, SMT
  <1>6. (g * t) * s <= (m * b) * s
    BY <1>2, <1>3, <1>4, <1>5
  <1>7. QED
    BY <1>1, <1>6, Cancel

LEMMA FloorAtLeast ==
    ASSUME NEW q \in Nat, NEW x \in Nat, NEW s \in Nat \ {0}, q * s <= x
    PROVE  x \div s >= q
  <1>1. PICK f \in Nat : f = x \div s /\ x < (f + 1) * s
    BY FloorBounds
  <1>2. f < q => (f + 1) * s <= q * s
    BY Monotone
  <1>3. (f + 1) * s \in Nat /\ q * s \in Nat
    BY SMT
  <1>4. QED
    BY <1>1, <1>2, <1>3

-----------------------------------------------------------------------------
(***************************************************************************)
(* What a step of the program does to the price of a tranche's shares.     *)
(***************************************************************************)
\* m shares of a tranche are worth g at least, or a lamport each.
Worth(g, m, tr) ==
    tr.total_shares > 0 =>
        \/ g * tr.total_shares <= m * tr.amount
        \/ tr.amount >= tr.total_shares

\* A share of old is worth no more than one of new; a tranche without
\* shares is begun anew at a lamport each.
NotCheaper(old, new) ==
    /\ old.amount * new.total_shares <= new.amount * old.total_shares
    /\ old.total_shares = 0 => new.amount >= new.total_shares

LEMMA WorthKept ==
    ASSUME NEW g \in Nat, NEW m \in Nat, NEW old \in Tranche, NEW new \in Tranche,
           Worth(g, m, old), NotCheaper(old, new)
    PROVE  Worth(g, m, new)
  <1>1. PICK a \in Nat, s \in Nat, b \in Nat, t \in Nat :
           /\ a = old.amount /\ s = old.total_shares
           /\ b = new.amount /\ t = new.total_shares
    BY DEF Tranche
  <1>2. /\ s > 0 => g * s <= m * a \/ a >= s
        /\ a * t <= b * s
        /\ s = 0 => b >= t
    BY <1>1 DEF Worth, NotCheaper
  <1>3. g * t <= m * b \/ b >= t
    <2>1. CASE s = 0
      BY <1>2, <2>1
    <2>2. CASE s > 0 /\ g * s <= m * a
      <3>1. s \in Nat \ {0}
        BY <2>2
      <3>2. g * t <= m * b
        BY <1>2, <2>2, <3>1, PriceChain
      <3>3. QED
        BY <3>2
    <2>3. CASE s > 0 /\ a >= s
      <3>1. s * t <= a * t /\ t * s = s * t
        BY <2>3, Monotone, SMT
      <3>2. s * t \in Nat /\ a * t \in Nat /\ b * s \in Nat /\ t * s \in Nat
        BY SMT
      <3>3. t * s <= b * s
        BY <1>2, <3>1, <3>2
      <3>4. s \in Nat \ {0}
        BY <2>3
      <3>5. t <= b
        BY <3>3, <3>4, Cancel
      <3>6. QED
        BY <3>5
    <2>4. QED
      BY <1>2, <2>1, <2>2, <2>3
  <1>4. QED
    BY <1>1, <1>3 DEF Worth

PricesKept ==
    \A v \in Vaults, i \in Slots : NotCheaper(tranches[v][i], tranches'[v][i])

\* The first depositor of an empty tranche is credited a share a lamport.
LEMMA DepositPricesKept ==
    ASSUME PoolInv, PoolInv', NEW u \in Users, NEW v \in Vaults, NEW i \in Slots,
           NEW n \in 1 .. MaxU64, Deposit(u, v, i, n)
    PROVE  PricesKept
  <1>1. n \in Nat
    BY FlipVaultAssumption
  <1>2. NoShareCheaper
    BY <1>1, DepositPrice
  <1>3. OtherTranchesKept(v, i)
    BY DepositFacts
  <1>4. ASSUME NEW w \in Vaults, NEW j \in Slots, tranches[w][j].total_shares = 0
        PROVE  tranches'[w][j].amount >= tranches'[w][j].total_shares
    <2>1. PICK tr \in Tranche : tr = tranches[w][j]
      BY DEF PoolInv, PoolTypeOK
    <2>2. tr.total_shares = 0 /\ tr.amount = 0
      BY <1>4, <2>1 DEF PoolInv, EmptyTrancheHoldsNothing
    <2>3. CASE w = v /\ j = i
      <3>1. SharesFor(tr, n) = n
        BY <2>2 DEF SharesFor
      <3>2. tranches'[v][i] = [tr EXCEPT !.amount = @ + n, !.total_shares = @ + n]
        BY <2>1, <2>3, <3>1 DEF Deposit, PoolInv, PoolTypeOK
      <3>3. QED
        BY <1>1, <2>2, <2>3, <3>2 DEF Tranche
    <2>4. CASE ~(w = v /\ j = i)
      <3>1. tranches'[w][j] = tr
        BY <1>3, <2>1, <2>4 DEF OtherTranchesKept
      <3>2. QED
        BY <2>2, <3>1
    <2>5. QED
      BY <2>3, <2>4
  <1>5. QED
    BY <1>2, <1>4 DEF PricesKept, NotCheaper, NoShareCheaper

LEMMA WithdrawPricesKept ==
    ASSUME PoolInv, PoolInv', NEW u \in Users, NEW v \in Vaults, NEW i \in Slots,
           NEW n \in 1 .. MaxU64, Withdraw(u, v, i, n)
    PROVE  PricesKept
  <1>1. n \in Nat /\ OtherTranchesKept(v, i)
    BY WithdrawFacts
  <1>2. NoShareCheaper
    BY <1>1, WithdrawPrice
  <1>3. ASSUME NEW w \in Vaults, NEW j \in Slots, tranches[w][j].total_shares = 0
        PROVE  tranches'[w][j].amount >= tranches'[w][j].total_shares
    <2>1. ~(w = v /\ j = i)
      BY <1>3 DEF Withdraw, WithdrawOK
    <2>2. tranches'[w][j] = tranches[w][j]
      BY <1>1, <2>1 DEF OtherTranchesKept
    <2>3. tranches[w][j].amount = 0
      BY <1>3 DEF PoolInv, EmptyTrancheHoldsNothing
    <2>4. QED
      BY <1>3, <2>2, <2>3
  <1>4. QED
    BY <1>2, <1>3 DEF PricesKept, NotCheaper, NoShareCheaper

LEMMA SameTranchesPricesKept ==
    ASSUME PoolInv, UNCHANGED tranches
    PROVE  PricesKept
  <1>1. NoShareCheaper
    BY SameTranchesSamePrice
  <1>2. ASSUME NEW w \in Vaults, NEW j \in Slots, tranches[w][j].total_shares = 0
        PROVE  tranches'[w][j].amount >= tranches'[w][j].total_shares
    <2>1. tranches[w][j].amount = 0
      BY <1>2 DEF PoolInv, EmptyTrancheHoldsNothing
    <2>2. QED
      BY <1>2, <2>1
  <1>3. QED
    BY <1>1, <1>2 DEF PricesKept, NotCheaper, NoShareCheaper

\* A round is open for a moment at least, so that closing it advances
\* last_settled_ts.
ClosesLater == phase = "Pending" => last_settled_ts < commit_ts

\* While last_settled_ts stays, no share becomes cheaper.
Ages ==
    /\ last_settled_ts <= last_settled_ts'
    /\ last_settled_ts = last_settled_ts' => PricesKept

LEMMA ProgramAges ==
    ASSUME IInv, ClosesLater, [Next]_vars
    PROVE  ClosesLater' /\ Ages
  <1>1. PoolInv /\ PoolInv' /\ RoundInv
    BY StepKeepsInv DEF IInv
  <1>2. /\ last_settled_ts \in Nat /\ commit_ts \in Nat /\ now \in Nat /\ last_settled_ts <= now
        /\ phase = "Pending" => commit_ts <= now
    BY <1>1 DEF RoundInv, RoundTypeOK, TimesOrdered
  <1>3. CASE UserStep
    <2>1. UNCHANGED roundVars
      <3>1. ASSUME NEW u, NEW v, NEW i, NEW n, Deposit(u, v, i, n) \/ Withdraw(u, v, i, n)
            PROVE  UNCHANGED roundVars
        BY <3>1 DEF Deposit, Withdraw
      <3>2. QED
        BY <1>3, <3>1 DEF UserStep
    <2>2. UNCHANGED <<phase, last_settled_ts, commit_ts>>
      BY <2>1 DEF roundVars, configVars
    <2>3. PICK u \in Users, v \in Vaults, i \in Slots :
             \/ \E amount \in 1 .. MaxU64 : Deposit(u, v, i, amount)
             \/ \E shares \in 1 .. MaxU64 : Withdraw(u, v, i, shares)
      BY <1>3 DEF UserStep
    <2>4. PricesKept
      BY <1>1, <2>3, DepositPricesKept, WithdrawPricesKept
    <2>5. QED
      BY <1>2, <2>2, <2>4 DEF ClosesLater, Ages
  <1>4. CASE TreasuryStep \/ VaultDonation \/ ReserveDonation \/ UNCHANGED vars
    <2>1. UNCHANGED <<phase, last_settled_ts, commit_ts>> /\ UNCHANGED tranches
      BY <1>4, QuietSteps DEF TreasuryStep, SweepTreasury, VaultDonation, DonateToVault,
         ReserveDonation, DonateToReserve, vars, roundVars, configVars
    <2>2. QED
      BY <1>1, <1>2, <2>1, SameTranchesPricesKept DEF ClosesLater, Ages
  <1>5. CASE RoundStep
    <2>1. CASE \E force \in Seeds : Commit(force)
      <3>1. /\ now >= last_settled_ts + RoundSecs /\ commit_ts' = now
            /\ UNCHANGED last_settled_ts /\ UNCHANGED tranches
        BY <2>1 DEF Commit, CommitRound, RoundDue, poolVars
      <3>2. RoundSecs \in Nat \ {0}
        BY RoundAssumption
      <3>3. QED
        BY <1>1, <1>2, <3>1, <3>2, SameTranchesPricesKept DEF ClosesLater, Ages
    <2>2. CASE Settle \/ Recover
      <3>1. phase = "Pending" /\ phase' = "Idle" /\ last_settled_ts' = now
        BY <2>2 DEF Settle, SettleRound, Recover, RecoverRound, CloseRound
      <3>2. last_settled_ts < last_settled_ts'
        BY <1>2, <3>1 DEF ClosesLater
      <3>3. QED
        BY <1>2, <3>1, <3>2 DEF ClosesLater, Ages
    <2>3. CASE Environment /\ UNCHANGED poolVars
      <3>1. UNCHANGED configVars
        BY <2>3 DEF Environment, Tick, RequestElsewhere, FulfillRandomness
      <3>2. UNCHANGED <<phase, last_settled_ts, commit_ts>> /\ UNCHANGED tranches
        BY <2>3, <3>1 DEF configVars, poolVars
      <3>3. QED
        BY <1>1, <1>2, <3>2, SameTranchesPricesKept DEF ClosesLater, Ages
    <2>4. QED
      BY <1>5, <2>1, <2>2, <2>3 DEF RoundStep
  <1>6. QED
    BY <1>3, <1>4, <1>5 DEF Next, NextNoGift

-----------------------------------------------------------------------------
(***************************************************************************)
(* What the pages and the clicks under way still promise.  A page or a     *)
(* click is honest when it is from no later time than the chain, and, if   *)
(* no round has closed since, the chain still pays what it shows.  The     *)
(* remembered number is of no use for this without the order of the        *)
(* timestamps: two rounds that closed at one time could not be told apart. *)
(***************************************************************************)
PollRows  == [step : {"positions"}, st : Pages]
ClickRows == [kind : {"deposit", "withdraw"}, user : Users, vault : Vaults, slot : Slots,
              n : Typed, gross : Nat, at : Nat]

FrontTyped ==
    /\ chain \in [Users -> Pages]
    /\ poll \in [Users -> {Waiting} \cup PollRows]
    /\ click \in [Clicks -> {Free} \cup ClickRows]

PageHonest(st) ==
    /\ st.last_settled_ts <= last_settled_ts
    /\ st.last_settled_ts = last_settled_ts =>
         \A v \in Vaults : Worth(st.vaults[v].amount, st.vaults[v].shares,
                                 tranches[v][st.vaults[v].slot])

ClickHonest(k) ==
    k.kind = "withdraw" =>
        /\ k.at <= last_settled_ts
        /\ k.at = last_settled_ts => Worth(k.gross, k.n, tranches[k.vault][k.slot])

AllHonest ==
    /\ \A u \in Users : PageHonest(chain[u])
    /\ \A u \in Users : poll[u] # Waiting => PageHonest(poll[u].st)
    /\ \A c \in Clicks : click[c] # Free => ClickHonest(click[c])

FrontInv == SharesInv /\ ClosesLater /\ FrontTyped /\ AllHonest

LEMMA FrontInvFacts ==
    ASSUME FrontInv
    PROVE  /\ IInv /\ PoolInv /\ RoundInv /\ PoolTypeOK /\ OneSolSlot
           /\ SharesSumToTotal /\ SharesInv /\ ClosesLater /\ FrontTyped
           /\ last_settled_ts \in Nat
           /\ tranches \in [Vaults -> [Slots -> Tranche]]
           /\ position \in [Users -> [Vaults -> [Slots -> Nat]]]
  <1>1. SharesInv /\ ClosesLater /\ FrontTyped
    BY DEF FrontInv
  <1>2. IInv /\ PoolInv /\ RoundInv /\ SharesSumToTotal
    BY <1>1 DEF SharesInv, IInv
  <1>3. PoolTypeOK /\ OneSolSlot /\ RoundTypeOK
    BY <1>2 DEF PoolInv, RoundInv
  <1>4. QED
    BY <1>1, <1>2, <1>3 DEF RoundTypeOK, PoolTypeOK

-----------------------------------------------------------------------------
(***************************************************************************)
(* Time does not make the honest dishonest.                                *)
(***************************************************************************)
LEMMA PageStaysHonest ==
    ASSUME PoolInv, PoolInv', Ages, last_settled_ts \in Nat, last_settled_ts' \in Nat,
           NEW st \in Pages, PageHonest(st)
    PROVE  PageHonest(st)'
  <1>1. st.last_settled_ts \in Nat /\ st.last_settled_ts <= last_settled_ts'
    BY DEF PageHonest, Pages, Ages
  <1>2. ASSUME st.last_settled_ts = last_settled_ts', NEW v \in Vaults
        PROVE  Worth(st.vaults[v].amount, st.vaults[v].shares,
                     tranches'[v][st.vaults[v].slot])
    <2>1. st.last_settled_ts = last_settled_ts /\ PricesKept
      BY <1>1, <1>2 DEF PageHonest, Ages
    <2>2. PICK i \in Slots, a \in Nat, s \in Nat :
             i = st.vaults[v].slot /\ a = st.vaults[v].amount /\ s = st.vaults[v].shares
      BY DEF Pages
    <2>3. Worth(a, s, tranches[v][i])
      BY <2>1, <2>2 DEF PageHonest
    <2>4. NotCheaper(tranches[v][i], tranches'[v][i])
      BY <2>1 DEF PricesKept
    <2>5. tranches[v][i] \in Tranche /\ tranches'[v][i] \in Tranche
      BY DEF PoolInv, PoolTypeOK
    <2>6. Worth(a, s, tranches'[v][i])
      BY <2>3, <2>4, <2>5, WorthKept
    <2>7. QED
      BY <2>2, <2>6
  <1>3. QED
    BY <1>1, <1>2 DEF PageHonest

LEMMA ClickStaysHonest ==
    ASSUME PoolInv, PoolInv', Ages, last_settled_ts \in Nat, last_settled_ts' \in Nat,
           Typed \subseteq Nat, NEW k \in ClickRows, ClickHonest(k)
    PROVE  ClickHonest(k)'
  <1> SUFFICES ASSUME k.kind = "withdraw"
               PROVE  /\ k.at <= last_settled_ts'
                      /\ k.at = last_settled_ts' =>
                           Worth(k.gross, k.n, tranches'[k.vault][k.slot])
    BY DEF ClickHonest
  <1>1. k.at \in Nat /\ k.at <= last_settled_ts'
    BY DEF ClickHonest, ClickRows, Ages
  <1>2. ASSUME k.at = last_settled_ts'
        PROVE  Worth(k.gross, k.n, tranches'[k.vault][k.slot])
    <2>1. k.at = last_settled_ts /\ PricesKept
      BY <1>1, <1>2 DEF ClickHonest, Ages
    <2>2. PICK v \in Vaults, i \in Slots, g \in Nat, n \in Nat :
             v = k.vault /\ i = k.slot /\ g = k.gross /\ n = k.n
      BY DEF ClickRows
    <2>3. Worth(g, n, tranches[v][i])
      BY <2>1, <2>2 DEF ClickHonest
    <2>4. NotCheaper(tranches[v][i], tranches'[v][i])
      BY <2>1 DEF PricesKept
    <2>5. tranches[v][i] \in Tranche /\ tranches'[v][i] \in Tranche
      BY DEF PoolInv, PoolTypeOK
    <2>6. Worth(g, n, tranches'[v][i])
      BY <2>3, <2>4, <2>5, WorthKept
    <2>7. QED
      BY <2>2, <2>6
  <1>3. QED
    BY <1>1, <1>2

-----------------------------------------------------------------------------
(***************************************************************************)
(* What a page reads, shows and offers is honest when it does.             *)
(***************************************************************************)
LEMMA TypedNumbers == Typed \subseteq Nat /\ \A n \in Typed : n >= 1 => n \in 1 .. MaxU64
  BY FrontendAssumption, FlipVaultAssumption

LEMMA AccountsHonest ==
    ASSUME FrontInv
    PROVE  AccountsNow \in Pages /\ PageHonest(AccountsNow)
  <1>1. last_settled_ts \in Nat /\ tranches \in [Vaults -> [Slots -> Tranche]]
    BY FrontInvFacts
  <1>2. \A v \in Vaults : SolSlotShown(v) \in Slots
    BY DEF SolSlotShown, Slots
  <1>3. AccountsNow \in Pages
    BY <1>1, <1>2 DEF AccountsNow, Pages, Card, Tranche
  <1>4. AccountsNow.last_settled_ts = last_settled_ts
    BY DEF AccountsNow
  <1>5. ASSUME NEW v \in Vaults
        PROVE  Worth(AccountsNow.vaults[v].amount, AccountsNow.vaults[v].shares,
                     tranches[v][AccountsNow.vaults[v].slot])
    <2>1. PICK i \in Slots : i = SolSlotShown(v)
      BY <1>2
    <2>2. /\ AccountsNow.vaults[v].slot = i
          /\ AccountsNow.vaults[v].amount = tranches[v][i].amount
          /\ AccountsNow.vaults[v].shares = tranches[v][i].total_shares
      BY <2>1 DEF AccountsNow, Card
    <2>3. PICK a \in Nat, s \in Nat : a = tranches[v][i].amount /\ s = tranches[v][i].total_shares
      BY <1>1 DEF Tranche
    <2>4. a * s <= s * a
      BY SMT
    <2>5. QED
      BY <2>2, <2>3, <2>4 DEF Worth
  <1>6. QED
    BY <1>1, <1>3, <1>4, <1>5 DEF PageHonest

LEMMA JoinedHonest ==
    ASSUME FrontInv, NEW u \in Users, NEW st \in Pages, PageHonest(st)
    PROVE  WithPositions(u, st) \in Pages /\ PageHonest(WithPositions(u, st))
  <1> DEFINE new == WithPositions(u, st)
  <1>1. position \in [Users -> [Vaults -> [Slots -> Nat]]]
    BY FrontInvFacts
  <1>2. /\ new.last_settled_ts = st.last_settled_ts
        /\ \A v \in Vaults : /\ new.vaults[v].amount = st.vaults[v].amount
                             /\ new.vaults[v].shares = st.vaults[v].shares
                             /\ new.vaults[v].slot = st.vaults[v].slot
    BY DEF WithPositions, Pages
  <1>3. new \in Pages
    <2> DEFINE cards == [v \in Vaults |->
                           [st.vaults[v] EXCEPT !.user_shares = position[u][v][st.vaults[v].slot]]]
    <2>1. ASSUME NEW v \in Vaults
          PROVE  cards[v] \in [slot : Slots, amount : Nat, shares : Nat, user_shares : Nat]
      <3>1. PICK card \in [slot : Slots, amount : Nat, shares : Nat, user_shares : Nat] :
               card = st.vaults[v]
        BY DEF Pages
      <3>2. PICK p \in Nat : p = position[u][v][card.slot]
        BY <1>1
      <3>3. cards[v] = [card EXCEPT !.user_shares = p]
        BY <3>1, <3>2
      <3>4. QED
        BY <3>3
    <2>2. new = [st EXCEPT !.vaults = cards]
      BY DEF WithPositions
    <2>3. cards \in [Vaults -> [slot : Slots, amount : Nat, shares : Nat, user_shares : Nat]]
      BY <2>1
    <2> HIDE DEF cards, new
    <2>4. QED
      BY <2>2, <2>3 DEF Pages
  <1> HIDE DEF new
  <1>4. PageHonest(new)
    BY <1>2 DEF PageHonest
  <1>5. QED
    BY <1>3, <1>4 DEF new

\* A page that shows g for n of its shares promises no more than they are
\* worth.
LEMMA OfferHonest ==
    ASSUME FrontInv, NEW kind \in {"deposit", "withdraw"},
           NEW u \in Users, NEW v \in Vaults, NEW n \in Typed
    PROVE  Offered(kind, u, v, n) \in ClickRows /\ ClickHonest(Offered(kind, u, v, n))
  <1>1. PICK st \in Pages : st = chain[u]
    BY FrontInvFacts DEF FrontTyped
  <1>2. PageHonest(st)
    BY <1>1 DEF FrontInv, AllHonest
  <1>3. PICK i \in Slots, a \in Nat, s \in Nat :
           i = st.vaults[v].slot /\ a = st.vaults[v].amount /\ s = st.vaults[v].shares
    BY DEF Pages
  <1>4. n \in Nat
    BY TypedNumbers
  <1>5. PICK g : g = ShownGross(u, v, n)
    OBVIOUS
  <1>6. g \in Nat /\ (s = 0 => g = 0) /\ (s > 0 => g * s <= n * a)
    <2>1. g = IF s = 0 THEN 0 ELSE MulDivFloor(n, a, s)
      BY <1>1, <1>3, <1>5 DEF ShownGross
    <2>2. CASE s = 0
      BY <2>1, <2>2
    <2>3. CASE s # 0
      <3>1. s \in Nat \ {0}
        BY <2>3
      <3>2. MulDivFloor(n, a, s) \in Nat /\ MulDivFloor(n, a, s) * s <= n * a
        BY <1>4, <3>1, MulDivBounds
      <3>3. QED
        BY <2>1, <2>3, <3>2
    <2>4. QED
      BY <2>2, <2>3
  <1>7. PICK tr \in Tranche : tr = tranches[v][i]
    BY FrontInvFacts
  <1>8. Worth(a, s, tr) => Worth(g, n, tr)
    <2>1. PICK b \in Nat, t \in Nat : b = tr.amount /\ t = tr.total_shares
      BY DEF Tranche
    <2>2. CASE s = 0
      <3>1. 0 * t <= n * b
        BY <1>4, SMT
      <3>2. QED
        BY <1>6, <2>1, <2>2, <3>1 DEF Worth
    <2>3. CASE s > 0
      <3>1. s \in Nat \ {0} /\ g * s <= n * a
        BY <1>6, <2>3
      <3>2. s * b = b * s
        BY SMT
      <3>3. a * t <= b * s => g * t <= n * b
        BY <1>4, <1>6, <3>1, PriceChain
      <3>4. QED
        BY <2>1, <3>2, <3>3 DEF Worth
    <2>4. QED
      BY <2>2, <2>3
  <1>9. PICK k : k = Offered(kind, u, v, n)
    OBVIOUS
  <1>10. /\ k.kind = kind /\ k.user = u /\ k.vault = v /\ k.slot = i /\ k.n = n
         /\ kind = "withdraw" => k.gross = g /\ k.at = st.last_settled_ts
    BY <1>1, <1>3, <1>5, <1>9 DEF Offered
  <1>11. k \in ClickRows
    <2>1. st.last_settled_ts \in Nat
      BY DEF Pages
    <2>2. QED
      BY <1>1, <1>3, <1>5, <1>6, <1>9, <2>1 DEF Offered, ClickRows
  <1>12. ClickHonest(k)
    <2>1. st.last_settled_ts = last_settled_ts => Worth(a, s, tr)
      BY <1>2, <1>3, <1>7 DEF PageHonest
    <2>2. st.last_settled_ts <= last_settled_ts
      BY <1>2 DEF PageHonest
    <2>3. QED
      BY <1>7, <1>8, <1>10, <2>1, <2>2 DEF ClickHonest
  <1>13. QED
    BY <1>9, <1>11, <1>12

-----------------------------------------------------------------------------
(***************************************************************************)
(* The steps.                                                              *)
(***************************************************************************)
\* A page's transaction is one that any user could have sent.
LEMMA FrontStepIsStep == FrontInv /\ [FrontNext]_frontVars => [Next]_vars
  <1> SUFFICES ASSUME FrontInv, [FrontNext]_frontVars PROVE [Next]_vars
    OBVIOUS
  <1>1. CASE PageStep
    <2>1. CASE \E u \in Users : FetchAccounts(u) \/ FetchPositions(u) \/ PositionsMissing(u)
      BY <2>1 DEF FetchAccounts, FetchPositions, PositionsMissing, Show
    <2>2. CASE \E c \in Clicks, u \in Users, v \in Vaults, n \in Typed :
                  \/ Click(c, u, Offered("deposit", u, v, n))
                  \/ Click(c, u, Offered("withdraw", u, v, n))
      BY <2>2 DEF Click
    <2>3. ASSUME NEW c \in Clicks, Land(c) PROVE [Next]_vars
      <3>1. PICK k \in ClickRows : k = click[c]
        BY <2>3, FrontInvFacts DEF FrontTyped, Land
      <3>2. /\ k.user \in Users /\ k.vault \in Vaults /\ k.slot \in Slots /\ k.n \in Typed
            /\ k.n \in Nat
        BY TypedNumbers DEF ClickRows
      <3>3. CASE Accepted(k)
        <4>1. Execute(k)
          BY <2>3, <3>1, <3>3 DEF Land
        <4>2. k.n >= 1
          BY <3>2, <3>3, ConstantFacts DEF Accepted, DepositOK, WithdrawOK
        <4>3. k.n \in 1 .. MaxU64
          BY <3>2, <4>2, TypedNumbers
        <4>4. UserStep
          BY <3>2, <4>1, <4>3 DEF Execute, UserStep
        <4>5. QED
          BY <4>4 DEF Next, NextNoGift
      <3>4. CASE ~Accepted(k)
        BY <2>3, <3>1, <3>4 DEF Land
      <3>5. QED
        BY <3>3, <3>4
    <2>4. CASE \E c \in Clicks : Lose(c)
      BY <2>4 DEF Lose
    <2>5. QED
      BY <1>1, <2>1, <2>2, <2>3, <2>4 DEF PageStep
  <1>2. CASE UserStep \/ RoundStep \/ ReserveDonation
    BY <1>2 DEF Next, NextNoGift
  <1>3. CASE UNCHANGED frontVars
    BY <1>3 DEF frontVars
  <1>4. QED
    BY <1>1, <1>2, <1>3 DEF FrontNext

\* What a step leaves on the pages, in the polls and in the clicks is typed,
\* and honest towards the state the step was taken in.
HonestNext ==
    /\ \A u \in Users : \E st \in Pages : st = chain'[u] /\ PageHonest(st)
    /\ \A u \in Users : poll'[u] # Waiting =>
                          \E st \in Pages : st = poll'[u].st /\ PageHonest(st)
    /\ \A c \in Clicks : click'[c] # Free =>
                           \E k \in ClickRows : k = click'[c] /\ ClickHonest(k)

LEMMA StayingHonest ==
    ASSUME FrontInv
    PROVE  /\ UNCHANGED chain =>
                \A u \in Users : \E st \in Pages : st = chain'[u] /\ PageHonest(st)
           /\ \A u \in Users : poll'[u] = poll[u] /\ poll'[u] # Waiting =>
                                 \E st \in Pages : st = poll'[u].st /\ PageHonest(st)
           /\ \A c \in Clicks : click'[c] = click[c] /\ click'[c] # Free =>
                                  \E k \in ClickRows : k = click'[c] /\ ClickHonest(k)
  <1>1. /\ \A u \in Users : chain[u] \in Pages
        /\ \A u \in Users : poll[u] # Waiting => poll[u].st \in Pages
        /\ \A c \in Clicks : click[c] # Free => click[c] \in ClickRows
    BY FrontInvFacts DEF FrontTyped, PollRows
  <1>2. AllHonest
    BY DEF FrontInv
  <1>3. QED
    BY <1>1, <1>2 DEF AllHonest

LEMMA StepIsHonest == FrontInv /\ [FrontNext]_frontVars => FrontTyped' /\ HonestNext
  <1> SUFFICES ASSUME FrontInv, [FrontNext]_frontVars PROVE FrontTyped' /\ HonestNext
    OBVIOUS
  <1>1. /\ chain \in [Users -> Pages]
        /\ poll \in [Users -> {Waiting} \cup PollRows]
        /\ click \in [Clicks -> {Free} \cup ClickRows]
    BY FrontInvFacts DEF FrontTyped
  <1>2. ASSUME NEW u \in Users, FetchAccounts(u) PROVE FrontTyped' /\ HonestNext
    <2>1. PICK st \in Pages : st = AccountsNow /\ PageHonest(st)
      BY AccountsHonest
    <2>2. PICK row \in PollRows : row = [step |-> "positions", st |-> st]
      BY DEF PollRows
    <2>3. poll' = [poll EXCEPT ![u] = row] /\ UNCHANGED <<chain, click>>
      BY <1>2, <2>1, <2>2 DEF FetchAccounts
    <2>4. poll'[u] = row /\ row.st = st /\ \A w \in Users : w # u => poll'[w] = poll[w]
      BY <1>1, <2>2, <2>3
    <2>5. FrontTyped'
      BY <1>1, <2>3 DEF FrontTyped
    <2>6. HonestNext
      BY <2>1, <2>3, <2>4, StayingHonest DEF HonestNext
    <2>7. QED
      BY <2>5, <2>6
  <1>3. ASSUME NEW u \in Users, NEW st \in Pages, PageHonest(st), Show(u, st)
        PROVE  FrontTyped' /\ HonestNext
    <2>1. /\ chain' = [chain EXCEPT ![u] = st]
          /\ poll' = [poll EXCEPT ![u] = Waiting]
          /\ UNCHANGED click
      BY <1>3 DEF Show
    <2>2. FrontTyped'
      BY <1>1, <2>1 DEF FrontTyped
    <2>3. \A w \in Users : \E x \in Pages : x = chain'[w] /\ PageHonest(x)
      <3>1. ASSUME NEW w \in Users PROVE \E x \in Pages : x = chain'[w] /\ PageHonest(x)
        <4>1. CASE w = u
          BY <1>1, <1>3, <2>1, <4>1
        <4>2. CASE w # u
          <5>1. chain'[w] = chain[w] /\ chain[w] \in Pages
            BY <1>1, <2>1, <4>2
          <5>2. PageHonest(chain[w])
            BY DEF FrontInv, AllHonest
          <5>3. QED
            BY <5>1, <5>2
        <4>3. QED
          BY <4>1, <4>2
      <3>2. QED
        BY <3>1
    <2>4. \A w \in Users : poll'[w] # Waiting => poll'[w] = poll[w]
      BY <1>1, <2>1
    <2>5. HonestNext
      BY <2>1, <2>3, <2>4, StayingHonest DEF HonestNext
    <2>6. QED
      BY <2>2, <2>5
  <1>4. ASSUME NEW u \in Users, FetchPositions(u) \/ PositionsMissing(u)
        PROVE  FrontTyped' /\ HonestNext
    <2>1. poll[u] # Waiting
      BY <1>4 DEF FetchPositions, PositionsMissing, Show
    <2>2. PICK st \in Pages : st = poll[u].st /\ PageHonest(st)
      <3>1. poll[u] \in PollRows /\ PageHonest(poll[u].st)
        BY <1>1, <2>1 DEF FrontInv, AllHonest
      <3>2. QED
        BY <3>1 DEF PollRows
    <2>3. PICK new \in Pages : new = WithPositions(u, st) /\ PageHonest(new)
      BY <2>2, JoinedHonest
    <2>4. Show(u, new) \/ Show(u, st)
      BY <1>4, <2>2, <2>3 DEF FetchPositions, PositionsMissing, Joined
    <2>5. QED
      BY <1>3, <2>2, <2>3, <2>4
  <1>5. ASSUME NEW c \in Clicks, NEW u \in Users, NEW v \in Vaults, NEW n \in Typed,
               NEW kind \in {"deposit", "withdraw"}, Click(c, u, Offered(kind, u, v, n))
        PROVE  FrontTyped' /\ HonestNext
    <2>1. PICK k \in ClickRows : k = Offered(kind, u, v, n) /\ ClickHonest(k)
      BY OfferHonest
    <2>2. click' = [click EXCEPT ![c] = k] /\ UNCHANGED <<chain, poll>>
      BY <1>5, <2>1 DEF Click
    <2>3. FrontTyped'
      BY <1>1, <2>2 DEF FrontTyped
    <2>4. click'[c] = k /\ \A d \in Clicks : d # c => click'[d] = click[d]
      BY <1>1, <2>2
    <2>5. HonestNext
      BY <2>1, <2>2, <2>4, StayingHonest DEF HonestNext
    <2>6. QED
      BY <2>3, <2>5
  <1>6. ASSUME NEW c \in Clicks, Land(c) \/ Lose(c) PROVE FrontTyped' /\ HonestNext
    <2>1. click' = [click EXCEPT ![c] = Free] /\ UNCHANGED <<chain, poll>>
      BY <1>6 DEF Land, Lose
    <2>2. FrontTyped'
      BY <1>1, <2>1 DEF FrontTyped
    <2>3. \A d \in Clicks : click'[d] # Free => click'[d] = click[d]
      BY <1>1, <2>1
    <2>4. HonestNext
      BY <2>1, <2>3, StayingHonest DEF HonestNext
    <2>5. QED
      BY <2>2, <2>4
  <1>7. CASE UNCHANGED pageVars
    <2>1. UNCHANGED <<chain, poll, click>>
      BY <1>7 DEF pageVars
    <2>2. FrontTyped'
      BY <1>1, <2>1 DEF FrontTyped
    <2>3. HonestNext
      BY <2>1, StayingHonest DEF HonestNext
    <2>4. QED
      BY <2>2, <2>3
  <1>8. CASE PageStep
    BY <1>2, <1>4, <1>5, <1>6, <1>8 DEF PageStep
  <1>9. QED
    BY <1>7, <1>8 DEF FrontNext, frontVars

LEMMA FrontStepKeepsInv == FrontInv /\ [FrontNext]_frontVars => FrontInv'
  <1> SUFFICES ASSUME FrontInv, [FrontNext]_frontVars PROVE FrontInv'
    OBVIOUS
  <1>1. [Next]_vars
    BY FrontStepIsStep
  <1>2. IInv /\ PoolInv /\ SharesInv /\ ClosesLater /\ last_settled_ts \in Nat
    BY FrontInvFacts
  <1>3. SharesInv'
    BY <1>1, <1>2, StepKeepsShares
  <1>4. PoolInv' /\ last_settled_ts' \in Nat
    <2>1. PoolInv' /\ RoundInv'
      BY <1>3 DEF SharesInv, IInv
    <2>2. QED
      BY <2>1 DEF RoundInv, RoundTypeOK
  <1>5. ClosesLater' /\ Ages
    BY <1>1, <1>2, ProgramAges
  <1>6. FrontTyped' /\ HonestNext
    BY StepIsHonest
  <1>7. ASSUME NEW u \in Users PROVE PageHonest(chain[u])'
    <2>1. PICK st \in Pages : st = chain'[u] /\ PageHonest(st)
      BY <1>6 DEF HonestNext
    <2>2. PageHonest(st)'
      BY <1>2, <1>4, <1>5, <2>1, PageStaysHonest
    <2>3. QED
      BY <2>1, <2>2 DEF PageHonest
  <1>8. ASSUME NEW u \in Users, poll'[u] # Waiting PROVE PageHonest(poll[u].st)'
    <2>1. PICK st \in Pages : st = poll'[u].st /\ PageHonest(st)
      BY <1>6, <1>8 DEF HonestNext
    <2>2. PageHonest(st)'
      BY <1>2, <1>4, <1>5, <2>1, PageStaysHonest
    <2>3. QED
      BY <2>1, <2>2 DEF PageHonest
  <1>9. ASSUME NEW c \in Clicks, click'[c] # Free PROVE ClickHonest(click[c])'
    <2>1. PICK k \in ClickRows : k = click'[c] /\ ClickHonest(k)
      BY <1>6, <1>9 DEF HonestNext
    <2>2. ClickHonest(k)'
      BY <1>2, <1>4, <1>5, <2>1, ClickStaysHonest, TypedNumbers
    <2>3. QED
      BY <2>1, <2>2 DEF ClickHonest
  <1>10. AllHonest'
    BY <1>7, <1>8, <1>9 DEF AllHonest, Waiting, Free
  <1>11. QED
    BY <1>3, <1>5, <1>6, <1>10 DEF FrontInv

LEMMA FrontInitInv == FrontInit => FrontInv
  <1> SUFFICES ASSUME FrontInit PROVE FrontInv
    OBVIOUS
  <1>1. Init /\ SharesInv
    BY InitInv, InitShares DEF FrontInit, SharesInv
  <1>2. phase = "Idle" /\ last_settled_ts = 0
    BY <1>1 DEF Init, RoundInit
  <1>3. ClosesLater
    BY <1>2 DEF ClosesLater
  <1>4. FrontTyped
    BY DEF FrontInit, FrontTyped, NotLoaded, Card, Pages, Slots
  <1>5. PoolInv
    BY <1>1 DEF SharesInv, IInv
  <1>6. PageHonest(NotLoaded)
    <2>1. NotLoaded.last_settled_ts = 0
      BY DEF NotLoaded
    <2>2. ASSUME NEW v \in Vaults
          PROVE  Worth(NotLoaded.vaults[v].amount, NotLoaded.vaults[v].shares,
                       tranches[v][NotLoaded.vaults[v].slot])
      <3>1. /\ NotLoaded.vaults[v].amount = 0 /\ NotLoaded.vaults[v].shares = 0
            /\ NotLoaded.vaults[v].slot = 1
        BY DEF NotLoaded, Card
      <3>2. PICK b \in Nat, t \in Nat : b = tranches[v][1].amount /\ t = tranches[v][1].total_shares
        BY <1>5 DEF PoolInv, PoolTypeOK, Tranche, Slots
      <3>3. 0 * t <= 0 * b
        BY SMT
      <3>4. QED
        BY <3>1, <3>2, <3>3 DEF Worth
    <2>3. QED
      BY <1>2, <2>1, <2>2 DEF PageHonest
  <1>7. AllHonest
    BY <1>6 DEF FrontInit, AllHonest
  <1>8. QED
    BY <1>1, <1>3, <1>4, <1>7 DEF FrontInv

-----------------------------------------------------------------------------
(***************************************************************************)
(* The theorems.                                                           *)
(***************************************************************************)
LEMMA FrontSafe == FrontSpec => []FrontInv
  BY FrontInitInv, FrontStepKeepsInv, PTL DEF FrontSpec

\* Pages, polls and clicks keep their types, and the program its own: a page
\* never shows a negative amount.
THEOREM FrontTypes == FrontSpec => []FrontTypeOK
  <1>1. FrontInv => FrontTypeOK
    <2> SUFFICES ASSUME FrontInv PROVE FrontTypeOK
      OBVIOUS
    <2>1. FrontTyped /\ RoundTypeOK /\ PoolTypeOK
      BY FrontInvFacts DEF RoundInv
    <2>2. \A u \in Users : poll[u] = Waiting \/ poll[u].st \in Pages
      BY <2>1 DEF FrontTyped, PollRows
    <2>3. \A c \in Clicks : click[c].kind \in {"none", "deposit", "withdraw"}
      BY <2>1 DEF FrontTyped, ClickRows, Free
    <2>4. QED
      BY <2>1, <2>2, <2>3 DEF FrontTypeOK, TypeOK, FrontTyped
  <1>2. QED
    BY <1>1, FrontSafe, PTL

\* The program runs as it does without pages, so every theorem of
\* FlipVaultProofs and FlipVaultStepProofs holds beside them.
THEOREM PagesRunProgram == FrontSpec => Spec
  <1>1. FrontInit => Init
    BY DEF FrontInit
  <1>2. QED
    BY <1>1, FrontSafe, FrontStepIsStep, PTL DEF FrontSpec, Spec

\* A page that is up to date is served: any shares it shows that are worth
\* something can be redeemed.
THEOREM FreshPages == FrontSpec => []FreshPageServed
  <1>1. FrontInv => FreshPageServed
    <2> SUFFICES ASSUME FrontInv, NEW u \in Users, NEW v \in Vaults,
                        UpToDate(u), ~chain[u].pending,
                        NEW n \in 1 .. chain[u].vaults[v].user_shares,
                        ShownGross(u, v, n) > 0
                 PROVE  WithdrawOK(u, v, chain[u].vaults[v].slot, n)
      BY DEF FreshPageServed
    <2>1. PoolInv /\ PoolTypeOK /\ OneSolSlot /\ SharesSumToTotal /\ RoundInv
      BY FrontInvFacts
    <2>2. PICK i \in Slots : i = SolSlot(v) /\ tranches[v][i].asset = "Sol"
      BY <2>1, SlotFacts
    <2>3. PICK a \in Nat, t \in Nat, p \in Nat, l \in Nat :
             /\ a = tranches[v][i].amount /\ t = tranches[v][i].total_shares
             /\ p = position[u][v][i] /\ l = lamports[v]
      BY <2>1 DEF PoolTypeOK, Tranche
    <2>4. chain[u] = WithPositions(u, AccountsNow)
      BY DEF UpToDate
    <2>5. /\ ~(phase = "Pending")
          /\ chain[u].vaults[v].slot = i
          /\ chain[u].vaults[v].amount = a
          /\ chain[u].vaults[v].shares = t
          /\ chain[u].vaults[v].user_shares = p
      <3>1. SolSlotShown(v) = i
        BY <2>2 DEF SolSlotShown, SolSlot
      <3>2. PICK st \in Pages : st = AccountsNow
        BY AccountsHonest
      <3>3. PICK card : card = st.vaults[v]
        OBVIOUS
      <3>4. card = [slot |-> i, amount |-> a, shares |-> t, user_shares |-> 0]
        BY <2>3, <3>1, <3>2, <3>3 DEF AccountsNow, Card
      <3>5. phase = "Pending" => st.pending
        BY <3>2 DEF AccountsNow
      <3>6. chain[u].pending = st.pending
        BY <2>4, <3>2 DEF WithPositions, Pages
      <3>7. chain[u].vaults[v] = [card EXCEPT !.user_shares = position[u][v][card.slot]]
        BY <2>4, <3>2, <3>3 DEF WithPositions, Pages
      <3>8. ~(phase = "Pending")
        BY <3>5, <3>6
      <3>9. QED
        BY <2>3, <3>4, <3>7, <3>8
    <2>6. Unlocked
      BY <2>1, <2>5 DEF Unlocked, RoundInv, RoundTypeOK
    <2>7. n \in Nat /\ n > 0 /\ n <= p
      BY <2>5
    <2>8. p <= t
      BY <2>1, <2>3, PositionWithinTotal
    <2>9. t \in Nat \ {0} /\ n <= t
      BY <2>7, <2>8
    <2>10. PICK g : g = MulDivFloor(n, a, t)
      OBVIOUS
    <2>11. g > 0
      BY <2>5, <2>9, <2>10 DEF ShownGross
    <2>12. g \in Nat /\ g <= a
      BY <2>7, <2>9, <2>10, MulDivBounds
    <2>13. a <= l
      BY <2>1, <2>2, <2>3 DEF PoolInv, VaultsSolvent, SolAmount
    <2>14. g <= l
      BY <2>12, <2>13
    <2>15. GrossOf(tranches[v][i], n) = g
      BY <2>3, <2>10 DEF GrossOf
    <2>16. WithdrawOK(u, v, i, n)
      BY <2>2, <2>3, <2>6, <2>7, <2>9, <2>11, <2>12, <2>14, <2>15 DEF WithdrawOK, TakesSol, Holds
    <2>17. QED
      BY <2>5, <2>16
  <1>2. QED
    BY <1>1, FrontSafe, PTL

\* While no round closes between the page and its transaction, a withdrawal
\* pays what the page showed, or a lamport for every share.
THEOREM WithdrawalsPay == FrontSpec => WithdrawalPaysShown
  <1> DEFINE Pays(c) ==
        /\ click[c].kind = "withdraw" /\ click'[c] = Free
        /\ position' # position
        /\ click[c].at = last_settled_ts
        => \/ lamports[click[c].vault] - lamports'[click[c].vault] >= click[c].gross
           \/ lamports[click[c].vault] - lamports'[click[c].vault] >= click[c].n
  <1>1. ASSUME FrontInv, [FrontNext]_frontVars, NEW c \in Clicks PROVE Pays(c)
    <2> SUFFICES ASSUME click[c].kind = "withdraw", click'[c] = Free,
                        position' # position, click[c].at = last_settled_ts
                 PROVE  \/ lamports[click[c].vault] - lamports'[click[c].vault] >= click[c].gross
                        \/ lamports[click[c].vault] - lamports'[click[c].vault] >= click[c].n
      OBVIOUS
    <2>1. click \in [Clicks -> {Free} \cup ClickRows] /\ PoolInv /\ PoolTypeOK
      BY <1>1, FrontInvFacts DEF FrontTyped
    <2>2. click'[c] # click[c]
      BY DEF Free
    <2>3. PICK d \in Clicks : Land(d)
      <3>1. ~ UNCHANGED vars /\ ~ UNCHANGED pageVars
        BY <2>2 DEF vars, poolVars, pageVars
      <3>2. PageStep
        BY <1>1, <3>1 DEF FrontNext, frontVars
      <3>3. QED
        BY <3>1, <3>2 DEF PageStep, FetchAccounts, FetchPositions, PositionsMissing, Show,
           Click, Lose
    <2>4. d = c
      BY <2>1, <2>2, <2>3 DEF Land
    <2>5. PICK k \in ClickRows : k = click[c] /\ ClickHonest(k)
      <3>1. click[c] \in ClickRows /\ ClickHonest(click[c])
        BY <1>1, <2>1, <2>3, <2>4 DEF Land, FrontInv, AllHonest
      <3>2. QED
        BY <3>1
    <2>6. PICK u \in Users, v \in Vaults, i \in Slots, n \in Nat, g \in Nat :
             u = k.user /\ v = k.vault /\ i = k.slot /\ n = k.n /\ g = k.gross
      BY TypedNumbers DEF ClickRows
    <2>7. Withdraw(u, v, i, n)
      <3>1. Execute(k)
        BY <2>3, <2>4, <2>5 DEF Land, vars, poolVars
      <3>2. QED
        BY <2>5, <2>6, <3>1 DEF Execute
    <2>8. PICK a \in Nat, t \in Nat, l \in Nat :
             a = tranches[v][i].amount /\ t = tranches[v][i].total_shares /\ l = lamports[v]
      BY <2>1 DEF PoolTypeOK, Tranche
    <2>9. t \in Nat \ {0}
      BY <2>7, <2>8 DEF Withdraw, WithdrawOK
    <2>10. PICK f : f = MulDivFloor(n, a, t)
      OBVIOUS
    <2>11. f \in Nat
      BY <2>9, <2>10, MulDivBounds
    <2>12. lamports' = [lamports EXCEPT ![v] = @ - f]
      BY <2>7, <2>8, <2>10 DEF Withdraw, GrossOf
    <2>13. lamports[v] - lamports'[v] = f
      <3>1. lamports'[v] = l - f
        BY <2>1, <2>8, <2>12 DEF PoolTypeOK
      <3>2. QED
        BY <2>8, <2>11, <3>1
    <2>14. g * t <= n * a \/ a >= t
      BY <2>5, <2>6, <2>8, <2>9 DEF ClickHonest, Worth
    <2>15. n * a \in Nat /\ n * t \in Nat
      BY SMT
    <2>16. g * t <= n * a => f >= g
      BY <2>9, <2>10, <2>15, FloorAtLeast DEF MulDivFloor
    <2>17. a >= t => f >= n
      <3>1. a >= t => n * t <= n * a
        <4>1. t * n = n * t /\ a * n = n * a
          BY SMT
        <4>2. a >= t => t * n <= a * n
          BY Monotone
        <4>3. QED
          BY <4>1, <4>2
      <3>2. QED
        BY <2>9, <2>10, <2>15, <3>1, FloorAtLeast DEF MulDivFloor
    <2>18. QED
      BY <2>5, <2>6, <2>13, <2>14, <2>16, <2>17
  <1>2. FrontInv /\ [FrontNext]_frontVars => [\A c \in Clicks : Pays(c)]_frontVars
    BY <1>1
  <1>3. QED
    BY <1>2, FrontSafe, PTL DEF FrontSpec, WithdrawalPaysShown
=============================================================================
