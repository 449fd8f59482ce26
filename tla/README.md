# A TLA+ model of FlipVault

FlipVault is a game on Solana. A program keeps a house reserve, a virtual
bonding curve and four vaults, each with a SOL tranche and a TOKEN tranche;
every round a verifiable random draw picks one vault and swaps its tranches
through the curve. A keeper drives the rounds, an indexer records them, users
play through a web page, and a separate TypeScript backend runs a "perpetual"
variant of the game over Postgres and Valkey. This directory models these parts in TLA+, checks them with TLC on
small instances, and proves with TLAPS, for all parameters, every safety property
that the runs check: of the program, the keeper, the indexer, the web page and
the backend.

- [1. The system](#1-the-system)
- [2. Modules and how they follow the code](#2-modules-and-how-they-follow-the-code)
- [3. Runs](#3-runs)
- [4. Bounds](#4-bounds)
- [5. Fairness](#5-fairness)
- [6. Proofs](#6-proofs)
- [7. What the code does differently from what is written](#7-what-the-code-does-differently-from-what-is-written)
- [8. What is not modelled](#8-what-is-not-modelled)
- [9. Plan](#9-plan)

## 1. The system

| Component | State | Operations | Talks to |
|---|---|---|---|
| Program, round lifecycle (`instructions/{commit,settle,recover}_round.rs`, `state/config.rs`) | `Config`: phase, round_seed, commit_ts, last_settled_ts, selected_vault | commit_round, settle_round, recover_round | ORAO (a call that creates the request account; a read of its answer), the clock |
| Program, curve (`curve.rs`, `util.rs`) | none; reserves are arguments | buy, sell, flip | called by execute_flip |
| Program, vaults (`flip.rs`, `deposit.rs`, `withdraw.rs`) | `Vault` (two tranches, lamports), `Position` (shares), reserve lamports, `r_tok` | deposit, withdraw, execute_flip | reads `Config.phase`; called by settle_round |
| Program, treasury (`sweep_treasury.rs`) | lamports | fees from withdraw, sweep | – |
| Program, initialize | everything above | once | – |
| ORAO VRF (external) | a request account per seed | request, fulfil | the program, and anybody else |
| Keeper (`app/keeper`) | nothing between two ticks | poll, decide, simulate, send | the program, over RPC |
| Indexer (`app/indexer`) | `last_settled` (memory), tables `rounds` and `vault_snapshots` | poll, insert, snapshot, restart; a read-only API | the program (reads, through a node that may lag), Postgres |
| Frontend (`app/frontend`) | `CHAIN`, the state shown; a poll under way | poll in two reads; click Deposit or Withdraw | the program, over RPC and the visitor's wallet |
| SDK, scripts | none | encoding; manual clients | the program |
| Backend, curve math (`amm.ts`) | none | applyBuy, applySell, withdrawableSol, hasGraduated | called by the trade engine |
| Backend, trade engine (`services/trade.ts`, `services/pick.ts`, `repo.ts`, `cache.ts`) | tables `users`, `bonding_curve_state`, `deposits`, `withdrawals`, `trades`; Valkey lock and caches | deposit, pick, withdraw; reads that fill the caches on a miss | Postgres (row locks), Valkey |
| Backend, routes, candles, seed | – | HTTP handlers; placeholder; initial rows | the trade engine |

What makes these parts hard:

- **The program.** Instructions are atomic, but permissionless: keepers, users,
  ORAO and the clock interleave freely between them. A deadline races a late
  answer. Randomness may be asked for outside the program. The curve's `r_sol`
  is derived from live lamports and `r_tok` is stored, so a plain transfer
  moves one and not the other. Both legs round against a `k` that never changes,
  over an unbounded number of flips. An error inside a flip would abort the
  settlement and leave every vault locked.
- **The keeper** acts on a `Config` it read some calls ago, beside other keepers;
  it compares the chain's timestamps with its host's clock; any call may fail,
  and a transaction may land late or never.
- **The indexer** samples a state that moves on between two polls, through a node
  that may show the past, and forgets where it was when it restarts. An insertion
  that fails cuts a pass short at any point.
- **The frontend** joins two reads that are made at different times, acts on
  slots that the next settlement turns, and names no least amount.
- **The backend** has several async requests per process. The Valkey lock of the
  curve expires after five seconds, whoever holds it, and is gone when Valkey
  loses its data; withdrawals do not take it; one of the two caches is written
  inside the transaction and the other after it, and readers fill both. A
  transaction that times out takes its row locks with it, but its callback runs
  on and may still write to a cache.

What makes each part correct:

- *Rounds*: a seed decides one round; the flipped vault is the one the answer to
  the open round's seed names; rounds keep their distance; an outcome that was
  public while the vaults were open is never played.
- *Pool*: vaults can pay their SOL tranche, lamports are conserved, shares add
  up, deposits and withdrawals never dilute, a pending round freezes the
  tranches, the reserve keeps its seed, a resolved round can be settled, and the
  roles of a vault's slots are those its settled rounds left (a cancelled round
  turned none).
- *Keeper*: a pending round ends and rounds keep coming, with no help from ORAO.
- *Indexer*: what is recorded is true; what stays visible is recorded; the
  snapshots catch up with the flips.
- *Frontend*: what an up-to-date page offers is served; a withdrawal pays what
  the page showed unless a round has closed since; the page catches up.
- *Backend*: concurrent requests are as good as one at a time; nothing is lost or
  credited twice; no wallet is quoted more than the curve holds; every request is
  answered; caches agree with the tables.

`PROJECT.json` lists every hazard with its line and the properties aimed at it.

## 2. Modules and how they follow the code

```
Curve ─────────┐
               ├─ FlipVault ─┬─ HouseRefinement ──(implements)── House
Round ─────────┘             └─ Frontend
  ├─ Keeper
  └─ Indexer
Amm ── Ledger ──(implemented by)── TradeEngine
```

| Module | Models |
|---|---|
| `Curve` | `curve.rs` and the share arithmetic of `util.rs`, as functions on the naturals. The `u128` intermediates cannot overflow for `u64` inputs; the checked divisions are the guard `DivisorsNonZero` of FlipVault. |
| `Round` | The three round instructions, the clock, and the ORAO request accounts (`vrf`). `history` is an auxiliary variable, the list of closed rounds as the ledger of the chain has it; no action of the program reads it, but what a lagging node shows the indexer is taken from it. |
| `FlipVault` | The whole program: `Round`'s actions composed with the pool. One action per instruction; transfers into program accounts by anybody are `DonateToReserve` and `DonateToVault`. |
| `House` | The abstract specification of the pool: a bank and one till per vault, in which what is owed changes only with the money. No curve, shares, rounds or clock. |
| `HouseRefinement` | The mapping: bank = reserve, till = vault account, owed = SOL tranche. |
| `Keeper` | The polling loop as separate steps (read, decide, simulate, send), a clock per keeper that may be off by `MaxSkew`, and the network that delivers transactions late or never. |
| `Indexer` | The polling loop on a view of the chain that is current or past, the insertion of a round that may fail, the snapshots that may be cut short, the restart. |
| `Frontend` | The web page composed with the whole program: the poll in two reads, what the cards offer, and the clicks as transactions that land late or never (`ix::deposit` and `ix::withdraw` of the SDK are `Execute`). |
| `Amm` | `amm.ts`: both trades, the quote, and their error conditions, with integer (bigint) rounding. |
| `Ledger` | The abstract specification of the backend: deposits, picks and withdrawals as atomic steps on the tables. |
| `TradeEngine` | The same operations as concurrent requests cut at their awaits, with the Valkey lock and its time to live, row locks, rollbacks, crashes, transactions that time out under their callback, the row and the cache of `saveCurve` as two steps, the unique index on `txSignature`, both caches, the readers that fill them on a miss, and Valkey coming back without its data (`ValkeyLosesData`). |
| `MC*` | Instances for TLC: the values of constants a `.cfg` cannot express. |
| `SumProofs`, `RoundProofs`, `FlipVaultProofs`, `FlipVaultStepProofs`, `KeeperProofs`, `IndexerProofs`, `FrontendProofs`, `EngineProofs` | Theorems, see section 6. |

Abstractions worth knowing:

- **Balances** are spendable balances, above the rent-exempt minimum, so the rent
  check of `move_lamports_out` is that a balance does not become negative.
  Opening a position account costs its rent, which goes back to nobody in the
  program and is left out.
- **Seeds** are model values. A 32-byte seed is a fresh draw; the model's
  keepers draw among the seeds nobody has used, and stop when there are none.
- **A transaction** of Solana is one step. A transaction of Postgres is several:
  its writes stay in its request until `Commit`, as read committed has it, and
  the row locks it takes are variables.
- **A transaction that times out.** Prisma closes it in the database and gives its
  rows back, but cannot stop the callback, which goes on to its next query or to
  the commit and fails there. Up to that point only what it does outside the
  database can be seen. `Rollback` is the case in which there is nothing to see
  (from any step of a transaction); `TimesOut` the one in which the callback is
  at an await of Valkey: it then writes the cache late (`CacheCurve`,
  `RefreshUser`), when its row is free and, for a trade, the Valkey lock may be
  gone as well. The cache's field `late` is auxiliary and marks such a write.
- **RPC and lock waits.** `simulate_ok` and `sendTransaction`'s preflight are
  evaluated on the current state and the transaction executes later, on whatever
  state it finds. The bounded retries of `acquireCurveLock` are a choice to give
  up at any moment at which the lock is held.
- **Views of the indexer.** A read by a lagging node returns the accounts as they
  were after any earlier round closed or while it was pending (`PastViews`).
  Of a vault's data a view keeps the number of its flips, and of the snapshots
  the model keeps the newest of each vault, because those are what can be late.
  A pass that is cut short after `n` vaults is `SnapshotVaults(n)`.
- **Clicks.** Signing, the preflight and sending are one step, and execution
  another: a wallet that takes its time is no other than a page that is not
  refreshed. What the program would answer, in the preflight and when the
  transaction lands, is `Accepted`: the conjunction of the handler's checks
  (`DepositOK`, `WithdrawOK`), which `Deposit` and `Withdraw` have as their guards.
  `gross` and `at` of a click are auxiliary: what the page showed and
  what its read was based on. A visitor may also act elsewhere (the actions of
  `FlipVault` go on), as with a second tab or a script.
- **FOR UPDATE and foreign keys.** The insertion of a deposit locks its user's
  row against `FOR UPDATE`, as the foreign key does; the model lets two deposits
  of one user exclude each other as well, which the curve's row lock already
  forces.
- Operators marked *Mutant* next to a definition are plausible bugs in it. They
  are used by nothing; each property is checked to fail when the definition is
  replaced by one of them.

## 3. Runs

| Run | Config | Result | Question |
|---|---|---|---|
| `round` | `MCRound.cfg` | pass | Do seeds, draws, spacing and secrecy survive every interleaving of keepers, outside requests, late answers, recoveries and the clock? |
| `pool` | `MCFlipVault.cfg` | pass | Do two users, two vaults, two rounds and donations keep the pool solvent, its lamports and shares accounted for, its lock tight and its settlement possible? Do the roles of the slots follow the settled rounds, and does no settlement add to the drift of the curve? Does it implement `House`? |
| `redeem` | `MCRedeem.cfg` | violation | Can whoever holds shares of a SOL tranche redeem some of them? |
| `credit` | `MCCredit.cfg` | violation | Is the credit of a buy rounded down? |
| `keeper` | `MCKeeper.cfg` | pass | Do two racing keepers with skewed clocks, stale reads, failing calls and lost transactions close every pending round, and keep opening rounds? |
| `indexer` | `MCIndexer.cfg` | pass | With a node that lags, is every row true and single, is a settlement that stays visible recorded in spite of restarts and failures, and do the snapshots catch up? |
| `indexer_loses` | `MCIndexerLosesRounds.cfg` | violation | Has every settlement that the indexer has passed got a row? |
| `frontend` | `MCFrontend.cfg` | pass | Is what an up-to-date page offers served, does a late withdrawal pay what its page showed, and does the page catch up with the chain? |
| `engine` | `MCTradeEngine.cfg` | pass | Are concurrent deposits, picks and withdrawals, with an expiring lock, timeouts, rollbacks and crashes, as good as one at a time? Does every commit find its curve in the cache, but for what a timed-out trade wrote? Is the curve closed before its tokens are sold twice? Can requests wait for each other's rows in a circle? |
| `engine_live` | `MCEngineLive.cfg` | pass | Is every request answered, without the help of a timeout, whoever crashes, also when nothing frees the lock and when Valkey loses its data? |
| `curve_cache_rollback` | `MCCurveCacheRollback.cfg` | violation | Does the cached curve only ever show what was committed? |
| `user_cache` | `MCUserCache.cfg` | violation | With nothing failing and no reader, is a cached user the stored one once all is quiet? |

The five violations are disagreements between the code and what is written of
it; section 7 describes them.

Deadlock is not checked in these instances because each really stops: their
clocks, seeds, signatures and funds run out. That the systems go on is the
business of the liveness properties.

## 4. Bounds

- `round`: 3 seeds, 2 vaults, bytes 0 and 3 (one above the number of vaults, so
  that the reduction modulo shows), a clock long enough for three rounds, of
  which any may be recovered and have its randomness answered afterwards.
- `pool`: 2 vaults, 2 users with 3 and 1 lamports, a founder, a reserve of 3, 4
  tokens. Reserves this small make every flip round, so all cases of both legs
  are reached in two rounds: sale with and without payout, buy with and without
  credit, both legs at once, an empty vault. Three rounds do not fit; what
  accumulates over rounds is in the theorems.
- `keeper`: 2 keepers whose clocks are off by one second either way (as long as a
  whole round and a whole deadline here), one transaction in flight, 2 seeds, one
  recovery possible. So a transaction lands after other keepers have read and
  decided, and after the deadline, but not after another transaction: two
  keepers with two in flight do not fit. One keeper with two of its own in flight
  does, and was checked with the same properties; that the rounds stay in order
  under any number of them is the theorem `KeepersRunRounds`.
  Liveness is asked only of what the bounded clock can still show
  (`... <= MaxTime` in the properties).
- `indexer`: two rounds with room for both between two polls, which is the worst
  case for a sampler that keeps one timestamp; every past view of those rounds may
  be returned by any read, so timestamps also go backwards.
- `frontend`: one vault, so that every settlement turns the slots under the page,
  one visitor, who may also act without the page, two rounds and one click under
  way at a time. The founder's one lamport, given to the reserve, makes prices
  uneven, so amounts shown and paid differ by rounding; the fee is 0, because the
  comparison is of gross amounts. A visitor types 0 (which is also what the page
  makes of anything unreadable) or 2.
- `engine`: 2 requests, 2 wallets, 2 signatures, deposits of 4 and withdrawals of 2. Slots are
  reused, so a run has any sequence of requests, two at a time; the number of
  deposits is bounded by the signatures. The curve graduates within two
  deposits, fees are 25 % and withdrawals leave dust, so closed curves, residual
  buys and failing picks all happen. The genesis has just as many real tokens as
  are sold at most until the graduation (`SoldOutIsClosed` is about that
  boundary; `config.ts` is generous there). Requests, wallets and signatures are
  interchangeable, and the symmetry is used for safety only.
- `engine_live`: one wallet and one reader, and Valkey may lose its data at any
  moment; no symmetry. Withdrawals are of 4, more than a pick ever pays here, so
  they wait for their row and are then refused. Those that go through hold one
  row and wait for nothing more; they are in the run `engine`, which checks
  `WaitsAreShort`. With withdrawals of 2, some of which go through, the run
  passes as well but takes twice as long.
- `curve_cache_rollback`, `user_cache`: as `engine`, with one wallet; a
  counterexample needs no more. Neither has a reader.

`MaxTime`, `MaxInFlight`, `DepositAmounts`, `WithdrawalAmounts`, `Clicks` and
`Typed` bound the models only. `MaxU64` is the width of a tranche or share counter: 8 in the runs and any natural that holds
`InitRTok` in the proofs.

## 5. Fairness

- **Round, FlipVault, Ledger**: none. Nobody is obliged to act.
- **Keeper**: the clock runs (WF). The loop in `main` never ends and treats any
  error as a failed tick, so each step is retried for ever: reading is weakly
  fair; deciding, simulating, sending and landing are strongly fair, which says
  that a call which is tried again and again succeeds at last. Failures
  (`TickError`, `Lose`) may happen any number of times. **Nothing is assumed of
  ORAO**: that is the point of recover_round.
- **Indexer**: the loop never ends, so a pass under way goes on (WF). A fetch
  returns the current state at last, and an insertion on such a view succeeds at
  last (SF of `Fetch(CurrentView)`, and of `Record` and the complete
  `SnapshotVaults` on an up-to-date view): a node is not behind for ever and
  Postgres does not fail every single time. Nothing is assumed of rounds or
  restarts.
- **Frontend**: the page polls every five seconds for ever (WF of
  `FetchAccounts`), and the second read does not fail every time (SF of
  `FetchPositions`). Clicks and their transactions owe nothing.
- **TradeEngine**: a request that does not crash goes on (SF of `RequestStep`, for
  every request). Strong fairness is needed where a request waits for a row,
  which may be free and taken again many times: Postgres serves the waiters of a
  row in the order of their arrival. Waiting for the Valkey lock needs nothing,
  because the retries are bounded. **No timeout and no expiry is assumed**: a
  request that could only be saved by Prisma's timeout, or by the lock's time to
  live, would violate `RequestsEnd`. Readers owe nothing.

## 6. Proofs

TLAPS checks all of these for every value of the constants. The assumptions are
the named ASSUMEs of the modules: what `initialize` requires
(`min_reserve < seed_sol`, a positive `seed_sol`, `init_r_tok` and `round_secs`,
`fee_bps <= MAX_FEE_BPS`), sanity of the program's own constants, for the
backend positive virtual reserves, a fee of 100 % at most and positive amounts, and for
the page that what is typed is a `u64`, as which it is parsed. Seeds, users,
vaults, funds and time are arbitrary, and so are the number of keepers and the
skew of their clocks, the number of visitors and clicks, and the number of
requests, wallets, signatures and readers. Users, wallets and signatures are
finite sets, since addresses and signatures are bytes of fixed length; a sum over
them would have no meaning otherwise.

1. **Sums** (`SumProofs`). The books are sums over users, wallets and vaults,
   `SumFunction` of the community modules, which is defined by recursion on a
   finite set. What it computes is proved without the library's induction
   theorems, whose operator parameters the provers cannot instantiate:
   `SubsetInduction` says of a *set* of subsets that it has all of them if it has
   each one whose members can be taken away within it, which follows from the
   well-foundedness of strict inclusion. With it, every function has a measure,
   additive where an index is added to a set (`MeasureExists`), and whatever
   order a recursion takes the indices in, it computes the measure
   (`MeasureUnique`, `SumIsMeasured`). The rest of the project uses four facts:
   a sum is an integer (`SumInt`), zeros sum to zero (`SumZero`), no value is
   above the sum of naturals (`SumNat`), and a change at one index changes the
   sum by as much (`SumChange`).
2. **Rounds** (`RoundProofs`). `RoundInv` strengthens the three invariants of
   the rounds with types and with what ties `history` to the request accounts: a
   seed in the history or of the pending round has a request account, which is
   why `commit_round`, which must create it, cannot reuse it. From it come
   `SeedsUsedOnce`, `SettledByDraw`, `Spacing` and `PublicOutcomesUnplayed` (a
   seed once answered in an idle phase stays unplayable).
3. **The program** (`FlipVaultProofs`). First the curve: floor and ceiling
   division are characterised by inequalities (`FloorBounds`, `CeilBounds`), then
   each leg (`SellFacts`, `BuyFacts`), then `FlipFacts`: a flip moves lamports
   and tokens without creating either and keeps `NotBelow`,
   `r_sol * (r_tok + 1) > k`, and `NotAbove`, `(r_sol - 1) * r_tok < k`.
   `NotBelow` is as much as is true, since a buy leaves less than `k`.
   Then the invariant. No wanted one is inductive alone. That balances stay
   natural needs solvent vaults; that a flip returns naturals needs
   `CurveNotBelow`; that the reserve keeps its seed *between* the legs needs
   `r_tok` plus the tokens of a vault to be at most the genesis supply, and that
   needs the tokens of *all* vaults bounded (`TokensBounded`). `IInv` is
   `RoundInv` and `PoolInv`; `ProgramSafe` proves it an invariant, and type
   correctness, solvency, the curve's bound, the kept seed and
   `SettleNeverAborts` (no error of `execute_flip` is reachable) follow.
   `RunsRounds` shows that the program implements `Round`, so the theorems on
   rounds hold of it.
4. **Steps, house and books** (`FlipVaultStepProofs`).
   - *Steps*: the drift above the curve without transfers into the reserve; the
     frozen tranches of a pending round; the share price that no deposit or
     withdrawal lowers; and `RolesFollow`: a vault has one slot of each role, and
     which is which is the parity of the rounds settled on it, so no flip is
     lost, skipped or done twice. `CurveNotAbove` needs a reserve without gifts,
     which is `SpecNoGift` in `DriftBounded`; `SettlementsAddNoDrift` is what
     remains of it with them.
   - *House* (`Refinement`): every instruction maps to a step of `House` or a
     stutter.
   - *Books*: `SharesAddUp`, `LamportsKept` and `SupplyBounded`. An instruction
     changes one position, and its tranche's total, by the same amount
     (`OnePosition`); it moves lamports between one vault, one wallet, the
     reserve and the treasury, whose changes cancel (`MovesConserve`); a flip
     issues no shares (`FlipKeepsShares`). So no position exceeds its tranche
     (`PositionWithinTotal`).
   - *There and back* (`ThereAndBack`): a deposit buys no shares that could be
     redeemed at once for more than it paid, because `s * a <= n * T` leaves
     `s * (a + n) <= n * (T + s)` (`BoughtAndSold`). No run lists this property.
5. **Keeper** (`KeeperProofs`). `KeeperTypes`, for which it takes that a pending
   round somebody has seen has a seed; and `KeepersRunRounds`: whatever keepers
   do, the chain runs `RoundSpec`, so every theorem on rounds holds beside them.
6. **Indexer** (`IndexerProofs`). `RowsTellTheTruth`: what a view shows of a
   settlement, current or past, is a round of the history, which only grows; a
   pass works on such a view, so every row it inserts is one. That no round has
   two rows then follows from `SeedUsedOnce`. `IndexerWatchesRounds`: beside the
   indexer, too, the chain runs `RoundSpec`.
7. **The page** (`FrontendProofs`). A page is a promise about a state that has
   gone, so the invariant `FrontInv` says what is left of it: every page, poll
   and click is *honest*, that is, its `last_settled_ts` is not later than the
   chain's, and if they are equal, the chain pays for the shares it shows what
   it shows at least, or a lamport for each (`Worth`). This is inductive for two
   reasons. While `last_settled_ts` stays, no step makes shares cheaper, and a
   tranche begun anew starts at a lamport each (`PricesKept`). And
   `last_settled_ts` stays only while no round closes, because a round is open
   for a moment at least (`ClosesLater`: `round_secs` is positive), so that
   closing it makes every older page one of the past. Prices are compared
   cross-multiplied, and chained by `PriceChain`. From the invariant come
   `FreshPages` (with `PositionWithinTotal` and the solvency of the vaults) and
   `WithdrawalsPay`. `PagesRunProgram`: with pages the chain still runs the
   program, so all the theorems of 3 and 4 hold beside them.
8. **Backend** (`EngineProofs`), in three parts.
   - *The book.* `LedgerInv` says of the tables that the curve is sound (the
     product of the virtual reserves never falls, virtual minus real SOL and
     tokens are constant), that tokens and SOL are accounted for, and that an
     open curve has not reached its graduation. `BookSolAccounted` and
     `BookTokensAccounted` are parts of it. As selling any one wallet's tokens
     leaves at least the genesis SOL in the curve, `BookQuotesPayable`.
     `BookSoldOutIsClosed` depends on the curve's parameters and has the
     hypothesis `SeedSuffices`: a lamport short of the graduation, the hyperbola
     still has a real token left. `ConfigSuffices` proves it of the reserves and
     the graduation in `config.ts`, and TLC evaluates it for the run's.
   - *The engine implements the book* (`EngineBooks`). `EngineInv` says what each
     request at each step knows: the holder of the curve's row has read the
     committed curve (`Asks`, `Holds`), that of a user's row the committed user,
     and a request about to commit has computed from them what the book's action
     would (`Computed`). Two requests never hold one row (`Apart`), so a step of
     one disturbs nothing another knows. The Valkey lock does not occur in the
     invariant: the theorem is stated for `LossyNext`, in which the lock may
     expire or be lost at any moment. The book's theorems are then carried over:
     `EngineSolAccounted`, `EngineTokensAccounted`, `EnginePays`, `EngineCloses`
     and `EngineSoldOutIsClosed`.
   - *The curve's cache* (`CacheInOrder`): while Valkey keeps its data the cache
     is never empty, so no reader fills it. A trade writes it while it holds the
     curve's row and keeps the row until it commits, so whoever is about to commit
     is the last that wrote it, unless a trade did whose transaction had been
     closed: the exception is part of the statement. Neither the Valkey lock nor
     the time a trade takes matters.
   - *Waiting* (`NoCircularWait`): rows are held only by transactions in the steps
     after their lock (`RowsHeld`). A trade locks the curve's row before a user's
     and a withdrawal only a user's, so the holder of a user's row waits for
     nobody, the holder of the curve's row at most for that one, and no chain of
     waits has three links (`WaitsAreShort`). No circle is possible, then, with
     or without the Valkey lock, and none has to be cut by a timeout.

With these, every invariant and every action property of a passing run is the
statement of a theorem. Model-checked only are the liveness properties
(`PendingEnds`, `RoundsKeepComing`, `RecordedUnlessOvertaken`,
`SnapshotsCatchUp`, `PageCatchesUp`, `RequestsEnd`): they rest on
fairness and so on ENABLED, which is out of the provers' reach. The five runs that
expect a violation are what they are, counterexamples.

TLC was asked about the parts of an inductive invariant on the runs' instances
before the invariant was proved (for the page: `ClosesLater` and the honesty of
every page, poll and click), and about `ThereAndBack`, which no run lists.

## 7. What the code does differently from what is written

- **A buy rounds the credit up** (run `credit`). `curve.rs:43` says "rounded
  DOWN, house-safe"; the code rounds the reserve that remains down, so the
  credit goes up, and the product of the reserves falls below `k`. It never takes
  the curve a whole token below its hyperbola: `CurveNotBelow`, proved.
- **A tranche can become worthless with shares in it** (run `redeem`). The README
  of the repository says "Withdraw from a SOL tranche anytime". When a sale pays
  nothing or a buy credits nothing, `withdraw` (gross must be positive) and
  `deposit` (division by a zero amount) both fail for the tranche from then on.
  The run shows it with coarse tokens; the deployment's tokens are fine, so there
  it takes a tranche of a few lamports (one that a withdrawal has left, say,
  whose tokens the next sale pays less than a lamport for).
- **The indexer loses rounds** (run `indexer_loses`). A commit between a
  settlement and the next poll resets `selected_vault`; the poll then sees the
  timestamp advanced and no vault, advances its own timestamp, and skips the
  round for good. The keeper commits as soon as a round is due, and the gap
  between two rounds is what protects the indexer.
- **The curve cache shows uncommitted reserves** (run `curve_cache_rollback`).
  `saveCurve` writes it inside the transaction. It is corrected by the next trade
  only. The order of the writes is that of the commits, also when the Valkey lock
  has expired (`CurveCachedInOrder`), except for a trade whose transaction timed
  out while it waited for Valkey: its write may come at any moment, also between
  another trade's write and commit.
- **The user cache keeps an old balance** (run `user_cache`). The refresh after a
  pick's commit and that of a withdrawal are not ordered, and cached users do not
  expire. (There are two more ways, which the run does not need: a reader that
  missed the cache writes back the row it has read, after somebody else has
  changed it; and a withdrawal refreshes the cache before it commits, or even
  after its transaction has timed out.)

Three more things a reader of the code should know, which are no contradiction
and have no run: `recover_round` cancels a late round even when its randomness
has arrived, and the keeper prefers recovery past the deadline
(`PublicOutcomeNeverPlayed` shows that such an outcome is not played later); the
deposit that graduates the backend's curve may take `realTokenReserves` below
zero, and only the graduation keeps a later one from doing the same
(`SoldOutIsClosed`); and as `min_reserve < seed_sol`, the `SkippedReserveFloor` branch of
`execute_flip` is never taken (`ReserveKeepsSeed`, proved).

## 8. What is not modelled

- `commit_slot`, bumps, events and error codes, which nothing reads; account
  validation by Anchor beyond what the handlers rely on; compute budgets.
- Fees and rent paid to the runtime; ORAO's own fees and treasury.
- The API of the indexer, which reads the tables and turns a failing query into
  an empty answer; the amounts in the snapshots.
- In the frontend: connecting a wallet (a visitor without one is a page without
  shares that is not clicked), the clock and countdown, statistics and the status
  line. The other three cards are the same as the one of the run.
- The scripts and tests: manual clients of the instructions.
- Rollbacks and forks of the chain: what a node has shown once has happened.
- In the backend: the status of a user (nothing changes it), the trade log but
  for its fees, the feed, candles (a no-op), routes beyond the arrival of their
  requests, validation, the stubs of the chain integration, and re-seeding while
  requests are under way.

## 9. Plan

Done: every module of section 2 with its runs, and the proofs of section 6. What
is left, in order of weight:

1. **Progress, short of liveness**: the safety half of the liveness properties,
   as theorems: that in every pending round a keeper has a transaction the
   program accepts once the deadline is past, and that every pass of the indexer
   that goes through brings its snapshots up to its view. (That requests never
   wait in a circle is proved.)
2. **Users one by one**: `ThereAndBack` over a history, that is, what a user gets
   back for a deposit after other users' deposits and withdrawals, as a bound on
   lamports instead of on a price.
3. **Forks of the chain**: the page reads at commitment `confirmed`, and what it
   has seen may in principle be undone. (The indexer names no commitment and so
   reads finalized state, which only lags.)
4. **The rest of the backend**: the seed beside running requests, and the
   trade feed.
