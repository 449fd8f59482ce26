---------------------------- MODULE TradeEngine ----------------------------
(***************************************************************************)
(* The trade engine of the perpetual backend: the deposits, picks and      *)
(* withdrawals of module Ledger as the concurrent requests they are, each  *)
(* an async function that other requests overtake at every await, over     *)
(* Postgres (read committed, with row locks) and Valkey (the lock of the   *)
(* curve, with its time to live, and the caches of the read path).         *)
(*                                                                         *)
(* What a transaction writes is invisible to others until it commits, so   *)
(* its writes are kept in its request and stored by the commit.  The feed  *)
(* and the candles, which no operation reads, are left out.                *)
(***************************************************************************)
EXTENDS Ledger

CONSTANTS
    Requests,   \* request slots: the HTTP requests in flight
    Readers,    \* GET /user and GET /price requests in flight
    Nobody      \* no holder of a lock, no wallet

ASSUME TradeEngineAssumption == Nobody \notin Requests \cup Wallets \cup Signatures

\* A token in the Valkey lock whose owner has crashed.
Crashed == "crashed"

VARIABLES
    request,     \* the state of every request
    lock,        \* lock:curve:{mint}
    curveRow,    \* who has locked the curve's row FOR UPDATE
    userRow,     \* who has locked the row of every user
    curveCache,  \* curve:{mint}, or NoCurve
    userCache,   \* user:{wallet}, or NoUser
    reader       \* how far every reader is, and the row it has read

lockVars   == <<lock, curveRow, userRow>>
cacheVars  == <<curveCache, userCache>>
engineVars == <<ledgerVars, request, lockVars, cacheVars, reader>>

\* late is no field of the hash: it marks what a callback has written whose
\* transaction was closed already.
CacheOf(c, closed) == [cached |-> TRUE, reserves |-> c, complete |-> closed, late |-> FALSE]
CachedCurve(c)     == CacheOf(c, HasGraduated(c, GraduationLamports))
NoCurve            == [cached |-> FALSE, reserves |-> Genesis, complete |-> FALSE, late |-> FALSE]

\* A request between two uses of its slot.
Idle == [step |-> "idle", kind |-> "none", wallet |-> Nobody, sig |-> Nobody,
         amount |-> 0, curve |-> Genesis, user |-> NoUser, fee |-> 0]
NotReading == [step |-> "idle", wallet |-> Nobody, user |-> NoUser, curve |-> NoCurve]

EngineInit ==
    /\ LedgerInit
    /\ request = [r \in Requests |-> Idle]
    /\ lock = Nobody
    /\ curveRow = Nobody
    /\ userRow = [w \in Wallets |-> Nobody]
    /\ curveCache = CachedCurve(Genesis)
    /\ userCache = [w \in Wallets |-> NoUser]
    /\ reader = [d \in Readers |-> NotReading]

-----------------------------------------------------------------------------
(***************************************************************************)
(* Steps of a request.                                                     *)
(***************************************************************************)
At(r, step) == request[r].step = step

Goto(r, step) == request' = [request EXCEPT ![r].step = step]

End(r) == request' = [request EXCEPT ![r] = Idle]

\* A transaction that ends gives its row locks back.
UnlockRows(r) ==
    /\ curveRow' = IF curveRow = r THEN Nobody ELSE curveRow
    /\ userRow' = [w \in Wallets |-> IF userRow[w] = r THEN Nobody ELSE userRow[w]]

\* A transaction fails: nothing is stored, the curve lock is still to be
\* released.
Fail(r) ==
    /\ Goto(r, "release")
    /\ UnlockRows(r)
    /\ UNCHANGED <<ledgerVars, lock, cacheVars, reader>>

\* SELECT .. FOR UPDATE goes on when no other transaction holds the row.
\* (Mutants: it does not wait.)
CurveRowAtOnce     == curveRow \in Requests \cup {Nobody}
CurveRowFree       == curveRow = Nobody
UserRowAtOnce(w)   == userRow[w] \in Requests \cup {Nobody}
UserRowFree(w)     == userRow[w] = Nobody

-----------------------------------------------------------------------------
(***************************************************************************)
(* deposit and pick, up to the lock of the curve.                          *)
(***************************************************************************)
BeginDeposit(r, w, sig, amount) ==
    /\ At(r, "idle")
    /\ request' = [request EXCEPT ![r] =
                     [Idle EXCEPT !.step = "prior", !.kind = "deposit",
                                  !.wallet = w, !.sig = sig, !.amount = amount]]
    /\ UNCHANGED <<ledgerVars, lockVars, cacheVars, reader>>

\* A known signature is answered without a trade.
CheckPrior(r) ==
    /\ At(r, "prior")
    /\ IF deposits[request[r].sig] # 0 THEN End(r) ELSE Goto(r, "lock")
    /\ UNCHANGED <<ledgerVars, lockVars, cacheVars, reader>>

BeginPick(r) ==
    /\ At(r, "idle")
    /\ request' = [request EXCEPT ![r] = [Idle EXCEPT !.step = "lock", !.kind = "pick"]]
    /\ UNCHANGED <<ledgerVars, lockVars, cacheVars, reader>>

\* acquireCurveLock: SET NX PX.
AcquireLock(r) ==
    /\ At(r, "lock")
    /\ lock = Nobody
    /\ lock' = r
    /\ Goto(r, "transaction")
    /\ UNCHANGED <<ledgerVars, curveRow, userRow, cacheVars, reader>>

\* The retries are used up: LockError.  (Mutant: it retries for ever.)
KeepRetrying == FALSE
RetriesSpent == lock # Nobody

GiveUp(r) ==
    /\ At(r, "lock")
    /\ RetriesSpent
    /\ End(r)
    /\ UNCHANGED <<ledgerVars, lockVars, cacheVars, reader>>

\* The time to live of the lock passes, whoever holds it.
LockExpires ==
    /\ lock # Nobody
    /\ lock' = Nobody
    /\ UNCHANGED <<ledgerVars, request, curveRow, userRow, cacheVars, reader>>

-----------------------------------------------------------------------------
(***************************************************************************)
(* deposit and pick, in the transaction.                                   *)
(***************************************************************************)
\* The row as it was locked says that trading is closed.  (Mutant: it is not
\* looked at.)
OpenOrClosed == complete \in BOOLEAN
TradingOpen  == ~complete

LockCurveRow(r) ==
    /\ At(r, "transaction")
    /\ CurveRowFree
    /\ curveRow' = r
    /\ request' = [request EXCEPT ![r].curve = curve,
                                  ![r].step = IF TradingOpen THEN "user" ELSE "closed"]
    /\ UNCHANGED <<ledgerVars, lock, userRow, cacheVars, reader>>

RejectClosed(r) == At(r, "closed") /\ Fail(r)

\* The unique index on txSignature.  (Mutant: there is none.)
AnySignature(sig) == deposits[sig] >= 0
NewSignature(sig) == deposits[sig] = 0

\* getOrCreateUser and the insertion of the deposit, whose foreign key locks
\* the user's row against SELECT .. FOR UPDATE.
InsertDeposit(r) ==
    /\ At(r, "user")
    /\ request[r].kind = "deposit"
    /\ LET w == request[r].wallet
       IN  IF NewSignature(request[r].sig)
           THEN /\ UserRowFree(w)
                /\ userRow' = [userRow EXCEPT ![w] = r]
                /\ Goto(r, "trade")
                /\ UNCHANGED <<ledgerVars, lock, curveRow, cacheVars, reader>>
           ELSE Fail(r)

\* The candidates, from which one is drawn at random.
Eligible(w) == users[w].token > 0

ChooseWallet(r) ==
    /\ At(r, "user")
    /\ request[r].kind = "pick"
    /\ \/ \E w \in Wallets :
             /\ Eligible(w)
             /\ request' = [request EXCEPT ![r].wallet = w, ![r].step = "chosen"]
             /\ UNCHANGED <<ledgerVars, lockVars, cacheVars, reader>>
       \/ /\ \A w \in Wallets : ~Eligible(w)
          /\ Fail(r)

\* The chosen wallet's row is locked and read again.
LockChosen(r) ==
    /\ At(r, "chosen")
    /\ LET w == request[r].wallet
       IN  /\ UserRowFree(w)
           /\ IF Eligible(w)
              THEN /\ userRow' = [userRow EXCEPT ![w] = r]
                   /\ request' = [request EXCEPT ![r].user = users[w], ![r].step = "trade"]
                   /\ UNCHANGED <<ledgerVars, lock, curveRow, cacheVars, reader>>
              ELSE Fail(r)

\* The first half of saveCurve: the new reserves are written to the row, as
\* those of the user have been.
SaveCurve(r, c, u, fee) ==
    /\ request' = [request EXCEPT ![r].curve = c, ![r].user = u, ![r].fee = fee,
                                  ![r].step = "cache"]
    /\ UNCHANGED <<ledgerVars, lockVars, cacheVars, reader>>

\* buyLeg, the increment of the user's tokens, and the row of the curve.
Autobuy(r) ==
    LET c      == request[r].curve
        amount == request[r].amount
        u      == users[request[r].wallet]
    IN  /\ At(r, "trade")
        /\ request[r].kind = "deposit"
        /\ IF BuyOK(c, amount)
           THEN SaveCurve(r, AfterBuy(c, amount),
                          User(u.sol, u.token + TokensFor(c, amount)), FeeOn(amount))
           ELSE Fail(r)

\* buyLeg for the residual SOL, sellLeg, and the rows of user and curve.
Liquidate(r) ==
    LET c == request[r].curve
        u == request[r].user
    IN  /\ At(r, "trade")
        /\ request[r].kind = "pick"
        /\ IF LiquidationOK(c, u)
           THEN SaveCurve(r, AfterLiquidation(c, u),
                          User(LessFee(Proceeds(c, u)), 0), LiquidationFees(c, u))
           ELSE Fail(r)

\* The second half of saveCurve writes the reserves through to the cache, when
\* the transaction has not been committed yet.  (Mutant: those of the stored
\* row.)
CachedBefore(q) == CachedCurve(curve)
CachedAfter(q)  == CachedCurve(q.curve)

\* The transaction may have been closed in the meantime, but not the callback,
\* which only finds out when it is through.
CacheCurve(r) ==
    /\ \/ /\ At(r, "cache")
          /\ curveCache' = CachedAfter(request[r])
          /\ Goto(r, "commit")
       \/ /\ At(r, "late cache")
          /\ curveCache' = [CachedAfter(request[r]) EXCEPT !.late = TRUE]
          /\ Goto(r, "release")
    /\ UNCHANGED <<ledgerVars, lockVars, userCache, reader>>

Commit(r) ==
    LET q == request[r]
    IN  /\ At(r, "commit")
        /\ curve' = q.curve
        /\ complete' = HasGraduated(q.curve, GraduationLamports)
        /\ users' = [users EXCEPT ![q.wallet] = q.user]
        /\ deposits' = [s \in Signatures |->
                          IF q.kind = "deposit" /\ s = q.sig THEN deposits[s] + q.amount
                                                             ELSE deposits[s]]
        /\ fees' = fees + q.fee
        /\ UnlockRows(r)
        /\ Goto(r, "flush")
        /\ UNCHANGED <<withdrawn, lock, cacheVars, reader>>

\* flushPostCommit, with the user row as the transaction left it.
Flush(r) ==
    /\ At(r, "flush")
    /\ userCache' = [userCache EXCEPT ![request[r].wallet] = request[r].user]
    /\ Goto(r, "release")
    /\ UNCHANGED <<ledgerVars, lockVars, curveCache, reader>>

\* The finally of withCurveLock: the lock is deleted if it is still ours.
Release(r) ==
    /\ At(r, "release")
    /\ lock' = IF lock = r THEN Nobody ELSE lock
    /\ End(r)
    /\ UNCHANGED <<ledgerVars, curveRow, userRow, cacheVars, reader>>

-----------------------------------------------------------------------------
(***************************************************************************)
(* withdraw: no lock of the curve, only the user's row.                    *)
(***************************************************************************)
BeginWithdrawal(r, w, amount) ==
    /\ At(r, "idle")
    /\ request' = [request EXCEPT ![r] =
                     [Idle EXCEPT !.step = "withdraw", !.kind = "withdrawal",
                                  !.wallet = w, !.amount = amount]]
    /\ UNCHANGED <<ledgerVars, lockVars, cacheVars, reader>>

\* The realized SOL covers the withdrawal.  (Mutant: any user will do.)
ExistingUser(w, amount) == users[w].exists /\ amount \in WithdrawalAmounts
Covered(w, amount)      == users[w].exists /\ amount <= users[w].sol

\* No other row is locked after the user's.  (Mutant: the curve's is.)
AfterwardsTheCurve == "transaction"
NoFurtherRow       == "debit"

LockWithdrawer(r) ==
    LET q == request[r]
    IN  /\ At(r, "withdraw")
        /\ users[q.wallet].exists => UserRowFree(q.wallet)
        /\ IF Covered(q.wallet, q.amount)
           THEN /\ userRow' = [userRow EXCEPT ![q.wallet] = r]
                /\ Goto(r, NoFurtherRow)
           ELSE /\ End(r)
                /\ UNCHANGED userRow
        /\ UNCHANGED <<ledgerVars, lock, curveRow, cacheVars, reader>>

\* The decrement, in the transaction.
Debit(r) ==
    LET w == request[r].wallet
    IN  /\ At(r, "debit")
        /\ request' = [request EXCEPT
                         ![r].user = [users[w] EXCEPT !.sol = @ - request[r].amount],
                         ![r].step = "refresh"]
        /\ UNCHANGED <<ledgerVars, lockVars, cacheVars, reader>>

\* refreshUserCache before the commit, too late if the transaction has been
\* closed in the meantime.
RefreshUser(r) ==
    /\ \/ At(r, "refresh") /\ Goto(r, "commit withdrawal")
       \/ At(r, "late refresh") /\ End(r)
    /\ userCache' = [userCache EXCEPT ![request[r].wallet] = request[r].user]
    /\ UNCHANGED <<ledgerVars, lockVars, curveCache, reader>>

CommitWithdrawal(r) ==
    LET q == request[r]
    IN  /\ At(r, "commit withdrawal")
        /\ users' = [users EXCEPT ![q.wallet] = q.user]
        /\ withdrawn' = [withdrawn EXCEPT ![q.wallet] = @ + q.amount]
        /\ UnlockRows(r)
        /\ End(r)
        /\ UNCHANGED <<curve, complete, deposits, fees, lock, cacheVars, reader>>

-----------------------------------------------------------------------------
(***************************************************************************)
(* Failures.  A call of the callback fails, and the transaction is rolled  *)
(* back; or the database closes the transaction, by Prisma's timeout or    *)
(* with the connection, and the callback fails at its next query or at the *)
(* commit.  Up to there nobody sees what it does, except that it still     *)
(* writes to the cache if that is where it is.  A crash drops the          *)
(* connection, and leaves the lock in Valkey.                              *)
(***************************************************************************)
InTrade(r) ==
    request[r].step \in {"transaction", "user", "chosen", "trade", "cache", "late cache", "commit"}
InWithdrawal(r) ==
    request[r].step \in {"withdraw", "debit", "refresh", "late refresh", "commit withdrawal"}

Rollback(r) ==
    \/ InTrade(r) /\ Fail(r)
    \/ /\ InWithdrawal(r)
       /\ End(r)
       /\ UnlockRows(r)
       /\ UNCHANGED <<ledgerVars, lock, cacheVars, reader>>

\* The transaction is closed while its callback waits for Valkey.
TimesOut(r) ==
    /\ \/ At(r, "cache") /\ Goto(r, "late cache")
       \/ At(r, "refresh") /\ Goto(r, "late refresh")
    /\ UnlockRows(r)
    /\ UNCHANGED <<ledgerVars, lock, cacheVars, reader>>

\* Valkey fails after the commit: the trade stands, the cache is not
\* refreshed.
FlushFails(r) ==
    /\ At(r, "flush")
    /\ Goto(r, "release")
    /\ UNCHANGED <<ledgerVars, lockVars, cacheVars, reader>>

Crash(r) ==
    /\ ~At(r, "idle")
    /\ End(r)
    /\ UnlockRows(r)
    /\ lock' = IF lock = r THEN Crashed ELSE lock
    /\ UNCHANGED <<ledgerVars, cacheVars, reader>>

-----------------------------------------------------------------------------
(***************************************************************************)
(* GET /user: getUserBalances, then getCurveCache, which alone answers     *)
(* GET /price.  A miss is read from Postgres and written to the cache.     *)
(***************************************************************************)
\* A step of a reader, after which it is in state after.
Reading(d, step, after) ==
    /\ reader[d].step = step
    /\ reader' = [reader EXCEPT ![d] = after]
    /\ UNCHANGED <<ledgerVars, request, lockVars>>

ReadUserCache(d, w) ==
    /\ Reading(d, "idle", [NotReading EXCEPT !.step = IF userCache[w].exists THEN "curve"
                                                                            ELSE "user row",
                                             !.wallet = w])
    /\ UNCHANGED cacheVars

\* An unknown user is a 404.
ReadUserRow(d) ==
    LET u == users[reader[d].wallet]
    IN  /\ Reading(d, "user row", IF u.exists
                                  THEN [reader[d] EXCEPT !.step = "fill user", !.user = u]
                                  ELSE NotReading)
        /\ UNCHANGED cacheVars

FillUser(d) ==
    /\ Reading(d, "fill user", [NotReading EXCEPT !.step = "curve"])
    /\ userCache' = [userCache EXCEPT ![reader[d].wallet] = reader[d].user]
    /\ UNCHANGED curveCache

ReadCurveCache(d) ==
    /\ \E step \in {"idle", "curve"} :
          Reading(d, step, IF curveCache.cached THEN NotReading
                           ELSE [NotReading EXCEPT !.step = "curve row"])
    /\ UNCHANGED cacheVars

ReadCurveRow(d) ==
    /\ Reading(d, "curve row", [NotReading EXCEPT !.step  = "fill curve",
                                                  !.curve = CacheOf(curve, complete)])
    /\ UNCHANGED cacheVars

FillCurve(d) ==
    /\ Reading(d, "fill curve", NotReading)
    /\ curveCache' = reader[d].curve
    /\ UNCHANGED userCache

ReaderStep(d) ==
    \/ \E w \in Wallets : ReadUserCache(d, w)
    \/ ReadUserRow(d) \/ FillUser(d)
    \/ ReadCurveCache(d) \/ ReadCurveRow(d) \/ FillCurve(d)

\* Valkey comes back empty: the caches and the lock are gone.
ValkeyLosesData ==
    /\ lock' = Nobody
    /\ curveCache' = NoCurve
    /\ userCache' = [w \in Wallets |-> NoUser]
    /\ UNCHANGED <<ledgerVars, request, curveRow, userRow, reader>>

-----------------------------------------------------------------------------
Arrival(r) ==
    \/ \E w \in Wallets, sig \in Signatures, amount \in DepositAmounts :
          BeginDeposit(r, w, sig, amount)
    \/ BeginPick(r)
    \/ \E w \in Wallets, amount \in WithdrawalAmounts : BeginWithdrawal(r, w, amount)

RequestStep(r) ==
    \/ CheckPrior(r) \/ AcquireLock(r) \/ GiveUp(r)
    \/ LockCurveRow(r) \/ RejectClosed(r)
    \/ InsertDeposit(r) \/ Autobuy(r)
    \/ ChooseWallet(r) \/ LockChosen(r) \/ Liquidate(r)
    \/ CacheCurve(r) \/ Commit(r) \/ Flush(r) \/ Release(r)
    \/ LockWithdrawer(r) \/ Debit(r) \/ RefreshUser(r) \/ CommitWithdrawal(r)

\* Nothing fails and nobody is slow.
PromptNext ==
    \/ \E r \in Requests : Arrival(r) \/ RequestStep(r)
    \/ \E d \in Readers : ReaderStep(d)

EngineNext ==
    \/ PromptNext
    \/ LockExpires
    \/ \E r \in Requests : Rollback(r) \/ TimesOut(r) \/ FlushFails(r) \/ Crash(r)

LossyNext == EngineNext \/ ValkeyLosesData

\* A request that does not crash goes on.  One that waits for a row may be
\* overtaken, but not for ever: Postgres serves the waiters of a row in the
\* order of their arrival.  That a timeout ends a wait is not assumed, nor that
\* the lock expires.
Fairness == \A r \in Requests : SF_engineVars(RequestStep(r))

EngineSafety == EngineInit /\ [][EngineNext]_engineVars
EnginePrompt == EngineInit /\ [][PromptNext]_engineVars
EngineSpec   == EngineInit /\ [][LossyNext]_engineVars /\ Fairness

-----------------------------------------------------------------------------
\* Types of the engine's state.
EngineTypeOK ==
    /\ LedgerTypeOK
    /\ lock \in Requests \cup {Nobody, Crashed}
    /\ curveRow \in Requests \cup {Nobody}
    /\ userRow \in [Wallets -> Requests \cup {Nobody}]
    /\ \A r \in Requests : request[r].curve \in Reserves /\ request[r].user \in UserRows
    /\ userCache \in [Wallets -> UserRows]
    /\ curveCache \in [cached : BOOLEAN, reserves : Reserves, complete : BOOLEAN, late : BOOLEAN]

\* The concurrent engine, with its expiring lock, timeouts and crashes, is
\* the one-at-a-time account book: "no two trades compute against stale
\* reserves" (repo.ts:63-64), and every request happens as a whole or not at
\* all.
ImplementsLedger == LedgerSpec

\* Who waits for a row that another transaction holds.
WaitsForCurve(r, o) == At(r, "transaction") /\ curveRow = o

WaitsForUser(r, o) ==
    /\ request[r].step \in {"user", "chosen", "withdraw"}
    /\ \E w \in Wallets : w = request[r].wallet /\ userRow[w] = o

WaitsFor(r, o) == WaitsForCurve(r, o) \/ WaitsForUser(r, o)

\* No chain of three, hence no circle, of requests that wait for each other: a
\* trade locks the curve's row before a user's, a withdrawal only a user's, and
\* both give them back whichever way they end.
WaitsAreShort ==
    \A r, o, p, q \in Requests : ~(WaitsFor(r, o) /\ WaitsFor(o, p) /\ WaitsFor(p, q))

\* Every request that is not cut off by a crash is answered, without the help
\* of any timeout: none waits for ever for the lock, not even behind a crashed
\* one, nor for a row, in whatever order the rows were locked.
RequestsEnd == \A r \in Requests : ~At(r, "idle") ~> At(r, "idle")

\* A commit finds its own curve in the cache, although the lock of the curve
\* may have expired under a slow trade and another one may have started: the
\* order of the cache writes is the order of the commits.  With one exception,
\* a trade whose transaction was closed while it waited for Valkey: its write
\* may come in between, and then the cache has a curve that never existed.
\* (As long as Valkey keeps its data: a reader's fill is not ordered at all.)
CurveCachedInOrder ==
    [][curve' # curve => curveCache' = CachedCurve(curve') \/ curveCache'.late]_engineVars

\* "Cache + feed writes happen AFTER the transaction commits"
\* (trade.ts:9-10): whatever the cache says of the curve when no transaction
\* holds its row has been committed.  saveCurve writes the cache before the
\* commit, so a rollback leaves reserves in the cache that never existed.
CurveCacheFollowsCommit ==
    curveRow = Nobody /\ curveCache.cached =>
        curveCache.reserves = curve /\ curveCache.complete = complete

\* "every state change updates Postgres inside a transaction, then refreshes
\* the Valkey cache" (cache.ts:4-6): with no request under way, a cached user
\* is the stored one.  A deposit's or pick's refresh is not ordered with a
\* withdrawal's, nor a reader's with either, so the older row may stay.
UserCacheCoherent ==
    (\A r \in Requests : At(r, "idle")) /\ (\A d \in Readers : reader[d] = NotReading) =>
        \A w \in Wallets : userCache[w].exists => userCache[w] = users[w]
=============================================================================
