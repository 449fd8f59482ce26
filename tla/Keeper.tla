------------------------------- MODULE Keeper -------------------------------
(***************************************************************************)
(* The keepers that drive the rounds of module Round (keeper/src/main.rs). *)
(* A keeper polls: it reads the Config account, decides from what it read  *)
(* and from its clock, builds and signs a transaction, and sends it.  Each *)
(* of these is a call to an RPC node that may fail, other keepers act in   *)
(* between, and a sent transaction lands later, or never.                  *)
(*                                                                         *)
(* A keeper's clock is its host's, and may be ahead of the chain's or      *)
(* behind it.  A keeper keeps nothing from one tick to the next, so a      *)
(* restarted one is a failed tick.                                         *)
(***************************************************************************)
EXTENDS Round, FiniteSets

CONSTANTS
    Keepers,      \* keeper processes: the instructions are permissionless
    MaxSkew,      \* how far a keeper's clock is from the chain's, at most
    MaxInFlight   \* bound on transactions in flight, of the model only

ASSUME KeeperAssumption ==
    /\ MaxSkew \in Nat
    /\ MaxInFlight \in Nat \ {0}

VARIABLES
    keeper,   \* where every keeper is in its tick, and what it has read
    inFlight  \* transactions sent and neither landed nor lost

keeperVars == <<roundVars, keeper, inFlight>>

\* A transaction and the keeper that pays for it.  A recover_round names no
\* round: the seed is the one of the round its keeper saw.
Transaction == [kind : {"commit", "settle", "recover"}, seed : Seeds, by : Keepers]

Config == [phase : {"Idle", "Pending"}, round_seed : Seeds \cup {NoSeed},
           commit_ts : Nat, last_settled_ts : Nat]

ConfigNow == [phase |-> phase, round_seed |-> round_seed,
              commit_ts |-> commit_ts, last_settled_ts |-> last_settled_ts]

Asleep == [step |-> "asleep"]

KeeperInit ==
    /\ RoundInit
    /\ keeper = [k \in Keepers |-> Asleep]
    /\ inFlight = {}

\* The chain would execute the transaction now.  settle_round pins the
\* randomness account to config.round_seed, so it fails for another seed.
Succeeds(tx) ==
    \/ tx.kind = "commit"  /\ phase = "Idle" /\ RoundDue /\ SeedFresh(tx.seed)
    \/ tx.kind = "settle"  /\ phase = "Pending" /\ tx.seed = round_seed /\ Resolved
    \/ tx.kind = "recover" /\ phase = "Pending" /\ RecoverDue

-----------------------------------------------------------------------------
(***************************************************************************)
(* One tick of a keeper.                                                   *)
(***************************************************************************)
Goto(k, state) ==
    /\ keeper' = [keeper EXCEPT ![k] = state]
    /\ UNCHANGED <<roundVars, inFlight>>

ReadConfig(k) ==
    /\ keeper[k].step = "asleep"
    /\ Goto(k, [step |-> "decide", seen |-> ConfigNow])

\* rand::random: a seed nobody has used so far.  (Mutant: the seed of the
\* last round.)
SameForce(seen)   == {s \in Seeds : s = seen.round_seed}
RandomForce(seen) == {s \in Seeds : vrf[s] = NoRequest}

\* now(): what the clock of a keeper may show.
ClockReadings == now - MaxSkew .. now + MaxSkew

KeeperCommits(seen, t) == seen.phase = "Idle" /\ t >= seen.last_settled_ts + RoundSecs

\* A round past the deadline is recovered, not settled.  (Mutants: never;
\* without a look at the phase.)
NeverRecovers(seen, t)    == FALSE
RecoversAnyPhase(seen, t) == t >= seen.commit_ts + RecoverAfterSecs
KeeperRecovers(seen, t)   == seen.phase = "Pending" /\ t >= seen.commit_ts + RecoverAfterSecs

KeeperSettles(seen, t) == seen.phase = "Pending" /\ ~KeeperRecovers(seen, t)

Holding(k, step, kind, seed) ==
    [step |-> step, tx |-> [kind |-> kind, seed |-> seed, by |-> k]]

Decide(k) ==
    /\ keeper[k].step = "decide"
    /\ \E t \in ClockReadings :
       LET seen == keeper[k].seen
       IN  \/ /\ KeeperCommits(seen, t)
              /\ \E force \in RandomForce(seen) : Goto(k, Holding(k, "send", "commit", force))
           \/ /\ KeeperRecovers(seen, t)
              /\ Goto(k, Holding(k, "send", "recover", seen.round_seed))
           \/ /\ KeeperSettles(seen, t)
              /\ Goto(k, Holding(k, "simulate", "settle", seen.round_seed))
           \/ /\ seen.phase = "Idle"
              /\ ~KeeperCommits(seen, t) \/ RandomForce(seen) = {}  \* seeds are finite here only
              /\ Goto(k, Asleep)

\* simulate_ok: probe a settlement before it is sent.
Simulate(k) ==
    /\ keeper[k].step = "simulate"
    /\ IF Succeeds(keeper[k].tx)
       THEN Goto(k, [keeper[k] EXCEPT !.step = "send"])
       ELSE Goto(k, Asleep)

\* sendTransaction with its preflight: what would fail now is not sent.
Send(k) ==
    /\ keeper[k].step = "send"
    /\ Succeeds(keeper[k].tx) => Cardinality(inFlight \cup {keeper[k].tx}) <= MaxInFlight
    /\ inFlight' = inFlight \cup {tx \in {keeper[k].tx} : Succeeds(tx)}
    /\ keeper' = [keeper EXCEPT ![k] = Asleep]
    /\ UNCHANGED roundVars

\* Any RPC call of the tick fails; the loop logs it and sleeps.
TickError(k) ==
    /\ keeper[k].step # "asleep"
    /\ Goto(k, Asleep)

KeeperStep(k) == ReadConfig(k) \/ Decide(k) \/ Simulate(k) \/ Send(k)

-----------------------------------------------------------------------------
(***************************************************************************)
(* The chain: a transaction lands, and then executes or fails, or it is    *)
(* lost or expires.  Which one, and when, is the network's choice.         *)
(***************************************************************************)
Execute(tx) ==
    \/ tx.kind = "commit"  /\ CommitRound(tx.seed)
    \/ tx.kind = "settle"  /\ tx.seed = round_seed /\ SettleRound
    \/ tx.kind = "recover" /\ RecoverRound

Land(tx) ==
    /\ tx \in inFlight
    /\ IF Succeeds(tx) THEN Execute(tx) ELSE UNCHANGED roundVars
    /\ inFlight' = inFlight \ {tx}
    /\ UNCHANGED keeper

Lose(tx) ==
    /\ tx \in inFlight
    /\ inFlight' = inFlight \ {tx}
    /\ UNCHANGED <<roundVars, keeper>>

KeeperNext ==
    \/ \E k \in Keepers : KeeperStep(k) \/ TickError(k)
    \/ \E tx \in inFlight : Land(tx) \/ Lose(tx)
    \/ Environment /\ UNCHANGED <<keeper, inFlight>>

\* The clock runs and the keepers keep polling.  RPC calls and transactions
\* may fail any number of times, but one that is tried again and again
\* succeeds at last.  Nothing is assumed of the randomness service.
Fairness ==
    /\ WF_keeperVars(Tick /\ UNCHANGED <<keeper, inFlight>>)
    /\ \A k \in Keepers :
          /\ WF_keeperVars(ReadConfig(k))
          /\ SF_keeperVars(Decide(k))
          /\ SF_keeperVars(Simulate(k))
          /\ SF_keeperVars(Send(k))
    /\ SF_keeperVars(\E tx \in inFlight : Land(tx))

KeeperSafety == KeeperInit /\ [][KeeperNext]_keeperVars
KeeperSpec   == KeeperSafety /\ Fairness

-----------------------------------------------------------------------------
\* Types of the keepers' state.
KeeperTypeOK ==
    /\ RoundTypeOK
    /\ \A k \in Keepers :
          \/ keeper[k] = Asleep
          \/ keeper[k].step = "decide" /\ keeper[k].seen \in Config
          \/ keeper[k].step \in {"simulate", "send"} /\ keeper[k].tx \in Transaction
    /\ inFlight \subseteq Transaction

\* A pending round is closed in the end, although its randomness may never
\* arrive, keepers read stale state, their clocks differ from the chain's and
\* transactions get lost: the vaults are not locked for ever
\* (recover_round.rs: "unlock the vaults").
PendingEnds ==
    phase = "Pending" /\ commit_ts + RecoverAfterSecs + MaxSkew <= MaxTime
      ~> phase = "Idle"

\* Rounds keep coming: an Idle phase ends with a commit, after a recovery as
\* well as after a settlement, unless the seeds of the model run out.
RoundsKeepComing ==
    phase = "Idle" /\ last_settled_ts + RoundSecs + MaxSkew <= MaxTime
      ~> phase = "Pending" \/ \A s \in Seeds : vrf[s] # NoRequest
=============================================================================
