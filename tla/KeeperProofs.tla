---------------------------- MODULE KeeperProofs ----------------------------
(***************************************************************************)
(* What holds of the keepers for any number of them, any clock skew and    *)
(* any number of transactions in flight: their types, and that all they    *)
(* can do to the chain are the rounds of module Round.                     *)
(***************************************************************************)
EXTENDS Keeper, RoundProofs

(***************************************************************************)
(* The strengthening: the seed of a pending round a keeper has seen is a   *)
(* seed, so the transactions it builds from it are transactions.           *)
(***************************************************************************)
SeenRoundsHaveSeeds ==
    \A k \in Keepers :
        keeper[k].step = "decide" /\ keeper[k].seen.phase = "Pending"
          => keeper[k].seen.round_seed \in Seeds

KeeperInv ==
    /\ RoundInv
    /\ KeeperTypeOK
    /\ DOMAIN keeper = Keepers
    /\ SeenRoundsHaveSeeds

\* A keeper that goes on leaves the other keepers' states alone.
LEMMA GotoKeepsInv ==
    ASSUME KeeperInv, NEW k \in Keepers, NEW state, Goto(k, state),
           \/ state = Asleep
           \/ /\ state.step = "decide" /\ state.seen \in Config
              /\ state.seen.phase = "Pending" => state.seen.round_seed \in Seeds
           \/ state.step \in {"simulate", "send"} /\ state.tx \in Transaction
    PROVE  KeeperInv'
  <1>1. RoundInv'
    BY StutterKeepsInv DEF KeeperInv, Goto
  <1>2. keeper' = [keeper EXCEPT ![k] = state] /\ UNCHANGED inFlight
    BY DEF Goto
  <1>3. \A j \in Keepers : keeper'[j] = IF j = k THEN state ELSE keeper[j]
    BY <1>2 DEF KeeperInv, KeeperTypeOK
  <1>4. KeeperTypeOK'
    BY <1>1, <1>2, <1>3 DEF KeeperInv, KeeperTypeOK, RoundInv
  <1>5. SeenRoundsHaveSeeds'
    BY <1>3 DEF KeeperInv, SeenRoundsHaveSeeds, Asleep
  <1>6. DOMAIN keeper' = Keepers
    BY <1>2 DEF KeeperInv
  <1>7. QED
    BY <1>1, <1>4, <1>5, <1>6 DEF KeeperInv
LEMMA DecideKeepsInv ==
    ASSUME KeeperInv, NEW k \in Keepers, Decide(k)
    PROVE  KeeperInv'
  <1>1. keeper[k].step = "decide" /\ keeper[k].seen \in Config
        /\ (keeper[k].seen.phase = "Pending" => keeper[k].seen.round_seed \in Seeds)
    BY DEF Decide, KeeperInv, KeeperTypeOK, SeenRoundsHaveSeeds, Asleep
  <1>2. \/ \E step \in {"send", "simulate"}, kind \in {"commit", "settle", "recover"},
              seed \in Seeds : Goto(k, Holding(k, step, kind, seed))
        \/ Goto(k, Asleep)
    BY <1>1 DEF Decide, RandomForce, KeeperRecovers, KeeperSettles
  <1>3. ASSUME NEW step \in {"send", "simulate"},
               NEW kind \in {"commit", "settle", "recover"}, NEW seed \in Seeds
        PROVE  /\ Holding(k, step, kind, seed).step \in {"simulate", "send"}
               /\ Holding(k, step, kind, seed).tx \in Transaction
    BY DEF Holding, Transaction
  <1>4. QED
    BY <1>2, <1>3, GotoKeepsInv

LEMMA ReadKeepsInv ==
    ASSUME KeeperInv, NEW k \in Keepers, ReadConfig(k)
    PROVE  KeeperInv'
  <1> DEFINE state == [step |-> "decide", seen |-> ConfigNow]
  <1>1. Goto(k, state)
    BY DEF ReadConfig
  <1>2. state.step = "decide" /\ state.seen \in Config
    BY DEF KeeperInv, RoundInv, RoundTypeOK, Config, ConfigNow
  <1>3. state.seen.phase = "Pending" => state.seen.round_seed \in Seeds
    BY DEF KeeperInv, RoundInv, SeedsRequested, ConfigNow
  <1> HIDE DEF state
  <1>4. QED
    BY <1>1, <1>2, <1>3, GotoKeepsInv

LEMMA SimulateKeepsInv ==
    ASSUME KeeperInv, NEW k \in Keepers, Simulate(k)
    PROVE  KeeperInv'
  <1> DEFINE state == [keeper[k] EXCEPT !.step = "send"]
  <1>1. Goto(k, state) \/ Goto(k, Asleep)
    BY DEF Simulate
  <1>2. keeper[k].step = "simulate" /\ keeper[k].tx \in Transaction
    BY DEF Simulate, KeeperInv, KeeperTypeOK, Asleep
  <1>3. state.step = "send" /\ state.tx \in Transaction
    BY <1>2
  <1> HIDE DEF state
  <1>4. QED
    BY <1>1, <1>3, GotoKeepsInv

\* Sending puts the keeper to sleep and the transaction, or nothing, on its
\* way.
LEMMA SendKeepsInv ==
    ASSUME KeeperInv, NEW k \in Keepers, Send(k)
    PROVE  KeeperInv'
  <1>1. keeper[k].tx \in Transaction
    BY DEF Send, KeeperInv, KeeperTypeOK, Asleep
  <1>2. inFlight' \subseteq Transaction
    BY <1>1 DEF Send, KeeperInv, KeeperTypeOK
  <1>3. \A j \in Keepers : keeper'[j] = IF j = k THEN Asleep ELSE keeper[j]
    BY DEF Send, KeeperInv
  <1>4. RoundInv' /\ DOMAIN keeper' = Keepers
    BY StutterKeepsInv DEF Send, KeeperInv
  <1>5. KeeperTypeOK' /\ SeenRoundsHaveSeeds'
    BY <1>2, <1>3, <1>4 DEF KeeperInv, KeeperTypeOK, SeenRoundsHaveSeeds, Asleep, RoundInv
  <1>6. QED
    BY <1>4, <1>5 DEF KeeperInv

\* The chain and its environment move by steps of module Round.
LEMMA ChainSteps ==
    ASSUME KeeperInv,
           \/ \E tx \in inFlight : Land(tx) \/ Lose(tx)
           \/ Environment /\ UNCHANGED <<keeper, inFlight>>
    PROVE  [RoundNext]_roundVars /\ UNCHANGED keeper /\ inFlight' \subseteq inFlight
  <1>1. ASSUME NEW tx \in inFlight, Land(tx)
        PROVE  [RoundNext]_roundVars
    <2>1. tx.seed \in Seeds
      BY DEF KeeperInv, KeeperTypeOK, Transaction
    <2>2. QED
      BY <1>1, <2>1 DEF Land, Execute, RoundNext
  <1>2. QED
    BY <1>1 DEF Land, Lose, RoundNext

LEMMA ChainKeepsInv ==
    ASSUME KeeperInv, [RoundNext]_roundVars, UNCHANGED keeper, inFlight' \subseteq inFlight
    PROVE  KeeperInv'
  <1>1. RoundInv'
    BY RoundStepKeepsInv DEF KeeperInv
  <1>2. QED
    BY <1>1 DEF KeeperInv, KeeperTypeOK, SeenRoundsHaveSeeds, RoundInv

LEMMA KeeperStepKeepsInv == KeeperInv /\ [KeeperNext]_keeperVars => KeeperInv'
  <1> SUFFICES ASSUME KeeperInv, [KeeperNext]_keeperVars PROVE KeeperInv'
    OBVIOUS
  <1>1. ASSUME NEW k \in Keepers, KeeperStep(k) \/ TickError(k)
        PROVE  KeeperInv'
    <2>1. CASE KeeperStep(k)
      BY <2>1, ReadKeepsInv, DecideKeepsInv, SimulateKeepsInv, SendKeepsInv DEF KeeperStep
    <2>2. CASE TickError(k)
      BY <2>2, GotoKeepsInv DEF TickError
    <2>3. QED
      BY <1>1, <2>1, <2>2
  <1>2. CASE UNCHANGED keeperVars
    BY <1>2, ChainKeepsInv DEF keeperVars
  <1>3. QED
    BY <1>1, <1>2, ChainSteps, ChainKeepsInv DEF KeeperNext

LEMMA KeeperInitInv == KeeperInit => KeeperInv
  BY RoundInitInv DEF KeeperInit, KeeperInv, KeeperTypeOK, SeenRoundsHaveSeeds, Asleep, RoundInv

THEOREM KeeperSafe == KeeperSafety => []KeeperInv
  BY KeeperInitInv, KeeperStepKeepsInv, PTL DEF KeeperSafety

\* The keepers' states and the transactions in flight keep their types: no
\* keeper settles or recovers without a seed.
THEOREM KeeperTypes == KeeperSpec => []KeeperTypeOK
  <1>1. KeeperInv => KeeperTypeOK
    BY DEF KeeperInv
  <1>2. QED
    BY <1>1, KeeperSafe, PTL DEF KeeperSpec

\* Whatever keepers with wrong clocks, stale state and lost or reordered
\* transactions do, the chain sees rounds of module Round: all its theorems
\* hold among them.
THEOREM KeepersRunRounds == KeeperSafety => RoundSpec
  <1>1. KeeperInit => RoundInit
    BY DEF KeeperInit
  <1>2. ASSUME KeeperInv, [KeeperNext]_keeperVars
        PROVE  [RoundNext]_roundVars
    <2>1. ASSUME NEW k \in Keepers, KeeperStep(k) \/ TickError(k)
          PROVE  UNCHANGED roundVars
      BY <2>1 DEF KeeperStep, ReadConfig, Decide, Simulate, Send, TickError, Goto
    <2>2. QED
      BY <1>2, <2>1, ChainSteps DEF KeeperNext, keeperVars
  <1>3. QED
    BY <1>1, <1>2, KeeperSafe, PTL DEF KeeperSafety, RoundSpec
=============================================================================
