--------------------------- MODULE IndexerProofs ---------------------------
(***************************************************************************)
(* The indexer's tables tell no lies, for any number of vaults and rounds, *)
(* however far its node lags and whenever it fails or is restarted.        *)
(***************************************************************************)
EXTENDS Indexer, RoundProofs, FiniteSetTheorems

(***************************************************************************)
(* The strengthening: whatever the Config account shows of a settlement,   *)
(* now or in an earlier view a pass still works on, is a round of the      *)
(* history, which only grows.                                              *)
(***************************************************************************)
Settled(ts, seed, v) ==
    \E i \in DOMAIN history :
        /\ history[i].kind = "settled"
        /\ history[i].at = ts
        /\ history[i].seed = seed
        /\ history[i].vault = v

ConfigTellsSettled ==
    /\ \A i \in DOMAIN history : history[i].vault # NoVault => history[i].kind = "settled"
    /\ selected_vault # NoVault => Settled(last_settled_ts, round_seed, selected_vault)

Views == [last_settled_ts : Nat, round_seed : Seeds \cup {NoSeed},
          selected_vault : Vaults \cup {NoVault}, flips : [Vaults -> Nat]]

TrueView(view) ==
    /\ view \in Views
    /\ view.selected_vault # NoVault =>
         Settled(view.last_settled_ts, view.round_seed, view.selected_vault)

PassSound ==
    \/ pass = Asleep
    \/ /\ pass \in [step : {"record", "snapshot"}, view : Views]
       /\ TrueView(pass.view)

RowsSettled ==
    /\ rounds \subseteq Row
    /\ \A row \in rounds : Settled(row.settled_ts, row.round_seed, row.selected_vault)

IndexerInv ==
    /\ RoundInv
    /\ ConfigTellsSettled
    /\ PassSound
    /\ RowsSettled
    /\ last_settled \in Nat \cup {-1}
    /\ snapshot \in [Vaults -> Nat]

-----------------------------------------------------------------------------
\* The history only grows.
LEMMA SettledStays ==
    ASSUME RoundInv, [RoundNext]_roundVars, NEW ts, NEW seed, NEW v, Settled(ts, seed, v)
    PROVE  Settled(ts, seed, v)'
  <1>1. ASSUME NEW kind, NEW w, CloseRound(kind, w)
        PROVE  Settled(ts, seed, v)'
    <2> DEFINE e == [kind |-> kind, seed |-> round_seed, vault |-> w,
                     opened |-> commit_ts, at |-> now]
    <2>1. history' = Append(history, e) /\ history \in Seq(Closed)
      BY <1>1 DEF CloseRound, RoundInv, RoundTypeOK
    <2> HIDE DEF e
    <2>2. \A i \in DOMAIN history : i \in DOMAIN history' /\ history'[i] = history[i]
      BY <2>1
    <2>3. QED
      BY <2>2 DEF Settled
  <1>2. CASE UNCHANGED history
    BY <1>2 DEF Settled
  <1>3. QED
    BY <1>1, <1>2 DEF RoundNext, roundVars, SettleRound, RecoverRound, CommitRound, Environment,
       Tick, RequestElsewhere, FulfillRandomness

LEMMA RoundKeepsConfig ==
    ASSUME RoundInv, ConfigTellsSettled, [RoundNext]_roundVars
    PROVE  ConfigTellsSettled'
  <1>1. ASSUME NEW kind, NEW w, CloseRound(kind, w),
               w # NoVault => kind = "settled"
        PROVE  ConfigTellsSettled'
    <2> DEFINE e == [kind |-> kind, seed |-> round_seed, vault |-> w,
                     opened |-> commit_ts, at |-> now]
               n == Len(history) + 1
    <2>1. /\ history' = Append(history, e) /\ history \in Seq(Closed)
          /\ selected_vault' = w /\ last_settled_ts' = now /\ UNCHANGED round_seed
      BY <1>1 DEF CloseRound, RoundInv, RoundTypeOK
    <2>2. e.kind = kind /\ e.vault = w /\ e.at = now /\ e.seed = round_seed
      OBVIOUS
    <2> HIDE DEF e
    <2>3. /\ DOMAIN history' = DOMAIN history \cup {n}
          /\ \A i \in DOMAIN history : history'[i] = history[i]
          /\ history'[n] = e
      BY <2>1
    <2> HIDE DEF n
    <2>4. \A i \in DOMAIN history' : history'[i].vault # NoVault => history'[i].kind = "settled"
      BY <1>1, <2>2, <2>3 DEF ConfigTellsSettled
    <2>5. w # NoVault => Settled(now, round_seed, w)'
      BY <1>1, <2>1, <2>2, <2>3 DEF Settled, CloseRound
    <2>6. QED
      BY <1>1, <2>1, <2>4, <2>5 DEF ConfigTellsSettled, CloseRound, Settled
  <1>2. CASE SettleRound \/ RecoverRound
    BY <1>1, <1>2 DEF SettleRound, RecoverRound
  <1>3. ASSUME NEW force \in Seeds, CommitRound(force)
        PROVE  ConfigTellsSettled'
    BY <1>3 DEF CommitRound, ConfigTellsSettled
  <1>4. CASE Environment \/ UNCHANGED roundVars
    BY <1>4 DEF Environment, Tick, RequestElsewhere, FulfillRandomness, roundVars, configVars,
       ConfigTellsSettled, Settled
  <1>5. QED
    BY <1>2, <1>3, <1>4 DEF RoundNext
\* The chain moves, the indexer does not.
LEMMA RoundKeepsIndexerInv ==
    ASSUME IndexerInv, [RoundNext]_roundVars, UNCHANGED <<last_settled, pass, tables>>
    PROVE  IndexerInv'
  <1>1. RoundInv' /\ ConfigTellsSettled'
    BY RoundStepKeepsInv, RoundKeepsConfig DEF IndexerInv
  <1>2. \A ts, seed, v : Settled(ts, seed, v) => Settled(ts, seed, v)'
    BY SettledStays DEF IndexerInv
  <1>3. PassSound'
    BY <1>2 DEF IndexerInv, PassSound, TrueView
  <1>4. RowsSettled'
    BY <1>2 DEF IndexerInv, RowsSettled, tables
  <1>5. QED
    BY <1>1, <1>3, <1>4 DEF IndexerInv, tables

\* The indexer moves, the chain does not.
LEMMA IndexerAloneKeepsInv ==
    ASSUME IndexerInv, UNCHANGED roundVars, PassSound', RowsSettled',
           last_settled' \in Nat \cup {-1}, snapshot' \in [Vaults -> Nat]
    PROVE  IndexerInv'
  <1>1. RoundInv' /\ ConfigTellsSettled'
    BY StutterKeepsInv, RoundKeepsConfig DEF IndexerInv
  <1>2. QED
    BY <1>1 DEF IndexerInv

-----------------------------------------------------------------------------
(***************************************************************************)
(* Every view of the chain, current or past, is a true one.                *)
(***************************************************************************)
LEMMA FlipsType ==
    ASSUME RoundInv, NEW n \in 0 .. Len(history)
    PROVE  Flips(n) \in [Vaults -> Nat]
  <1>1. n \in Int
    BY DEF RoundInv, RoundTypeOK
  <1>2. ASSUME NEW v \in Vaults
        PROVE  Cardinality({i \in 1 .. n : history[i].kind = "settled" /\ history[i].vault = v})
                 \in Nat
    <2>1. IsFiniteSet(1 .. n)
      BY <1>1, FS_Interval
    <2>2. QED
      BY <2>1, FS_Subset, FS_CardinalityType
  <1>3. QED
    BY <1>2 DEF Flips

LEMMA EntryFacts ==
    ASSUME RoundInv, NEW i \in DOMAIN history
    PROVE  /\ history[i].seed \in Seeds
           /\ history[i].at \in Nat
           /\ history[i].vault \in Vaults \cup {NoVault}
  <1>1. history[i] \in Closed
    BY DEF RoundInv, RoundTypeOK
  <1>2. QED
    BY <1>1 DEF Closed

LEMMA CurrentViewTrue ==
    ASSUME RoundInv, ConfigTellsSettled
    PROVE  TrueView(CurrentView)
  <1>1. Len(history) \in 0 .. Len(history)
    BY DEF RoundInv, RoundTypeOK
  <1>2. Flips(Len(history)) \in [Vaults -> Nat]
    BY <1>1, FlipsType
  <1>3. QED
    BY <1>2 DEF TrueView, CurrentView, View, Views, ConfigTellsSettled, RoundInv, RoundTypeOK

LEMMA IdleViewTrue ==
    ASSUME RoundInv, ConfigTellsSettled, NEW n \in 0 .. Len(history)
    PROVE  TrueView(IdleView(n))
  <1>1. Flips(n) \in [Vaults -> Nat]
    BY FlipsType
  <1>2. CASE n = 0
    BY <1>1, <1>2 DEF IdleView, View, Views, TrueView
  <1>3. CASE n # 0
    <2>1. n \in DOMAIN history
      BY <1>3 DEF RoundInv, RoundTypeOK
    <2>2. history[n].vault # NoVault => Settled(history[n].at, history[n].seed, history[n].vault)
      BY <2>1 DEF ConfigTellsSettled, Settled
    <2>3. QED
      BY <1>1, <1>3, <2>1, <2>2, EntryFacts DEF IdleView, View, Views, TrueView
  <1>4. QED
    BY <1>2, <1>3

LEMMA PendingViewTrue ==
    ASSUME RoundInv, ConfigTellsSettled, NEW n \in 0 .. Len(history) - 1
    PROVE  TrueView(PendingView(n))
  <1>1. n \in 0 .. Len(history) /\ n + 1 \in DOMAIN history
    BY DEF RoundInv, RoundTypeOK
  <1>2. IdleView(n) \in Views /\ history[n + 1].seed \in Seeds
    BY <1>1, IdleViewTrue, EntryFacts DEF TrueView
  <1>3. PendingView(n) \in Views /\ PendingView(n).selected_vault = NoVault
    BY <1>2 DEF PendingView, Views
  <1>4. QED
    BY <1>3 DEF TrueView

-----------------------------------------------------------------------------
LEMMA FetchKeepsInv ==
    ASSUME IndexerInv, NEW view \in PastViews \cup {CurrentView}, Fetch(view)
    PROVE  IndexerInv'
  <1>1. TrueView(view)
    BY CurrentViewTrue, IdleViewTrue, PendingViewTrue DEF PastViews, IndexerInv
  <1>2. pass' = [step |-> "record", view |-> view] /\ UNCHANGED <<roundVars, last_settled, tables>>
    BY DEF Fetch
  <1>3. TrueView(view)'
    BY <1>1, <1>2 DEF TrueView, Settled, roundVars
  <1>4. PassSound' /\ RowsSettled'
    BY <1>2, <1>3 DEF PassSound, TrueView, IndexerInv, RowsSettled, Settled, roundVars, tables
  <1>5. QED
    BY <1>2, <1>4, IndexerAloneKeepsInv DEF IndexerInv, tables

LEMMA RecordKeepsInv == IndexerInv /\ Record => IndexerInv'
  <1> SUFFICES ASSUME IndexerInv, Record PROVE IndexerInv'
    OBVIOUS
  <1>1. /\ pass \in [step : {"record", "snapshot"}, view : Views]
        /\ TrueView(pass.view)
    BY DEF IndexerInv, PassSound, Record, At, Asleep
  <1> DEFINE row == [settled_ts     |-> pass.view.last_settled_ts,
                     round_seed     |-> pass.view.round_seed,
                     selected_vault |-> pass.view.selected_vault]
  <1>2. ASSUME NewlySettled
        PROVE  row \in Row /\ Settled(row.settled_ts, row.round_seed, row.selected_vault)
    <2>1. Settled(pass.view.last_settled_ts, pass.view.round_seed, pass.view.selected_vault)
      BY <1>1, <1>2 DEF NewlySettled, TrueView
    <2>2. pass.view.round_seed \in Seeds /\ pass.view.selected_vault \in Vaults
          /\ pass.view.last_settled_ts \in Nat
      BY <1>1, <1>2, <2>1, EntryFacts DEF Settled, Views, NewlySettled, IndexerInv
    <2>3. QED
      BY <2>1, <2>2 DEF Row
  <1>3. /\ rounds' = rounds \/ (NewlySettled /\ rounds' = rounds \cup {row})
        /\ last_settled' = pass.view.last_settled_ts
        /\ pass' = [pass EXCEPT !.step = "snapshot"]
        /\ UNCHANGED <<roundVars, snapshot>>
    BY DEF Record, Inserted, RestOfPass
  <1>4. RowsSettled'
    <2>1. \A ts, seed, v : Settled(ts, seed, v)' <=> Settled(ts, seed, v)
      BY <1>3 DEF Settled, roundVars
    <2> HIDE DEF row
    <2>2. QED
      BY <1>2, <1>3, <2>1 DEF IndexerInv, RowsSettled
  <1>5. PassSound'
    <2>1. pass' \in [step : {"record", "snapshot"}, view : Views] /\ pass'.view = pass.view
      BY <1>1, <1>3
    <2>2. QED
      BY <1>1, <1>3, <2>1 DEF PassSound, TrueView, Settled, roundVars
  <1>6. last_settled' \in Nat
    BY <1>1, <1>3 DEF Views
  <1>7. QED
    BY <1>3, <1>4, <1>5, <1>6, IndexerAloneKeepsInv DEF IndexerInv

\* A pass that ends, for whatever reason, and leaves the rounds table alone.
LEMMA EndKeepsInv ==
    ASSUME IndexerInv, pass' = Asleep, UNCHANGED <<roundVars, rounds>>,
           last_settled' \in Nat \cup {-1}, snapshot' \in [Vaults -> Nat]
    PROVE  IndexerInv'
  <1>1. PassSound' /\ RowsSettled'
    BY DEF PassSound, IndexerInv, RowsSettled, Settled, roundVars
  <1>2. QED
    BY <1>1, IndexerAloneKeepsInv

LEMMA IndexerStepKeepsInv == IndexerInv /\ [IndexerNext]_indexerVars => IndexerInv'
  <1> SUFFICES ASSUME IndexerInv, [IndexerNext]_indexerVars PROVE IndexerInv'
    OBVIOUS
  <1>1. CASE RoundNext /\ UNCHANGED <<last_settled, pass, tables>>
    BY <1>1, RoundKeepsIndexerInv
  <1>2. ASSUME NEW n \in 0 .. NumVaults, SnapshotVaults(n)
        PROVE  IndexerInv'
    <2>1. pass.view.flips \in [Vaults -> Nat]
      BY <1>2 DEF SnapshotVaults, IndexerInv, PassSound, At, Asleep, Views
    <2>2. snapshot' \in [Vaults -> Nat]
      BY <1>2, <2>1 DEF SnapshotVaults, IndexerInv
    <2>3. QED
      BY <1>2, <2>2, EndKeepsInv DEF SnapshotVaults, IndexerInv
  <1>3. CASE InsertFails \/ Restart
    BY <1>3, EndKeepsInv DEF InsertFails, AfterFailure, Restart, IndexerInv, tables
  <1>4. CASE UNCHANGED indexerVars
    BY <1>4, RoundKeepsIndexerInv DEF indexerVars
  <1>5. QED
    BY <1>1, <1>2, <1>3, <1>4, FetchKeepsInv, RecordKeepsInv DEF IndexerNext, IndexerStep

LEMMA IndexerInitInv == IndexerInit => IndexerInv
  BY RoundInitInv DEF IndexerInit, RoundInit, IndexerInv, ConfigTellsSettled, PassSound,
     RowsSettled

THEOREM IndexerSafe == IndexerSpec => []IndexerInv
  BY IndexerInitInv, IndexerStepKeepsInv, PTL DEF IndexerSpec

\* The tables, the comparison timestamp and a pass under way keep their
\* types.
THEOREM IndexerTypes == IndexerSpec => []IndexerTypeOK
  <1>1. IndexerInv => IndexerTypeOK
    BY DEF IndexerInv, IndexerTypeOK, RoundInv, PassSound, RowsSettled, At, Asleep, Views
  <1>2. QED
    BY <1>1, IndexerSafe, PTL

\* Every row of the rounds table is a settled round of the chain, and no
\* round has two, however stale the views were that the rows were made of.
THEOREM RowsTellTheTruth == IndexerSpec => []RowsAreSettledRounds
  <1>1. ASSUME IndexerInv
        PROVE  RowsAreSettledRounds
    <2>1. \A row \in rounds : Settled(row.settled_ts, row.round_seed, row.selected_vault)
      BY <1>1 DEF IndexerInv, RowsSettled
    <2>2. ASSUME NEW r1 \in rounds, NEW r2 \in rounds, r1.round_seed = r2.round_seed
          PROVE  r1 = r2
      <3>1. r1.settled_ts = r2.settled_ts /\ r1.selected_vault = r2.selected_vault
        BY <1>1, <2>1, <2>2 DEF Settled, IndexerInv, RoundInv, SeedUsedOnce
      <3>2. r1 \in Row /\ r2 \in Row
        BY <1>1 DEF IndexerInv, RowsSettled
      <3>3. QED
        BY <2>2, <3>1, <3>2 DEF Row
    <2>3. QED
      BY <2>1, <2>2 DEF RowsAreSettledRounds, Settled
  <1>2. QED
    BY <1>1, IndexerSafe, PTL

\* The indexer only reads the chain: beside it the rounds go on as in module
\* Round, and all its theorems hold.
THEOREM IndexerWatchesRounds == IndexerSpec => RoundSpec
  <1>1. IndexerInit => RoundInit
    BY DEF IndexerInit
  <1>2. [IndexerNext]_indexerVars => [RoundNext]_roundVars
    <2>1. IndexerStep \/ Restart => UNCHANGED roundVars
      BY DEF IndexerStep, Record, SnapshotVaults, InsertFails, Restart
    <2>2. ASSUME NEW view, Fetch(view) PROVE UNCHANGED roundVars
      BY <2>2 DEF Fetch
    <2>3. QED
      BY <2>1, <2>2 DEF IndexerNext, indexerVars
  <1>3. QED
    BY <1>1, <1>2, PTL DEF IndexerSpec, RoundSpec
=============================================================================
