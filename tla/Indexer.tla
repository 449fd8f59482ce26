------------------------------- MODULE Indexer -------------------------------
(***************************************************************************)
(* The snapshot indexer (indexer/src/main.rs) beside the rounds of module  *)
(* Round: it polls the Config and Vault accounts, and writes a row for     *)
(* every settled round it notices and a snapshot of every vault into       *)
(* Postgres, which survives its restarts; the timestamp it compares with   *)
(* does not.  The RPC node it asks may lag behind the chain, each time by  *)
(* another distance.                                                       *)
(*                                                                         *)
(* Of a vault's data the model keeps how often the vault was flipped,      *)
(* which fixes the roles of its two slots.                                 *)
(***************************************************************************)
EXTENDS Round, FiniteSets

VARIABLES
    last_settled,   \* ingest_loop's last_settled, lost by a restart
    pass,           \* where ingest_once is, and the view it works on
    rounds,         \* the rows of the rounds table
    snapshot        \* the newest row of every vault in vault_snapshots

tables      == <<rounds, snapshot>>
indexerVars == <<roundVars, last_settled, pass, tables>>

Row == [settled_ts : Nat, round_seed : Seeds, selected_vault : Vaults]

\* The vaults' data when n rounds are closed.
Flips(n) == [v \in Vaults |->
                Cardinality({i \in 1 .. n : history[i].kind = "settled" /\ history[i].vault = v})]

\* The accounts as one read returns them: now, in the Idle phase after the
\* n-th closed round, and while the one after it was pending.
View(ts, seed, v, n) ==
    [last_settled_ts |-> ts, round_seed |-> seed, selected_vault |-> v, flips |-> Flips(n)]

CurrentView == View(last_settled_ts, round_seed, selected_vault, Len(history))

IdleView(n) ==
    IF n = 0 THEN View(0, NoSeed, NoVault, 0)
             ELSE View(history[n].at, history[n].seed, history[n].vault, n)

PendingView(n) ==
    [IdleView(n) EXCEPT !.round_seed = history[n + 1].seed, !.selected_vault = NoVault]

PastViews == {IdleView(n) : n \in 0 .. Len(history)}
                 \cup {PendingView(n) : n \in 0 .. Len(history) - 1}

Asleep == [step |-> "asleep"]
At(step) == pass.step = step

IndexerInit ==
    /\ RoundInit
    /\ last_settled = -1
    /\ pass = Asleep
    /\ rounds = {}
    /\ snapshot = [v \in Vaults |-> 0]

\* multiple_accounts: one consistent read of the chain, as the node has it.
\* One that fails changes nothing.
Fetch(view) ==
    /\ At("asleep")
    /\ pass' = [step |-> "record", view |-> view]
    /\ UNCHANGED <<roundVars, last_settled, tables>>

\* What was fetched shows a settlement not seen before.  (Mutant: the vault
\* is not looked at.)
Advanced     == pass.view.last_settled_ts > last_settled
NewlySettled == Advanced /\ pass.view.selected_vault # NoVault

\* INSERT .. ON CONFLICT (settled_ts) DO NOTHING.
Inserted(row) == IF \E r \in rounds : r.settled_ts = row.settled_ts
                 THEN rounds
                 ELSE rounds \cup {row}

\* The vaults are snapshot in every pass.  (Mutant: only after a round.)
RestAfterARound == IF NewlySettled THEN [pass EXCEPT !.step = "snapshot"] ELSE Asleep
RestOfPass      == [pass EXCEPT !.step = "snapshot"]

Record ==
    /\ At("record")
    /\ rounds' = IF NewlySettled
                 THEN Inserted([settled_ts     |-> pass.view.last_settled_ts,
                                round_seed     |-> pass.view.round_seed,
                                selected_vault |-> pass.view.selected_vault])
                 ELSE rounds
    /\ last_settled' = pass.view.last_settled_ts
    /\ pass' = RestOfPass
    /\ UNCHANGED <<roundVars, snapshot>>

\* The comparison timestamp after an insertion that failed: the pass ends
\* before it is advanced.  (Mutant: it is advanced first.)
AdvancedFirst == pass.view.last_settled_ts
AfterFailure  == last_settled

InsertFails ==
    /\ At("record")
    /\ NewlySettled
    /\ last_settled' = AfterFailure
    /\ pass' = Asleep
    /\ UNCHANGED <<roundVars, tables>>

\* The snapshots of the vaults below n are inserted; the next insertion, if
\* there is one, fails, or the process is restarted before it.
SnapshotVaults(n) ==
    /\ At("snapshot")
    /\ snapshot' = [v \in Vaults |-> IF v < n THEN pass.view.flips[v] ELSE snapshot[v]]
    /\ pass' = Asleep
    /\ UNCHANGED <<roundVars, last_settled, rounds>>

Restart ==
    /\ last_settled' = -1
    /\ pass' = Asleep
    /\ UNCHANGED <<roundVars, tables>>

IndexerStep ==
    \/ Record
    \/ InsertFails
    \/ \E n \in 0 .. NumVaults : SnapshotVaults(n)

IndexerNext ==
    \/ RoundNext /\ UNCHANGED <<last_settled, pass, tables>>
    \/ \E view \in PastViews \cup {CurrentView} : Fetch(view)
    \/ IndexerStep
    \/ Restart

\* The loop keeps polling; the node is not always behind, and the database
\* does not fail every time it is up to date.  Nothing is assumed of the
\* rounds.
UpToDate == pass.view = CurrentView

IndexerSpec ==
    /\ IndexerInit
    /\ [][IndexerNext]_indexerVars
    /\ WF_indexerVars(IndexerStep)
    /\ SF_indexerVars(Fetch(CurrentView))
    /\ SF_indexerVars(Record /\ UpToDate)
    /\ SF_indexerVars(SnapshotVaults(NumVaults) /\ UpToDate)

-----------------------------------------------------------------------------
\* Types of the indexer's state.
IndexerTypeOK ==
    /\ RoundTypeOK
    /\ last_settled \in Nat \cup {-1}
    /\ At("asleep") \/ At("record") \/ At("snapshot")
    /\ ~At("asleep") => pass.view.last_settled_ts \in Nat
    /\ rounds \subseteq Row
    /\ snapshot \in [Vaults -> Nat]

\* The table tells no lies: every row is a settled round of the chain, with
\* its own seed and vault, whatever was recovered, committed or restarted
\* between two passes, and no round has two rows.
RowsAreSettledRounds ==
    /\ \A row \in rounds : \E i \in DOMAIN history :
          /\ history[i].kind = "settled"
          /\ history[i].at = row.settled_ts
          /\ history[i].seed = row.round_seed
          /\ history[i].vault = row.selected_vault
    /\ \A r1, r2 \in rounds : r1.round_seed = r2.round_seed => r1 = r2

\* A settlement is recorded unless the next round is committed first: failed
\* insertions and restarts do not lose it.
RecordedUnlessOvertaken ==
    \A t \in 0 .. MaxTime :
        phase = "Idle" /\ selected_vault # NoVault /\ last_settled_ts = t
          ~> (phase = "Pending" \/ \E row \in rounds : row.settled_ts = t)

\* The vault history catches up with the flips: passes that are cut short,
\* lagging nodes and restarts delay the snapshot of a vault but do not lose
\* it, also when the round itself is overtaken and never gets a row.
SnapshotsCatchUp ==
    \A v \in Vaults, n \in 1 .. Cardinality(Seeds) :
        Flips(Len(history))[v] >= n ~> snapshot[v] >= n

\* "When Config.last_settled_ts advances - records a settled round"
\* (main.rs:3-5): once the indexer has seen the timestamp advance past a
\* settled round, the round has a row.  commit_round resets selected_vault,
\* so a round that is followed by a commit between two passes is lost.
EverySettledRoundRecorded ==
    \A i \in DOMAIN history :
        history[i].kind = "settled" /\ history[i].at <= last_settled
          => \E row \in rounds : row.settled_ts = history[i].at
=============================================================================
