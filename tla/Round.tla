------------------------------- MODULE Round -------------------------------
(***************************************************************************)
(* The round lifecycle of the FlipVault program: the part of the Config    *)
(* account that commit_round, settle_round and recover_round read and      *)
(* write, the chain's clock, and the ORAO randomness service they call.    *)
(* A transaction is atomic on Solana, so each instruction is one action.   *)
(*                                                                         *)
(* What a settled round does to the selected vault is the business of      *)
(* module FlipVault, which composes these actions with the pool.           *)
(***************************************************************************)
EXTENDS Integers, Sequences

CONSTANTS
    Seeds,             \* the 32-byte VRF seeds ("force") keepers may use
    NoSeed,            \* the zero seed of a fresh Config, which ORAO rejects
    Bytes,             \* values of the first byte of a fulfilled randomness
    NumVaults,         \* NUM_VAULTS
    RoundSecs,         \* config.round_secs
    RecoverAfterSecs,  \* RECOVER_AFTER_SECS
    MaxTime            \* bound on the clock, of the model only

\* NO_VAULT: 0xFF in the code, any value that is not a vault id.
NoVault == NumVaults

ASSUME RoundAssumption ==
    /\ NoSeed \notin Seeds
    /\ Bytes \subseteq Nat
    /\ NumVaults \in Nat \ {0}
    /\ RoundSecs \in Nat \ {0}
    /\ RecoverAfterSecs \in Nat \ {0}
    /\ MaxTime \in Nat

VARIABLES
    now,              \* Clock::unix_timestamp, in seconds since initialize
    vrf,              \* the ORAO request account of every seed
    phase,            \* config.phase
    round_seed,       \* config.round_seed
    commit_ts,        \* config.commit_ts
    last_settled_ts,  \* config.last_settled_ts
    selected_vault,   \* config.selected_vault
    history           \* the closed rounds, as the chain's ledger lists them

configVars == <<phase, round_seed, commit_ts, last_settled_ts, selected_vault>>
roundVars  == <<now, vrf, configVars, history>>

Vaults == 0 .. NumVaults - 1

NoRequest     == [status |-> "absent", byte |-> 0]
Requested     == [status |-> "requested", byte |-> 0]
Fulfilled(b)  == [status |-> "fulfilled", byte |-> b]
RequestStates == {NoRequest, Requested} \cup {Fulfilled(b) : b \in Bytes}

\* A closed round: how it closed, its seed, the vault it flipped, and when
\* it was committed and closed.
Closed == [kind   : {"settled", "recovered"},
           seed   : Seeds,
           vault  : Vaults \cup {NoVault},
           opened : Nat,
           at     : Nat]

-----------------------------------------------------------------------------
RoundInit ==
    /\ now = 0
    /\ vrf = [s \in Seeds |-> NoRequest]
    /\ phase = "Idle"
    /\ round_seed = NoSeed
    /\ commit_ts = 0
    /\ last_settled_ts = now
    /\ selected_vault = NoVault
    /\ history = <<>>

\* The wait between two rounds starts when the first one closes.
\* (Mutant: it starts when the first one opens.)
SpacedFromOpening == now >= commit_ts + RoundSecs
RoundDue          == now >= last_settled_ts + RoundSecs

\* The request account of the seed must not exist: the transaction creates
\* it.  (Mutants: an account that is not answered yet will do; any will.)
SeedNotAnswered(force) == vrf[force].status # "fulfilled"
SeedInAnyState(force)  == force \in Seeds
SeedFresh(force)       == vrf[force] = NoRequest

\* commit_round: open a round bound to a randomness request that the same
\* transaction creates, so that nobody can know its outcome yet.
CommitRound(force) ==
    /\ force # NoSeed
    /\ phase = "Idle"
    /\ RoundDue
    /\ SeedFresh(force)
    /\ vrf' = [vrf EXCEPT ![force] = Requested]
    /\ phase' = "Pending"
    /\ round_seed' = force
    /\ commit_ts' = now
    /\ selected_vault' = NoVault
    /\ UNCHANGED <<now, last_settled_ts, history>>

\* The randomness account pinned to the committed seed holds an answer.
Resolved == round_seed \in Seeds /\ vrf[round_seed].status = "fulfilled"

\* The vault a settlement of the pending round selects.  (Mutants: the byte
\* is not reduced; the vaults are counted from one.)
SelectedUnreduced == vrf[round_seed].byte
SelectedFromOne   == (vrf[round_seed].byte + 1) % NumVaults
Selected          == vrf[round_seed].byte % NumVaults

CloseRound(kind, v) ==
    /\ phase' = "Idle"
    /\ last_settled_ts' = now
    /\ selected_vault' = v
    /\ history' = Append(history, [kind   |-> kind,
                                   seed   |-> round_seed,
                                   vault  |-> v,
                                   opened |-> commit_ts,
                                   at     |-> now])
    /\ UNCHANGED <<now, vrf, round_seed, commit_ts>>

\* settle_round, without the flip.
SettleRound ==
    /\ phase = "Pending"
    /\ Resolved
    /\ CloseRound("settled", Selected)

\* The deadline of a recovery counts from the commit of the round.
RecoverDue == now >= commit_ts + RecoverAfterSecs

\* recover_round: cancel a round after the deadline.
RecoverRound ==
    /\ phase = "Pending"
    /\ RecoverDue
    /\ CloseRound("recovered", NoVault)

-----------------------------------------------------------------------------
\* The environment: the clock, and ORAO.  Anybody may ask ORAO directly for
\* the randomness of any seed; an answer never changes.
Tick ==
    /\ now < MaxTime
    /\ now' = now + 1
    /\ UNCHANGED <<vrf, configVars, history>>

RequestElsewhere(s) ==
    /\ vrf[s] = NoRequest
    /\ vrf' = [vrf EXCEPT ![s] = Requested]
    /\ UNCHANGED <<now, configVars, history>>

FulfillRandomness(s) ==
    /\ vrf[s] = Requested
    /\ \E b \in Bytes : vrf' = [vrf EXCEPT ![s] = Fulfilled(b)]
    /\ UNCHANGED <<now, configVars, history>>

Environment ==
    \/ Tick
    \/ \E s \in Seeds : RequestElsewhere(s) \/ FulfillRandomness(s)

RoundNext ==
    \/ \E force \in Seeds : CommitRound(force)
    \/ SettleRound
    \/ RecoverRound
    \/ Environment

RoundSpec == RoundInit /\ [][RoundNext]_roundVars

-----------------------------------------------------------------------------
\* Types of the round's state.
RoundTypeOK ==
    /\ now \in Nat
    /\ vrf \in [Seeds -> RequestStates]
    /\ phase \in {"Idle", "Pending"}
    /\ round_seed \in Seeds \cup {NoSeed}
    /\ commit_ts \in Nat
    /\ last_settled_ts \in Nat
    /\ selected_vault \in Vaults \cup {NoVault}
    /\ history \in Seq(Closed)

\* A seed decides at most one round: no two closed rounds share a seed and
\* a pending round's seed has never been used, so an outcome that is already
\* public can not be played again (commit_round.rs: "always bound to a
\* fresh, not-yet-fulfilled randomness account").
SeedUsedOnce ==
    /\ \A i, j \in DOMAIN history :
          i # j => history[i].seed # history[j].seed
    /\ phase = "Pending" =>
          \A i \in DOMAIN history : history[i].seed # round_seed

\* Every settled round flipped the vault that the answer to its own seed
\* names, whatever was requested, answered or recovered since.
SettledByItsOwnDraw ==
    \A i \in DOMAIN history :
        history[i].kind = "settled" =>
            /\ vrf[history[i].seed].status = "fulfilled"
            /\ history[i].vault = vrf[history[i].seed].byte % NumVaults

\* A round opens at least round_secs after the one before it closed, and a
\* cancelled round also starts the wait again (config.rs: "Minimum seconds
\* between settled rounds").
RoundsSpaced ==
    /\ \A i \in DOMAIN history : history[i].opened <= history[i].at
    /\ \A i, j \in DOMAIN history :
          i < j => history[j].opened >= history[i].at + RoundSecs
    /\ phase = "Pending" =>
          \A i \in DOMAIN history : commit_ts >= history[i].at + RoundSecs

\* An outcome anybody could read while the vaults were open never decides a
\* flip: a seed answered in an Idle state in which no settled round had used
\* it (requested elsewhere, or answered after its round was recovered) is
\* never settled later (config.rs: Pending "blocks post-reveal
\* front-running").
SettledSeeds == {history[i].seed : i \in {j \in DOMAIN history : history[j].kind = "settled"}}

PublicOutcomeNeverPlayed ==
    \A s \in Seeds :
        [](phase = "Idle" /\ vrf[s].status = "fulfilled" /\ s \notin SettledSeeds
             => [](s \notin SettledSeeds))
=============================================================================
