---------------------------- MODULE RoundProofs ----------------------------
(***************************************************************************)
(* The safety of the round lifecycle, for any number of seeds and vaults   *)
(* and any timing parameters.                                              *)
(***************************************************************************)
EXTENDS Round, TLAPS

(***************************************************************************)
(* The strengthening: what ties the open round and the clock to the closed *)
(* rounds.  A seed that was ever committed has a request account, so that  *)
(* commit_round's creation of the account rules out every old seed.        *)
(***************************************************************************)
SeedsRequested ==
    /\ \A i \in DOMAIN history : vrf[history[i].seed] # NoRequest
    /\ phase = "Pending" => round_seed \in Seeds /\ vrf[round_seed] # NoRequest

TimesOrdered ==
    /\ last_settled_ts <= now
    /\ phase = "Pending" => commit_ts <= now
    /\ \A i \in DOMAIN history : history[i].at <= last_settled_ts

RoundInv ==
    /\ RoundTypeOK
    /\ SeedsRequested
    /\ TimesOrdered
    /\ SeedUsedOnce
    /\ SettledByItsOwnDraw
    /\ RoundsSpaced

\* The elements of a sequence one longer.
LEMMA AppendFacts ==
    ASSUME NEW T, NEW s \in Seq(T), NEW e \in T
    PROVE  /\ Append(s, e) \in Seq(T)
           /\ DOMAIN Append(s, e) = DOMAIN s \cup {Len(s) + 1}
           /\ DOMAIN s = 1 .. Len(s)
           /\ Len(s) \in Nat
           /\ \A i \in DOMAIN s : Append(s, e)[i] = s[i]
           /\ Append(s, e)[Len(s) + 1] = e
           /\ \A i \in DOMAIN s : s[i] \in T
  OBVIOUS

LEMMA HistoryEntries ==
    ASSUME RoundTypeOK, NEW i \in DOMAIN history
    PROVE  /\ history[i].seed \in Seeds
           /\ history[i].opened \in Nat
           /\ history[i].at \in Nat
  <1>1. history[i] \in Closed
    BY DEF RoundTypeOK
  <1>2. QED
    BY <1>1 DEF Closed

LEMMA RoundInitInv == RoundInit => RoundInv
  BY RoundAssumption DEF RoundInit, RoundInv, RoundTypeOK, SeedsRequested, TimesOrdered,
     SeedUsedOnce, SettledByItsOwnDraw, RoundsSpaced, NoRequest, RequestStates, NoVault,
     Vaults, Closed

LEMMA CommitKeepsInv ==
    ASSUME RoundInv, NEW force \in Seeds, CommitRound(force)
    PROVE  RoundInv'
  <1> USE DEF RoundInv
  <1>1. RoundTypeOK'
    BY DEF RoundTypeOK, CommitRound, RequestStates, NoVault
  <1>2. SeedsRequested' /\ SeedUsedOnce' /\ SettledByItsOwnDraw'
    <2>1. \A s \in Seeds : s # force => vrf'[s] = vrf[s]
      BY DEF RoundTypeOK, CommitRound
    <2>2. vrf'[force] = Requested /\ Requested # NoRequest
      BY DEF RoundTypeOK, CommitRound, Requested, NoRequest
    <2>3. \A i \in DOMAIN history : history[i].seed \in Seeds /\ history[i].seed # force
      BY HistoryEntries DEF SeedsRequested, CommitRound, SeedFresh
    <2>4. UNCHANGED history /\ phase' = "Pending" /\ round_seed' = force
      BY DEF CommitRound
    <2>5. QED
      BY <2>1, <2>2, <2>3, <2>4 DEF SeedsRequested, SeedUsedOnce, SettledByItsOwnDraw
  <1>3. TimesOrdered' /\ RoundsSpaced'
    <2>1. /\ now \in Nat /\ last_settled_ts \in Nat /\ RoundSecs \in Nat
          /\ \A i \in DOMAIN history : history[i].at \in Nat
      BY HistoryEntries, RoundAssumption DEF RoundTypeOK
    <2>2. /\ now >= last_settled_ts + RoundSecs /\ commit_ts' = now
          /\ UNCHANGED <<now, last_settled_ts, history>>
      BY DEF CommitRound, RoundDue
    <2>3. QED
      BY <2>1, <2>2 DEF TimesOrdered, RoundsSpaced
  <1>4. QED
    BY <1>1, <1>2, <1>3

\* Closing a round, one way or the other.
LEMMA CloseKeepsInv ==
    ASSUME RoundInv, phase = "Pending",
           NEW kind \in {"settled", "recovered"}, NEW v \in Vaults \cup {NoVault},
           CloseRound(kind, v),
           kind = "settled" => Resolved /\ v = Selected
    PROVE  RoundInv'
  <1> USE DEF RoundInv
  <1> DEFINE e == [kind |-> kind, seed |-> round_seed, vault |-> v,
                   opened |-> commit_ts, at |-> now]
             n == Len(history) + 1
  <1>1. e \in Closed
    BY DEF Closed, RoundTypeOK, SeedsRequested
  <1>2. history' = Append(history, e) /\ UNCHANGED <<now, vrf, round_seed, commit_ts>>
        /\ phase' = "Idle" /\ last_settled_ts' = now /\ selected_vault' = v
    BY DEF CloseRound
  <1>3. /\ history' \in Seq(Closed)
        /\ DOMAIN history' = DOMAIN history \cup {n}
        /\ DOMAIN history = 1 .. (n - 1)
        /\ n \in Nat
        /\ \A i \in DOMAIN history : history'[i] = history[i] /\ history[i] \in Closed
        /\ history'[n] = e
    BY <1>1, <1>2, AppendFacts DEF RoundTypeOK
  <1>4. /\ e.kind = kind /\ e.seed = round_seed /\ e.vault = v
        /\ e.opened = commit_ts /\ e.at = now
    OBVIOUS
  <1> HIDE DEF e, n
  <1>5. RoundTypeOK'
    BY <1>2, <1>3 DEF RoundTypeOK
  <1>6. SeedsRequested'
    BY <1>2, <1>3, <1>4 DEF SeedsRequested
  <1>7. TimesOrdered'
    BY <1>2, <1>3, <1>4 DEF TimesOrdered, RoundTypeOK, Closed
  <1>8. SeedUsedOnce'
    BY <1>2, <1>3, <1>4 DEF SeedUsedOnce
  <1>9. SettledByItsOwnDraw'
    BY <1>2, <1>3, <1>4 DEF SettledByItsOwnDraw, Resolved, Selected
  <1>10. RoundsSpaced'
    <2>1. \A i \in DOMAIN history' : history'[i].opened <= history'[i].at
      BY <1>2, <1>3, <1>4 DEF RoundsSpaced, TimesOrdered
    <2>2. \A i, j \in DOMAIN history' :
              i < j => history'[j].opened >= history'[i].at + RoundSecs
      BY <1>2, <1>3, <1>4 DEF RoundsSpaced
    <2>3. QED
      BY <1>2, <2>1, <2>2 DEF RoundsSpaced
  <1>11. QED
    BY <1>5, <1>6, <1>7, <1>8, <1>9, <1>10

LEMMA SettleKeepsInv == RoundInv /\ SettleRound => RoundInv'
  <1> SUFFICES ASSUME RoundInv, SettleRound
               PROVE  RoundInv'
    OBVIOUS
  <1>1. vrf[round_seed].byte \in Nat
    BY RoundAssumption DEF RoundInv, RoundTypeOK, SettleRound, Resolved, RequestStates,
       NoRequest, Requested, Fulfilled
  <1>2. Selected \in Vaults
    BY <1>1, RoundAssumption DEF Selected, Vaults
  <1>3. QED
    BY <1>2, CloseKeepsInv DEF SettleRound

LEMMA RecoverKeepsInv == RoundInv /\ RecoverRound => RoundInv'
  BY CloseKeepsInv DEF RecoverRound

\* The clock and the randomness service.
LEMMA EnvironmentKeepsInv == RoundInv /\ Environment => RoundInv'
  <1> SUFFICES ASSUME RoundInv, Environment
               PROVE  RoundInv'
    OBVIOUS
  <1> USE DEF RoundInv
  <1>1. CASE Tick
    BY <1>1, RoundAssumption DEF Tick, configVars, RoundTypeOK, SeedsRequested, TimesOrdered,
       SeedUsedOnce, SettledByItsOwnDraw, RoundsSpaced
  <1>2. ASSUME NEW s \in Seeds, RequestElsewhere(s) \/ FulfillRandomness(s)
        PROVE  RoundInv'
    <2>1. PICK r \in RequestStates \ {NoRequest} : vrf' = [vrf EXCEPT ![s] = r]
      BY <1>2 DEF RequestElsewhere, FulfillRandomness, RequestStates, NoRequest, Requested,
         Fulfilled
    <2>2. UNCHANGED <<now, configVars, history>> /\ vrf[s].status # "fulfilled"
      BY <1>2 DEF RequestElsewhere, FulfillRandomness, NoRequest, Requested
    <2>3. /\ vrf' \in [Seeds -> RequestStates]
          /\ \A x \in Seeds : vrf[x] # NoRequest => vrf'[x] # NoRequest
          /\ \A x \in Seeds : vrf[x].status = "fulfilled" => vrf'[x] = vrf[x]
      BY <2>1, <2>2 DEF RoundTypeOK
    <2>4. RoundTypeOK' /\ TimesOrdered' /\ SeedUsedOnce' /\ RoundsSpaced'
      BY <2>2, <2>3 DEF RoundTypeOK, TimesOrdered, SeedUsedOnce, RoundsSpaced, configVars
    <2>5. \A i \in DOMAIN history : history[i].seed \in Seeds
      BY HistoryEntries
    <2>6. SeedsRequested' /\ SettledByItsOwnDraw'
      BY <2>2, <2>3, <2>5 DEF SeedsRequested, SettledByItsOwnDraw, configVars
    <2>7. QED
      BY <2>4, <2>6
  <1>3. QED
    BY <1>1, <1>2 DEF Environment

LEMMA StutterKeepsInv == RoundInv /\ UNCHANGED roundVars => RoundInv'
  BY DEF roundVars, configVars, RoundInv, RoundTypeOK, SeedsRequested, TimesOrdered,
     SeedUsedOnce, SettledByItsOwnDraw, RoundsSpaced

LEMMA RoundStepKeepsInv == RoundInv /\ [RoundNext]_roundVars => RoundInv'
  BY CommitKeepsInv, SettleKeepsInv, RecoverKeepsInv, EnvironmentKeepsInv, StutterKeepsInv
  DEF RoundNext

\* The inductive invariant of the round lifecycle.
THEOREM RoundSafe == RoundSpec => []RoundInv
  BY RoundInitInv, RoundStepKeepsInv, PTL DEF RoundSpec

\* The types of the round's state, for any seeds, vaults and timing.
THEOREM RoundTypesOK == RoundSpec => []RoundTypeOK
  <1>1. RoundInv => RoundTypeOK
    BY DEF RoundInv
  <1>2. QED
    BY <1>1, RoundSafe, PTL

\* No seed decides two rounds, so no public outcome is played again.
THEOREM SeedsUsedOnce == RoundSpec => []SeedUsedOnce
  <1>1. RoundInv => SeedUsedOnce
    BY DEF RoundInv
  <1>2. QED
    BY <1>1, RoundSafe, PTL

\* A settled round flipped the vault its own answered randomness names.
THEOREM SettledByDraw == RoundSpec => []SettledByItsOwnDraw
  <1>1. RoundInv => SettledByItsOwnDraw
    BY DEF RoundInv
  <1>2. QED
    BY <1>1, RoundSafe, PTL

\* Rounds open at least round_secs after the one before closed.
THEOREM Spacing == RoundSpec => []RoundsSpaced
  <1>1. RoundInv => RoundsSpaced
    BY DEF RoundInv
  <1>2. QED
    BY <1>1, RoundSafe, PTL

-----------------------------------------------------------------------------
(***************************************************************************)
(* A seed answered while the vaults were open is burnt: it decided no      *)
(* round, none is pending on it, and commit_round can not bind one to it.  *)
(***************************************************************************)
Burnt(s) ==
    /\ vrf[s].status = "fulfilled"
    /\ s \notin SettledSeeds
    /\ phase = "Pending" => round_seed # s

LEMMA BurntStaysBurnt ==
    ASSUME NEW s \in Seeds, RoundInv, Burnt(s), [RoundNext]_roundVars
    PROVE  Burnt(s)'
  <1>1. ASSUME NEW force \in Seeds, CommitRound(force)
        PROVE  Burnt(s)'
    BY <1>1 DEF CommitRound, SeedFresh, Burnt, SettledSeeds, RoundInv, RoundTypeOK, NoRequest
  <1>2. ASSUME SettleRound \/ RecoverRound
        PROVE  Burnt(s)'
    <2>1. PICK kind, v : CloseRound(kind, v)
      BY <1>2 DEF SettleRound, RecoverRound
    <2> DEFINE e == [kind |-> kind, seed |-> round_seed, vault |-> v,
                     opened |-> commit_ts, at |-> now]
    <2>2. /\ phase' = "Idle" /\ UNCHANGED vrf /\ round_seed # s
          /\ history' = Append(history, e) /\ e.seed # s
      BY <1>2, <2>1 DEF CloseRound, SettleRound, RecoverRound, Burnt
    <2>3. history \in Seq(Closed)
      BY DEF RoundInv, RoundTypeOK
    <2> HIDE DEF e
    <2>4. \A i \in DOMAIN history' :
             \/ i \in DOMAIN history /\ history'[i] = history[i]
             \/ history'[i] = e
      BY <2>2, <2>3
    <2>5. s \notin SettledSeeds'
      BY <2>2, <2>4 DEF SettledSeeds, Burnt
    <2>6. QED
      BY <2>2, <2>5 DEF Burnt
  <1>3. CASE Environment
    <2>1. UNCHANGED <<configVars, history>> /\ vrf'[s].status = "fulfilled"
      BY <1>3 DEF Environment, Tick, RequestElsewhere, FulfillRandomness, Burnt, RoundInv,
         RoundTypeOK, NoRequest, Requested
    <2>2. QED
      BY <2>1 DEF Burnt, SettledSeeds, configVars
  <1>4. CASE UNCHANGED roundVars
    BY <1>4 DEF roundVars, configVars, Burnt, SettledSeeds
  <1>5. QED
    BY <1>1, <1>2, <1>3, <1>4 DEF RoundNext

\* What anybody could read before the vaults were locked never decides a
\* flip, under any interleaving of requests, answers, rounds and recoveries.
THEOREM PublicOutcomesUnplayed == RoundSpec => PublicOutcomeNeverPlayed
  <1>1. ASSUME NEW s \in Seeds
        PROVE  RoundSpec =>
                 [](phase = "Idle" /\ vrf[s].status = "fulfilled" /\ s \notin SettledSeeds
                      => [](s \notin SettledSeeds))
    <2>1. phase = "Idle" /\ vrf[s].status = "fulfilled" /\ s \notin SettledSeeds => Burnt(s)
      BY DEF Burnt
    <2>2. Burnt(s) => s \notin SettledSeeds
      BY DEF Burnt
    <2>3. RoundInv /\ Burnt(s) /\ [RoundNext]_roundVars => Burnt(s)'
      BY BurntStaysBurnt
    <2>4. QED
      BY <2>1, <2>2, <2>3, RoundSafe, PTL DEF RoundSpec
  <1>2. QED
    BY <1>1 DEF PublicOutcomeNeverPlayed
=============================================================================
