------------------------------ MODULE Frontend ------------------------------
(***************************************************************************)
(* The web page (frontend/src/main.rs) in front of the FlipVault program.  *)
(* Every visitor's page polls the accounts in two reads, first the state   *)
(* of the program and then the visitor's own positions, and offers         *)
(* deposits and withdrawals on what it shows.  A click becomes a           *)
(* transaction that is executed later, while rounds, other users and other *)
(* clicks go on, or that gets lost.                                        *)
(***************************************************************************)
EXTENDS FlipVault

CONSTANTS
    Clicks,   \* slots for clicks under way
    Typed     \* the numbers a visitor types; what is no number counts as 0

\* The page parses what is typed as a u64.
ASSUME FrontendAssumption == Typed \subseteq 0 .. MaxU64

VARIABLES
    chain,    \* CHAIN: what the page of every visitor shows
    poll,     \* the first read of a poll whose second one is outstanding
    click     \* the clicks under way

pageVars  == <<chain, poll, click>>
frontVars == <<vars, pageVars>>

\* A card offers the slot the page takes for the SOL tranche, and shows the
\* tranche and the visitor's shares of it; the other tranche is display.
Card(slot, amount, shares, user_shares) ==
    [slot |-> slot, amount |-> amount, shares |-> shares, user_shares |-> user_shares]

\* ChainState::default(), until the first poll is through: no slot is SOL.
\* (Mutant: a timestamp from before the first round.)
NeverLoaded ==
    [pending |-> FALSE, last_settled_ts |-> -1,
     vaults  |-> [v \in Vaults |-> Card(1, 0, 0, 0)]]
NotLoaded ==
    [pending |-> FALSE, last_settled_ts |-> 0,
     vaults  |-> [v \in Vaults |-> Card(1, 0, 0, 0)]]

Waiting == [step |-> "wait"]
Free    == [kind |-> "none"]

FrontInit ==
    /\ Init
    /\ chain = [u \in Users |-> NotLoaded]
    /\ poll = [u \in Users |-> Waiting]
    /\ click = [c \in Clicks |-> Free]

-----------------------------------------------------------------------------
(***************************************************************************)
(* fetch_chain.  A first read that fails changes nothing.                  *)
(***************************************************************************)
\* VaultView::sol_slot.  (Mutant: the other slot.)
OtherSlot(v)    == IF tranches[v][0].asset = "Sol" THEN 1 ELSE 0
SolSlotShown(v) == IF tranches[v][0].asset = "Sol" THEN 0 ELSE 1

AccountsNow ==
    [pending |-> phase = "Pending", last_settled_ts |-> last_settled_ts,
     vaults  |-> [v \in Vaults |->
                    LET i == SolSlotShown(v)
                    IN  Card(i, tranches[v][i].amount, tranches[v][i].total_shares, 0)]]

FetchAccounts(u) ==
    /\ poll[u] = Waiting
    /\ poll' = [poll EXCEPT ![u] = [step |-> "positions", st |-> AccountsNow]]
    /\ UNCHANGED <<vars, chain, click>>

\* The positions join what the first read has found.  (Mutant: what the page
\* shows already.)
WithPositions(u, st) ==
    [st EXCEPT !.vaults = [v \in Vaults |->
        [st.vaults[v] EXCEPT !.user_shares = position[u][v][st.vaults[v].slot]]]]

OntoThePage(u) == WithPositions(u, chain[u])
Joined(u)      == WithPositions(u, poll[u].st)

Show(u, st) ==
    /\ poll[u] # Waiting
    /\ chain' = [chain EXCEPT ![u] = st]
    /\ poll' = [poll EXCEPT ![u] = Waiting]
    /\ UNCHANGED <<vars, click>>

FetchPositions(u) == Show(u, Joined(u))

\* Nobody is connected, or the second read fails: the page shows no shares.
PositionsMissing(u) == Show(u, poll[u].st)

-----------------------------------------------------------------------------
(***************************************************************************)
(* VaultCard and sign_and_broadcast.                                       *)
(***************************************************************************)
\* What the page says n shares are worth.
ShownGross(u, v, n) ==
    LET card == chain[u].vaults[v]
    IN  IF card.shares = 0 THEN 0 ELSE MulDivFloor(n, card.amount, card.shares)

Accepted(k) ==
    \/ k.kind = "deposit"  /\ DepositOK(k.user, k.vault, k.slot, k.n)
    \/ k.kind = "withdraw" /\ WithdrawOK(k.user, k.vault, k.slot, k.n)

Execute(k) ==
    \/ k.kind = "deposit"  /\ Deposit(k.user, k.vault, k.slot, k.n)
    \/ k.kind = "withdraw" /\ Withdraw(k.user, k.vault, k.slot, k.n)

\* The buttons are disabled while the page shows a pending round.  A click is
\* signed and sent, and passes the preflight, in one step: a wallet that
\* takes its time is no other than a page that is not refreshed.  What the
\* page shows (gross, at) is remembered for the properties only.
Click(c, u, k) ==
    /\ click[c] = Free
    /\ ~chain[u].pending
    /\ Accepted(k)
    /\ click' = [click EXCEPT ![c] = k]
    /\ UNCHANGED <<vars, chain, poll>>

Offered(kind, u, v, n) ==
    [kind |-> kind, user |-> u, vault |-> v, slot |-> chain[u].vaults[v].slot, n |-> n,
     gross |-> IF kind = "withdraw" THEN ShownGross(u, v, n) ELSE 0,
     at |-> IF kind = "withdraw" THEN chain[u].last_settled_ts ELSE 0]

\* The transaction is executed, or fails on the chain.
Land(c) ==
    /\ click[c] # Free
    /\ IF Accepted(click[c]) THEN Execute(click[c]) ELSE UNCHANGED vars
    /\ click' = [click EXCEPT ![c] = Free]
    /\ UNCHANGED <<chain, poll>>

\* The wallet declines, a call or the preflight fails, or the blockhash
\* expires before a block includes the transaction.
Lose(c) ==
    /\ click[c] # Free
    /\ click' = [click EXCEPT ![c] = Free]
    /\ UNCHANGED <<vars, chain, poll>>

PageStep ==
    \/ \E u \in Users : FetchAccounts(u) \/ FetchPositions(u) \/ PositionsMissing(u)
    \/ \E c \in Clicks, u \in Users, v \in Vaults, n \in Typed :
          \/ Click(c, u, Offered("deposit", u, v, n))
          \/ Click(c, u, Offered("withdraw", u, v, n))
    \/ \E c \in Clicks : Land(c) \/ Lose(c)

\* The chain goes on as well, with users that do without the page.  Sweeps,
\* and transfers into vault accounts, change nothing a page acts on.
FrontNext ==
    \/ PageStep
    \/ (UserStep \/ RoundStep \/ ReserveDonation) /\ UNCHANGED pageVars

\* The page polls for ever, and the second read does not fail every time.
FrontSpec ==
    /\ FrontInit
    /\ [][FrontNext]_frontVars
    /\ \A u \in Users : /\ WF_frontVars(FetchAccounts(u))
                        /\ SF_frontVars(FetchPositions(u))

-----------------------------------------------------------------------------
Pages == [pending : BOOLEAN, last_settled_ts : Nat,
          vaults : [Vaults -> [slot : Slots, amount : Nat, shares : Nat, user_shares : Nat]]]

\* Types of the pages' state.
FrontTypeOK ==
    /\ TypeOK
    /\ chain \in [Users -> Pages]
    /\ \A u \in Users : poll[u] = Waiting \/ poll[u].st \in Pages
    /\ \A c \in Clicks : click[c].kind \in {"none", "deposit", "withdraw"}

\* A page that is up to date is served: with the round idle, any shares it
\* shows in the slot it offers and that are worth something can be redeemed
\* ("Actions operate on the current SOL tranche"), whatever clicks and
\* rounds went before.
UpToDate(u) == chain[u] = WithPositions(u, AccountsNow)

FreshPageServed ==
    \A u \in Users, v \in Vaults :
        LET card == chain[u].vaults[v]
        IN  UpToDate(u) /\ ~chain[u].pending =>
              \A n \in 1 .. card.user_shares :
                  ShownGross(u, v, n) > 0 => WithdrawOK(u, v, card.slot, n)

\* A withdrawal names no least amount.  If no round has closed between the
\* read its page was based on and its execution, it pays what the page
\* showed for the shares at least, however late it comes, or one lamport for
\* every share: that is the price of a tranche emptied and begun anew in
\* between.
WithdrawalPaysShown ==
    [][\A c \in Clicks :
         LET k == click[c]
         IN  /\ k.kind = "withdraw" /\ click'[c] = Free
             /\ position' # position
             /\ k.at = last_settled_ts
             => \/ lamports[k.vault] - lamports'[k.vault] >= k.gross
                \/ lamports[k.vault] - lamports'[k.vault] >= k.n]_frontVars

\* A page catches up: unless the chain never comes to rest, the page shows
\* its state again and again, in spite of reads that are torn by a step of
\* the chain and of second reads that fail.
PageCatchesUp ==
    \A u \in Users :
        \/ []<><<TRUE>>_<<phase, last_settled_ts, tranches, position>>
        \/ []<>UpToDate(u)
=============================================================================
