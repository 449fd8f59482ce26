------------------------------- MODULE House -------------------------------
(***************************************************************************)
(* What the pool promises, without curve, shares, rounds or clock: a house *)
(* with a bank, and a till per vault from which the depositors of its SOL  *)
(* side are owed an amount.  Money enters and leaves a till together with  *)
(* what is owed from it; a trade replaces what is owed by another amount   *)
(* and the bank takes the difference, without ever going below the seed.   *)
(***************************************************************************)
EXTENDS Integers

CONSTANTS Tills, Seed

VARIABLES
    bank,   \* what the house holds
    held,   \* what each till holds
    owed    \* what its depositors may withdraw

houseVars == <<bank, held, owed>>

HouseInit ==
    /\ bank = Seed
    /\ held = [t \in Tills |-> 0]
    /\ owed = [t \in Tills |-> 0]

\* Only one till's obligations change.
OnlyOwedBy(t) == owed' = [owed EXCEPT ![t] = owed'[t]]

\* A depositor pays in or is paid out: the till and what is owed from it
\* change by the same amount.
PayInOrOut(t) ==
    /\ owed'[t] \in Nat
    /\ OnlyOwedBy(t)
    /\ held' = [held EXCEPT ![t] = @ + (owed'[t] - owed[t])]
    /\ UNCHANGED bank

\* The bank pays the new amount before it receives the old one.
Trade(t) ==
    /\ owed'[t] \in Nat
    /\ OnlyOwedBy(t)
    /\ bank - owed'[t] >= Seed
    /\ bank' = (bank - owed'[t]) + owed[t]
    /\ held' = [held EXCEPT ![t] = (@ + owed'[t]) - owed[t]]

GiftToBank ==
    /\ bank' > bank
    /\ UNCHANGED <<held, owed>>

GiftToTill(t) ==
    /\ held'[t] > held[t]
    /\ held' = [held EXCEPT ![t] = held'[t]]
    /\ UNCHANGED <<bank, owed>>

HouseNext ==
    \/ GiftToBank
    \/ \E t \in Tills : PayInOrOut(t) \/ Trade(t) \/ GiftToTill(t)

HouseSpec == HouseInit /\ [][HouseNext]_houseVars
=============================================================================
