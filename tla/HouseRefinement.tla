-------------------------- MODULE HouseRefinement --------------------------
(***************************************************************************)
(* FlipVault implements House: the bank is the reserve, a vault's till is  *)
(* its account and what is owed from it is its SOL tranche.                *)
(***************************************************************************)
EXTENDS FlipVault

H == INSTANCE House WITH
        Tills <- Vaults,
        Seed  <- SeedSol,
        bank  <- reserve,
        held  <- lamports,
        owed  <- [v \in Vaults |-> SolAmount(v)]

\* Every instruction, donation and round of the program is a step of the
\* abstract house or leaves it alone: whatever the curve computes, what the
\* depositors of the SOL sides are owed changes only with the money, and
\* the bank keeps its seed.
ImplementsHouse == H!HouseSpec
=============================================================================
