------------------------------ MODULE MCIndexer ------------------------------
(***************************************************************************)
(* A small instance of Indexer: two rounds, with time for both to settle   *)
(* between two passes.                                                     *)
(***************************************************************************)
EXTENDS Indexer

MCBytes == {0, 3}
=============================================================================
