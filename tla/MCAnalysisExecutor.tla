------------------------- MODULE MCAnalysisExecutor -------------------------
(***************************************************************************)
(* Three workers and a batch of three leased items, the first two of which  *)
(* nest a leased batch.  The budget holds three leases; keeping one free     *)
(* admits two lanes of the outer batch, so that both nest at the same time.  *)
(* Nested work has the lower priority and ages.                              *)
(***************************************************************************)
EXTENDS AnalysisExecutor

MCRank == [outer |-> 0, nested |-> 1, detached |-> 1]
MCBytes == [outer |-> 1, nested |-> 1, detached |-> 0]

=============================================================================
