-------------------------- MODULE MCReviewLifecycle --------------------------
(* A small instance of ReviewLifecycle for TLC.                             *)
EXTENDS ReviewLifecycle, TLC

Complete == [check |-> "passing", ingestion |-> "complete", limited |-> FALSE,
             inventoried |-> TRUE]

FactsComplete == {Complete}

=============================================================================
