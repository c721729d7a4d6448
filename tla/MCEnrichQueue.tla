---------------------------- MODULE MCEnrichQueue ----------------------------
(***************************************************************************)
(* A small instance of EnrichQueue for TLC.                                *)
(***************************************************************************)
EXTENDS EnrichQueueProps, TLC

CONSTANTS b1, b2, q1, title, cover

\* Bound: the one book misses everything, the other its cover alone.
MCInit ==
  /\ Init
  /\ meta = (b1 :> (title :> "empty" @@ cover :> "empty")) @@
            (b2 :> (title :> "embedded" @@ cover :> "empty"))

MCSpec == MCInit /\ [][Next]_vars /\ Fairness
=============================================================================
