-------------------------- MODULE MCObservationBatch --------------------------
(* Two batches out of five calls, one too long a batch, two workers. *)
EXTENDS ObservationBatch

CONSTANTS a, b, c, d, e
CallOrder == <<a, b, c, d, e>>
===============================================================================
