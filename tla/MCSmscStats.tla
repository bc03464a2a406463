----------------------------- MODULE MCSmscStats -----------------------------
(* Instances of SmscStats for TLC. *)
EXTENDS SmscStatsProof
=============================================================================
