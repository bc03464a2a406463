----------------------------- MODULE MCSmscLink -----------------------------
(* Instances of SmscLink for TLC. *)
EXTENDS SmscLinkProof
=============================================================================
