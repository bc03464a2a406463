---------------------------- MODULE MCSmscProbe ----------------------------
(* Instances of SmscProbe for TLC. *)
EXTENDS SmscProbeProof
=============================================================================
