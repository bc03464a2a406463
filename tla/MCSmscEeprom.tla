---------------------------- MODULE MCSmscEeprom ----------------------------
(* Instances of SmscEeprom for TLC. *)
EXTENDS SmscEepromProof
=============================================================================
