---------------------------- MODULE MCAttestation ----------------------------
(* Instances of Attestation for TLC. *)
EXTENDS AttestationProof, TLC

CONSTANTS c1, c2, d1, d2

\* Two runs, each for its own device.
OneEach == c1 :> d1 @@ c2 :> d2
=============================================================================
