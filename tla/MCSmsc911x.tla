----------------------------- MODULE MCSmsc911x -----------------------------
(***************************************************************************)
(* Small instances of Smsc911x for TLC. The FIFO sizes keep the order of    *)
(* the code's numbers (packet + 32 <= 1600 <= 3200 < FIFO size) in units    *)
(* in which a packet takes one to three.                                    *)
(***************************************************************************)
EXTENDS Smsc911xProof

CONSTANT h1

\* One multicast group joined, or promiscuous mode.
TwoRequests == {[promisc |-> FALSE, allmulti |-> FALSE, mc |-> {h1}],
                [promisc |-> TRUE,  allmulti |-> FALSE, mc |-> {h1}]}

\* Only the local address.
OneRequest == {[promisc |-> FALSE, allmulti |-> FALSE, mc |-> {}]}

=============================================================================
