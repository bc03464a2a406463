----------------------------- MODULE MCSmscMii -----------------------------
(* Instances of SmscMii for TLC. *)
EXTENDS SmscMiiProof

\* Duplex on and off, receiver off: the updates of adjust_link and
\* set_multicast_list.
LinkOps == {[set |-> {"FDPX"}, clear |-> {}], [set |-> {}, clear |-> {"FDPX"}],
            [set |-> {}, clear |-> {"RXEN"}]}
=============================================================================
