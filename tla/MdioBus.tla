------------------------------ MODULE MdioBus ------------------------------
(***************************************************************************)
(* What the driver's register access promises its callers (the PHY layer   *)
(* through mii_bus->read and ->write, and the users of MAC_CR): a call that *)
(* succeeds has had its effect, once, between its start and its return. A  *)
(* call of the PHY layer may fail, and a failed one may still have its     *)
(* effect later, before any other call's.                                  *)
(***************************************************************************)

CONSTANTS
    PhyRegs,   \* the PHY's registers
    Values,    \* what they hold
    Bits,      \* bits of MAC_CR
    CrOps      \* updates of MAC_CR: the bits to set and the bits to clear

VARIABLES
    phy,       \* the PHY's registers
    cr,        \* MAC_CR
    call,      \* the call in progress
    done,      \* what the call in progress has done
    ret, val,  \* its result
    late       \* a failed call's transaction that is still to run

vars == <<phy, cr, call, done, ret, val, late>>

NoOp == [kind |-> "none"]

Ops == [kind : {"read"}, idx : PhyRegs]
       \cup [kind : {"write"}, idx : PhyRegs, val : Values]
       \cup {[kind |-> "cr", set |-> o.set, clear |-> o.clear] : o \in CrOps}

\* What a transaction does to the PHY, and the record of it.
PhyAfter(t) == IF t.kind = "write" THEN [phy EXCEPT ![t.idx] = t.val] ELSE phy
Record(t) == [kind |-> t.kind, idx |-> t.idx,
              val |-> IF t.kind = "write" THEN t.val ELSE phy[t.idx]]

Init ==
    /\ phy \in [PhyRegs -> Values] /\ cr = {}
    /\ call = NoOp /\ done = NoOp /\ ret = "none" /\ val \in Values /\ late = NoOp

Begin ==
    /\ call = NoOp /\ call' \in Ops
    /\ UNCHANGED <<phy, cr, done, ret, val, late>>

Perform ==
    /\ call.kind \in {"read", "write"} /\ ret = "none" /\ done = NoOp /\ late = NoOp
    /\ phy' = PhyAfter(call) /\ done' = Record(call)
    /\ UNCHANGED <<cr, call, ret, val, late>>

PerformCr ==
    /\ call.kind = "cr" /\ ret = "none" /\ done = NoOp
    /\ cr' = (cr \cup call.set) \ call.clear /\ done' = [kind |-> "cr"]
    /\ UNCHANGED <<phy, call, ret, val, late>>

\* Only a call that has had its effect succeeds; a read returns what it read.
Succeed ==
    /\ ret = "none" /\ done # NoOp /\ ret' = "ok"
    /\ val' = IF done.kind = "read" THEN done.val ELSE val
    /\ UNCHANGED <<phy, cr, call, done, late>>

Fail ==
    /\ ret = "none" /\ call.kind \in {"read", "write"} /\ ret' = "error"
    /\ late' \in {late} \cup (IF done = NoOp /\ late = NoOp THEN {call} ELSE {})
    /\ UNCHANGED <<phy, cr, call, done, val>>

RunLate ==
    /\ late # NoOp /\ late' = NoOp
    /\ phy' = PhyAfter(late)
    /\ UNCHANGED <<cr, call, done, ret, val>>

Return ==
    /\ ret # "none"
    /\ call' = NoOp /\ done' = NoOp /\ ret' = "none"
    /\ UNCHANGED <<phy, cr, val, late>>

\* The PHY changes its own registers.
PhyChanges ==
    /\ phy' \in [PhyRegs -> Values]
    /\ UNCHANGED <<cr, call, done, ret, val, late>>

Next == Begin \/ Perform \/ PerformCr \/ Succeed \/ Fail \/ RunLate \/ Return \/ PhyChanges

Spec == Init /\ [][Next]_vars
=============================================================================
