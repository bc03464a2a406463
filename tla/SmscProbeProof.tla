--------------------------- MODULE SmscProbeProof ---------------------------
(***************************************************************************)
(* The inductive invariant of SmscProbe and the proofs of its safety        *)
(* properties for every configuration.                                      *)
(***************************************************************************)
EXTENDS SmscProbe, TLAPS

-----------------------------------------------------------------------------
(* The inductive invariant: what is held at which statement.                *)

\* pdata->phy_dev is set and the PHY connected.
PhySpan == {"loopback", "loopback_end", "address", "bound"}
BusSpan == PhySpan \cup {"connect", "phy_dev", "err_out_unregister_bus_3", "rm_null", "rm_bus"}
EarlySpan == {"mdio_alloc", "ext_phy", "mdio_register", "connect", "phy_dev"}
LateRemove == {"rm_unregister", "rm_locked", "rm_irq", "rm_region", "rm_unmap", "rm_power",
               "oops"}
RegisteredSpan == PhySpan \cup EarlySpan \cup
    {"err_out_unregister_bus_3", "err_out_free_bus_2", "out_unregister_netdev_5",
     "out_locked", "rm_null", "rm_bus", "rm_free_bus", "rm_drvdata", "rm_unregister",
     "rm_locked"}
IrqSpan == RegisteredSpan \cup {"register", "out_free_irq", "rm_irq"}
PowerSpan == IrqSpan \cup LateRemove \cup {"config", "init", "irq", "out_disable_resources"}
MapSpan == IrqSpan \cup {"init", "irq", "rm_region", "rm_unmap"}
MapMay == MapSpan \cup {"regulators", "power", "config", "out_disable_resources",
                        "out_enable_resources_fail", "out_request_resources_fail"}

HeldInv ==
    /\ pc # "rm_regulators"
    /\ "region" \in held <=> pc \notin {"unbound", "rm_unmap", "rm_power", "oops"}
    /\ "netdev" \in held <=> pc \notin {"unbound", "alloc", "out_release_io_1"}
    /\ pc \in MapSpan => "map" \in held
    /\ "map" \in held => pc \in MapMay
    /\ "regulators" \in held <=> pc \in PowerSpan \cup {"power", "out_enable_resources_fail"}
    /\ "power" \in held <=> pc \in PowerSpan
    /\ pc \in IrqSpan \cup LateRemove \cup {"irq"} => "init" \in held
    /\ "init" \in held => "netdev" \in held
    /\ "irq" \in held <=> pc \in IrqSpan
    /\ "registered" \in held <=> pc \in RegisteredSpan
    /\ "bus" \in held <=>
         pc \in BusSpan \cup {"ext_phy", "mdio_register", "err_out_free_bus_2", "rm_free_bus"}
    /\ "bus_registered" \in held <=> pc \in BusSpan

\* drvdata is there for the labels, and gone for remove's last statements.
DrvdataInv ==
    drvdata <=> pc \notin LateRemove \cup {"unbound", "alloc", "map", "out_free_netdev",
                                          "out_release_io_1"}

\* The PHY and its state machine, which only a failed loopback test orphans.
MachineInv ==
    /\ "machine" \in held <=> "phy" \in held
    /\ pc \in PhySpan \cup {"phy_dev"} => "phy" \in held
    /\ "phy" \in held =>
         pc \in PhySpan \cup {"phy_dev"} \/ (pc = "err_out_unregister_bus_3" /\ failed)
    /\ "orphan" \in held => failed
    /\ failed =>
         "orphan" \in held \/ (pc = "err_out_unregister_bus_3" /\ "machine" \in held)

\* When pdata->phy_dev is set, and that the interface cannot be up before.
PhyInv ==
    /\ pc \in PhySpan => phyDev
    /\ pc \in EarlySpan \cup {"map", "regulators", "power", "config", "init", "irq",
                              "register"} => ~phyDev
    /\ pc \in RemovePcs \ {"rm_null"} => ~phyDev
    /\ phyDev /\ pc \in OutPcs \ {"out_release_io_1"} => failed
    /\ phyDev /\ pc = "err_out_unregister_bus_3" => "phy" \in held
    /\ pc \in EarlySpan => ~up /\ user \in {"idle", "gset", "set_hw"}
    /\ pc \in {"irq", "register", "mdio_alloc", "ext_phy"} => ~mac
    /\ up \/ user \in {"open", "phy_start", "stop", "phy_stop", "ioctl"} =>
         phyDev \/ pc \in RemovePcs

\* The user's calls.
UserInv ==
    /\ up \/ user # "idle" => pc \in RegisteredSpan
    /\ user \in {"open", "phy_start"} => ~up /\ addr # "none"
    /\ user \in {"stop", "phy_stop", "ioctl"} => up
    /\ pc \in {"out_locked", "rm_locked"} =>
         user \in {"idle", "stop", "phy_stop"} /\ (user = "idle" => ~up)
    /\ pc = "rm_locked" => user # "phy_stop"

\* The address.
AddrInv ==
    /\ up \/ user = "set_hw" => addr # "none"
    /\ user = "phy_start" => hw = addr
    /\ up /\ user # "set_hw" => hw = addr

\* The inductive invariant: what is held, set and running at every statement of
\* probe, of its labels and of remove, and at every point of a user's call.
IInv == TypeOK /\ HeldInv /\ DrvdataInv /\ MachineInv /\ PhyInv /\ UserInv /\ AddrInv

-----------------------------------------------------------------------------
(* The invariant is inductive. Each action has a step for the types, one    *)
(* for the parts it preserves on their own, and one for every part that     *)
(* rests on others.                                                         *)

\* Every step of Probe preserves the invariant.
LEMMA IInv_Probe == IInv /\ Probe => IInv'
  <1> SUFFICES ASSUME IInv, Probe PROVE IInv'
    OBVIOUS
  <1> USE DEF IInv, PhySpan, BusSpan, EarlySpan, LateRemove, RegisteredSpan, IrqSpan, PowerSpan,
              MapSpan, MapMay, ProbePcs, OutPcs, RemovePcs
  <1>1. CASE ProbeRegion
    <2> USE <1>1 DEF ProbeRegion
    <2>1. TypeOK'
      BY DEF TypeOK, Resources
    <2>2. (HeldInv /\ DrvdataInv /\ MachineInv /\ PhyInv /\ UserInv /\ AddrInv)'
      BY DEF HeldInv, DrvdataInv, MachineInv, PhyInv, UserInv, AddrInv
    <2> QED BY <2>1, <2>2
  <1>2. CASE ProbeAlloc
    <2> USE <1>2 DEF ProbeAlloc
    <2>1. TypeOK'
      <3>1. pc' \in ProbePcs \cup OutPcs \cup RemovePcs
        BY DEF TypeOK
      <3>2. held' \in SUBSET Resources
        BY DEF TypeOK, Resources
      <3>3. phyDev' \in BOOLEAN
        BY DEF TypeOK
      <3>4. addr' \in Addresses
        BY DEF TypeOK, Addresses
      <3> QED BY <3>1, <3>2, <3>3, <3>4 DEF TypeOK
    <2>2. (HeldInv /\ DrvdataInv /\ MachineInv /\ PhyInv /\ UserInv)'
      BY DEF HeldInv, DrvdataInv, MachineInv, PhyInv, UserInv
    <2>3. AddrInv'
      BY DEF AddrInv, UserInv
    <2> QED BY <2>1, <2>2, <2>3
  <1>3. CASE ProbeMap
    <2> USE <1>3 DEF ProbeMap
    <2>1. TypeOK'
      <3>1. held' \in SUBSET Resources
        BY DEF TypeOK, Resources
      <3> QED BY <3>1 DEF TypeOK
    <2>2. (HeldInv /\ DrvdataInv /\ MachineInv /\ PhyInv /\ UserInv /\ AddrInv)'
      BY DEF HeldInv, DrvdataInv, MachineInv, PhyInv, UserInv, AddrInv
    <2> QED BY <2>1, <2>2
  <1>4. CASE ProbeRegulators
    <2> USE <1>4 DEF ProbeRegulators, Acquire, AcquireAll
    <2>1. TypeOK'
      <3>1. pc' \in ProbePcs \cup OutPcs \cup RemovePcs
        BY DEF TypeOK
      <3>2. held' \in SUBSET Resources
        BY DEF TypeOK, Resources
      <3> QED BY <3>1, <3>2 DEF TypeOK
    <2>2. (HeldInv /\ DrvdataInv /\ MachineInv /\ PhyInv /\ UserInv /\ AddrInv)'
      BY DEF HeldInv, DrvdataInv, MachineInv, PhyInv, UserInv, AddrInv
    <2> QED BY <2>1, <2>2
  <1>5. CASE ProbePower
    <2> USE <1>5 DEF ProbePower, Acquire, AcquireAll
    <2>1. TypeOK'
      <3>1. pc' \in ProbePcs \cup OutPcs \cup RemovePcs
        BY DEF TypeOK
      <3>2. held' \in SUBSET Resources
        BY DEF TypeOK, Resources
      <3> QED BY <3>1, <3>2 DEF TypeOK
    <2>2. (HeldInv /\ DrvdataInv /\ MachineInv /\ PhyInv /\ UserInv /\ AddrInv)'
      BY DEF HeldInv, DrvdataInv, MachineInv, PhyInv, UserInv, AddrInv
    <2> QED BY <2>1, <2>2
  <1>6. CASE ProbeConfig
    <2> USE <1>6 DEF ProbeConfig
    <2>1. TypeOK'
      BY DEF TypeOK
    <2>2. (HeldInv /\ DrvdataInv /\ MachineInv /\ PhyInv /\ UserInv /\ AddrInv)'
      BY DEF HeldInv, DrvdataInv, MachineInv, PhyInv, UserInv, AddrInv
    <2> QED BY <2>1, <2>2
  <1>7. CASE ProbeInit
    <2> USE <1>7 DEF ProbeInit
    <2>1. TypeOK'
      <3>1. pc' \in ProbePcs \cup OutPcs \cup RemovePcs
        BY DEF TypeOK
      <3>2. held' \in SUBSET Resources
        BY DEF TypeOK, Resources
      <3>3. addr' \in Addresses
        BY DEF TypeOK, Addresses
      <3>4. hw' \in Addresses
        BY ProbeAssumption DEF TypeOK, Addresses
      <3>5. mac' \in BOOLEAN
        BY DEF TypeOK
      <3> QED BY <3>1, <3>2, <3>3, <3>4, <3>5 DEF TypeOK
    <2>2. (HeldInv /\ DrvdataInv /\ MachineInv /\ PhyInv /\ UserInv)'
      BY DEF HeldInv, DrvdataInv, MachineInv, PhyInv, UserInv
    <2>3. AddrInv'
      BY DEF AddrInv, UserInv
    <2> QED BY <2>1, <2>2, <2>3
  <1>8. CASE ProbeIrq
    <2> USE <1>8 DEF ProbeIrq, Acquire, AcquireAll
    <2>1. TypeOK'
      <3>1. pc' \in ProbePcs \cup OutPcs \cup RemovePcs
        BY DEF TypeOK
      <3>2. held' \in SUBSET Resources
        BY DEF TypeOK, Resources
      <3> QED BY <3>1, <3>2 DEF TypeOK
    <2>2. (HeldInv /\ DrvdataInv /\ MachineInv /\ PhyInv /\ UserInv /\ AddrInv)'
      BY DEF HeldInv, DrvdataInv, MachineInv, PhyInv, UserInv, AddrInv
    <2> QED BY <2>1, <2>2
  <1>9. CASE ProbeRegister
    <2> USE <1>9 DEF ProbeRegister, Acquire, AcquireAll
    <2>1. TypeOK'
      <3>1. pc' \in ProbePcs \cup OutPcs \cup RemovePcs
        BY DEF TypeOK
      <3>2. held' \in SUBSET Resources
        BY DEF TypeOK, Resources
      <3> QED BY <3>1, <3>2 DEF TypeOK
    <2>2. (HeldInv /\ DrvdataInv /\ MachineInv /\ UserInv /\ AddrInv)'
      BY DEF HeldInv, DrvdataInv, MachineInv, UserInv, AddrInv
    <2>3. PhyInv'
      BY DEF PhyInv, UserInv
    <2> QED BY <2>1, <2>2, <2>3
  <1>10. CASE MiiAlloc
    <2> USE <1>10 DEF MiiAlloc, Acquire, AcquireAll
    <2>1. TypeOK'
      <3>1. pc' \in ProbePcs \cup OutPcs \cup RemovePcs
        BY DEF TypeOK
      <3>2. held' \in SUBSET Resources
        BY DEF TypeOK, Resources
      <3> QED BY <3>1, <3>2 DEF TypeOK
    <2>2. (HeldInv /\ DrvdataInv /\ MachineInv /\ PhyInv /\ UserInv /\ AddrInv)'
      BY DEF HeldInv, DrvdataInv, MachineInv, PhyInv, UserInv, AddrInv
    <2> QED BY <2>1, <2>2
  <1>11. CASE MiiExternal
    <2> USE <1>11 DEF MiiExternal
    <2>1. TypeOK'
      BY DEF TypeOK
    <2>2. (HeldInv /\ DrvdataInv /\ MachineInv /\ PhyInv /\ UserInv /\ AddrInv)'
      BY DEF HeldInv, DrvdataInv, MachineInv, PhyInv, UserInv, AddrInv
    <2> QED BY <2>1, <2>2
  <1>12. CASE MiiRegister
    <2> USE <1>12 DEF MiiRegister, Acquire, AcquireAll
    <2>1. TypeOK'
      <3>1. pc' \in ProbePcs \cup OutPcs \cup RemovePcs
        BY DEF TypeOK
      <3>2. held' \in SUBSET Resources
        BY DEF TypeOK, Resources
      <3> QED BY <3>1, <3>2 DEF TypeOK
    <2>2. (HeldInv /\ DrvdataInv /\ MachineInv /\ PhyInv /\ UserInv /\ AddrInv)'
      BY DEF HeldInv, DrvdataInv, MachineInv, PhyInv, UserInv, AddrInv
    <2> QED BY <2>1, <2>2
  <1>13. CASE MiiConnect
    <2> USE <1>13 DEF MiiConnect, AcquireAll
    <2>1. TypeOK'
      <3>1. pc' \in ProbePcs \cup OutPcs \cup RemovePcs
        BY DEF TypeOK
      <3>2. held' \in SUBSET Resources
        BY DEF TypeOK, Resources
      <3> QED BY <3>1, <3>2 DEF TypeOK
    <2>2. (HeldInv /\ DrvdataInv /\ MachineInv /\ UserInv /\ AddrInv)'
      BY DEF HeldInv, DrvdataInv, MachineInv, UserInv, AddrInv
    <2>3. PhyInv'
      BY DEF PhyInv, MachineInv
    <2> QED BY <2>1, <2>2, <2>3
  <1>14. CASE MiiPhyDev
    <2> USE <1>14 DEF MiiPhyDev
    <2>1. TypeOK'
      BY DEF TypeOK
    <2>2. (HeldInv /\ DrvdataInv /\ MachineInv /\ PhyInv /\ UserInv /\ AddrInv)'
      BY DEF HeldInv, DrvdataInv, MachineInv, PhyInv, UserInv, AddrInv
    <2> QED BY <2>1, <2>2
  <1>15. CASE LoopbackOn
    <2> USE <1>15 DEF LoopbackOn
    <2>1. TypeOK'
      BY DEF TypeOK
    <2>2. (HeldInv /\ DrvdataInv /\ MachineInv /\ PhyInv /\ UserInv /\ AddrInv)'
      BY DEF HeldInv, DrvdataInv, MachineInv, PhyInv, UserInv, AddrInv
    <2> QED BY <2>1, <2>2
  <1>16. CASE LoopbackRetry
    <2> USE <1>16 DEF LoopbackRetry
    <2>1. TypeOK'
      BY DEF TypeOK
    <2>2. (HeldInv /\ DrvdataInv /\ MachineInv /\ PhyInv /\ UserInv /\ AddrInv)'
      BY DEF HeldInv, DrvdataInv, MachineInv, PhyInv, UserInv, AddrInv
    <2> QED BY <2>1, <2>2
  <1>17. CASE LoopbackOff
    <2> USE <1>17 DEF LoopbackOff
    <2>1. TypeOK'
      <3>1. pc' \in ProbePcs \cup OutPcs \cup RemovePcs
        BY DEF TypeOK
      <3>2. mac' \in BOOLEAN
        BY DEF TypeOK
      <3>3. failed' \in BOOLEAN
        BY DEF TypeOK
      <3> QED BY <3>1, <3>2, <3>3 DEF TypeOK
    <2>2. (HeldInv /\ DrvdataInv /\ MachineInv /\ UserInv /\ AddrInv)'
      BY DEF HeldInv, DrvdataInv, MachineInv, UserInv, AddrInv
    <2>3. PhyInv'
      BY DEF PhyInv, MachineInv
    <2> QED BY <2>1, <2>2, <2>3
  <1>18. CASE ProbeAddress
    <2> USE <1>18 DEF ProbeAddress
    <2>1. TypeOK'
      BY DEF TypeOK, Addresses
    <2>2. (HeldInv /\ DrvdataInv /\ MachineInv /\ PhyInv /\ UserInv)'
      BY DEF HeldInv, DrvdataInv, MachineInv, PhyInv, UserInv
    <2>3. AddrInv'
      BY DEF AddrInv, UserInv
    <2> QED BY <2>1, <2>2, <2>3
  <1> QED BY <1>1, <1>2, <1>3, <1>4, <1>5, <1>6, <1>7, <1>8, <1>9, <1>10, <1>11, <1>12, <1>13,
     <1>14, <1>15, <1>16, <1>17, <1>18 DEF Probe

\* Every step of Out preserves the invariant.
LEMMA IInv_Out == IInv /\ Out => IInv'
  <1> SUFFICES ASSUME IInv, Out PROVE IInv'
    OBVIOUS
  <1> USE DEF IInv, PhySpan, BusSpan, EarlySpan, LateRemove, RegisteredSpan, IrqSpan, PowerSpan,
              MapSpan, MapMay, ProbePcs, OutPcs, RemovePcs
  <1>1. CASE OutBus
    <2> USE <1>1 DEF OutBus, UnregisterBus
    <2>1. TypeOK'
      <3>1. pc' \in ProbePcs \cup OutPcs \cup RemovePcs
        BY DEF TypeOK
      <3>2. held' \in SUBSET Resources
        BY DEF TypeOK, Resources
      <3> QED BY <3>1, <3>2 DEF TypeOK
    <2>2. (HeldInv /\ DrvdataInv /\ UserInv /\ AddrInv)'
      BY DEF HeldInv, DrvdataInv, UserInv, AddrInv
    <2>3. MachineInv'
      BY DEF MachineInv, HeldInv
    <2>4. PhyInv'
      BY DEF PhyInv, MachineInv
    <2> QED BY <2>1, <2>2, <2>3, <2>4
  <1>2. CASE OutFreeBus
    <2> USE <1>2 DEF OutFreeBus, Release
    <2>1. TypeOK'
      BY DEF TypeOK
    <2>2. (HeldInv /\ DrvdataInv /\ MachineInv /\ PhyInv /\ UserInv /\ AddrInv)'
      BY DEF HeldInv, DrvdataInv, MachineInv, PhyInv, UserInv, AddrInv
    <2> QED BY <2>1, <2>2
  <1>3. CASE OutLock
    <2> USE <1>3 DEF OutLock, UnregisterLock
    <2>1. TypeOK'
      BY DEF TypeOK, UserPcs
    <2>2. (HeldInv /\ DrvdataInv /\ MachineInv /\ PhyInv /\ UserInv /\ AddrInv)'
      BY DEF HeldInv, DrvdataInv, MachineInv, PhyInv, UserInv, AddrInv
    <2> QED BY <2>1, <2>2
  <1>4. CASE OutUnregister
    <2> USE <1>4 DEF OutUnregister, Unregister, Release
    <2>1. TypeOK'
      BY DEF TypeOK
    <2>2. (HeldInv /\ DrvdataInv /\ MachineInv /\ PhyInv /\ UserInv /\ AddrInv)'
      BY DEF HeldInv, DrvdataInv, MachineInv, PhyInv, UserInv, AddrInv
    <2> QED BY <2>1, <2>2
  <1>5. CASE OutIrq
    <2> USE <1>5 DEF OutIrq, Release
    <2>1. TypeOK'
      BY DEF TypeOK
    <2>2. (HeldInv /\ DrvdataInv /\ MachineInv /\ PhyInv /\ UserInv /\ AddrInv)'
      BY DEF HeldInv, DrvdataInv, MachineInv, PhyInv, UserInv, AddrInv
    <2> QED BY <2>1, <2>2
  <1>6. CASE OutPower
    <2> USE <1>6 DEF OutPower, ReleaseSupplies
    <2>1. TypeOK'
      <3>1. pc' \in ProbePcs \cup OutPcs \cup RemovePcs
        BY DEF TypeOK
      <3>2. held' \in SUBSET Resources
        BY DEF TypeOK, Resources
      <3> QED BY <3>1, <3>2 DEF TypeOK
    <2>2. (DrvdataInv /\ AddrInv)'
      BY DEF DrvdataInv, AddrInv
    <2>3. HeldInv'
      BY DEF HeldInv, DrvdataInv
    <2>4. MachineInv'
      BY DEF MachineInv, DrvdataInv
    <2>5. PhyInv'
      BY DEF PhyInv, DrvdataInv
    <2>6. UserInv'
      BY DEF UserInv, DrvdataInv
    <2> QED BY <2>1, <2>2, <2>3, <2>4, <2>5, <2>6
  <1>7. CASE OutRegulators
    <2> USE <1>7 DEF OutRegulators, ReleaseSupplies
    <2>1. TypeOK'
      <3>1. pc' \in ProbePcs \cup OutPcs \cup RemovePcs
        BY DEF TypeOK
      <3>2. held' \in SUBSET Resources
        BY DEF TypeOK, Resources
      <3> QED BY <3>1, <3>2 DEF TypeOK
    <2>2. (DrvdataInv /\ AddrInv)'
      BY DEF DrvdataInv, AddrInv
    <2>3. HeldInv'
      BY DEF HeldInv, DrvdataInv
    <2>4. MachineInv'
      BY DEF MachineInv, DrvdataInv
    <2>5. PhyInv'
      BY DEF PhyInv, DrvdataInv
    <2>6. UserInv'
      BY DEF UserInv, DrvdataInv
    <2> QED BY <2>1, <2>2, <2>3, <2>4, <2>5, <2>6
  <1>8. CASE OutUnmap
    <2> USE <1>8 DEF OutUnmap
    <2>1. TypeOK'
      BY DEF TypeOK
    <2>2. (HeldInv /\ DrvdataInv /\ MachineInv /\ PhyInv /\ UserInv /\ AddrInv)'
      BY DEF HeldInv, DrvdataInv, MachineInv, PhyInv, UserInv, AddrInv
    <2> QED BY <2>1, <2>2
  <1>9. CASE OutNetdev
    <2> USE <1>9 DEF OutNetdev
    <2>1. TypeOK'
      BY DEF TypeOK
    <2>2. (HeldInv /\ DrvdataInv /\ MachineInv /\ PhyInv /\ UserInv /\ AddrInv)'
      BY DEF HeldInv, DrvdataInv, MachineInv, PhyInv, UserInv, AddrInv
    <2> QED BY <2>1, <2>2
  <1>10. CASE OutRegion
    <2> USE <1>10 DEF OutRegion, Release
    <2>1. TypeOK'
      BY DEF TypeOK
    <2>2. (HeldInv /\ DrvdataInv /\ MachineInv /\ PhyInv /\ UserInv /\ AddrInv)'
      BY DEF HeldInv, DrvdataInv, MachineInv, PhyInv, UserInv, AddrInv
    <2> QED BY <2>1, <2>2
  <1> QED BY <1>1, <1>2, <1>3, <1>4, <1>5, <1>6, <1>7, <1>8, <1>9, <1>10 DEF Out

\* Every step of Remove preserves the invariant.
LEMMA IInv_Remove == IInv /\ Remove => IInv'
  <1> SUFFICES ASSUME IInv, Remove PROVE IInv'
    OBVIOUS
  <1> USE DEF IInv, PhySpan, BusSpan, EarlySpan, LateRemove, RegisteredSpan, IrqSpan, PowerSpan,
              MapSpan, MapMay, ProbePcs, OutPcs, RemovePcs
  <1>1. CASE RemovePhy
    <2> USE <1>1 DEF RemovePhy
    <2>1. TypeOK'
      BY DEF TypeOK
    <2>2. (HeldInv /\ DrvdataInv /\ MachineInv /\ PhyInv /\ UserInv /\ AddrInv)'
      BY DEF HeldInv, DrvdataInv, MachineInv, PhyInv, UserInv, AddrInv
    <2> QED BY <2>1, <2>2
  <1>2. CASE RemoveNull
    <2> USE <1>2 DEF RemoveNull
    <2>1. TypeOK'
      BY DEF TypeOK
    <2>2. (HeldInv /\ DrvdataInv /\ MachineInv /\ PhyInv /\ UserInv /\ AddrInv)'
      BY DEF HeldInv, DrvdataInv, MachineInv, PhyInv, UserInv, AddrInv
    <2> QED BY <2>1, <2>2
  <1>3. CASE RemoveBus
    <2> USE <1>3 DEF RemoveBus, UnregisterBus
    <2>1. TypeOK'
      <3>1. pc' \in ProbePcs \cup OutPcs \cup RemovePcs
        BY DEF TypeOK
      <3>2. held' \in SUBSET Resources
        BY DEF TypeOK, Resources
      <3> QED BY <3>1, <3>2 DEF TypeOK
    <2>2. (HeldInv /\ DrvdataInv /\ MachineInv /\ UserInv /\ AddrInv)'
      BY DEF HeldInv, DrvdataInv, MachineInv, UserInv, AddrInv
    <2>3. PhyInv'
      BY DEF PhyInv, MachineInv
    <2> QED BY <2>1, <2>2, <2>3
  <1>4. CASE RemoveFreeBus
    <2> USE <1>4 DEF RemoveFreeBus, Release
    <2>1. TypeOK'
      BY DEF TypeOK
    <2>2. (HeldInv /\ DrvdataInv /\ MachineInv /\ PhyInv /\ UserInv /\ AddrInv)'
      BY DEF HeldInv, DrvdataInv, MachineInv, PhyInv, UserInv, AddrInv
    <2> QED BY <2>1, <2>2
  <1>5. CASE RemoveDrvdata
    <2> USE <1>5 DEF RemoveDrvdata
    <2>1. TypeOK'
      BY DEF TypeOK
    <2>2. (HeldInv /\ DrvdataInv /\ MachineInv /\ PhyInv /\ UserInv /\ AddrInv)'
      BY DEF HeldInv, DrvdataInv, MachineInv, PhyInv, UserInv, AddrInv
    <2> QED BY <2>1, <2>2
  <1>6. CASE RemoveLock
    <2> USE <1>6 DEF RemoveLock, UnregisterLock
    <2>1. TypeOK'
      BY DEF TypeOK, UserPcs
    <2>2. (HeldInv /\ DrvdataInv /\ MachineInv /\ PhyInv /\ UserInv /\ AddrInv)'
      BY DEF HeldInv, DrvdataInv, MachineInv, PhyInv, UserInv, AddrInv
    <2> QED BY <2>1, <2>2
  <1>7. CASE RemoveUnregister
    <2> USE <1>7 DEF RemoveUnregister, Unregister, Release
    <2>1. TypeOK'
      BY DEF TypeOK
    <2>2. (HeldInv /\ DrvdataInv /\ MachineInv /\ PhyInv /\ UserInv /\ AddrInv)'
      BY DEF HeldInv, DrvdataInv, MachineInv, PhyInv, UserInv, AddrInv
    <2> QED BY <2>1, <2>2
  <1>8. CASE RemoveIrq
    <2> USE <1>8 DEF RemoveIrq, Release
    <2>1. TypeOK'
      BY DEF TypeOK
    <2>2. (HeldInv /\ DrvdataInv /\ MachineInv /\ PhyInv /\ UserInv /\ AddrInv)'
      BY DEF HeldInv, DrvdataInv, MachineInv, PhyInv, UserInv, AddrInv
    <2> QED BY <2>1, <2>2
  <1>9. CASE RemoveRegion
    <2> USE <1>9 DEF RemoveRegion, Release
    <2>1. TypeOK'
      BY DEF TypeOK
    <2>2. (HeldInv /\ DrvdataInv /\ MachineInv /\ PhyInv /\ UserInv /\ AddrInv)'
      BY DEF HeldInv, DrvdataInv, MachineInv, PhyInv, UserInv, AddrInv
    <2> QED BY <2>1, <2>2
  <1>10. CASE RemoveUnmap
    <2> USE <1>10 DEF RemoveUnmap, Release
    <2>1. TypeOK'
      BY DEF TypeOK
    <2>2. (HeldInv /\ DrvdataInv /\ MachineInv /\ PhyInv /\ UserInv /\ AddrInv)'
      BY DEF HeldInv, DrvdataInv, MachineInv, PhyInv, UserInv, AddrInv
    <2> QED BY <2>1, <2>2
  <1>11. CASE RemovePower
    <2> USE <1>11 DEF RemovePower, ReleaseSupplies
    <2>1. TypeOK'
      <3>1. pc' \in ProbePcs \cup OutPcs \cup RemovePcs
        BY DEF TypeOK
      <3>2. held' \in SUBSET Resources
        BY DEF TypeOK, Resources
      <3> QED BY <3>1, <3>2 DEF TypeOK
    <2>2. (DrvdataInv /\ AddrInv)'
      BY DEF DrvdataInv, AddrInv
    <2>3. HeldInv'
      BY DEF HeldInv, DrvdataInv
    <2>4. MachineInv'
      BY DEF MachineInv, DrvdataInv
    <2>5. PhyInv'
      BY DEF PhyInv, DrvdataInv
    <2>6. UserInv'
      BY DEF UserInv, DrvdataInv
    <2> QED BY <2>1, <2>2, <2>3, <2>4, <2>5, <2>6
  <1> QED BY <1>1, <1>2, <1>3, <1>4, <1>5, <1>6, <1>7, <1>8, <1>9, <1>10, <1>11 DEF Remove

\* Every step of User preserves the invariant.
LEMMA IInv_User == IInv /\ User => IInv'
  <1> SUFFICES ASSUME IInv, User PROVE IInv'
    OBVIOUS
  <1> USE DEF IInv, PhySpan, BusSpan, EarlySpan, LateRemove, RegisteredSpan, IrqSpan, PowerSpan,
              MapSpan, MapMay, ProbePcs, OutPcs, RemovePcs
  <1>1. CASE UserOpen
    <2> USE <1>1 DEF UserOpen, UserMay, OpenAllowed
    <2>1. TypeOK'
      BY DEF TypeOK, UserPcs
    <2>2. (HeldInv /\ DrvdataInv /\ MachineInv /\ AddrInv)'
      BY DEF HeldInv, DrvdataInv, MachineInv, AddrInv
    <2>3. PhyInv'
      BY DEF PhyInv, HeldInv
    <2>4. UserInv'
      BY DEF UserInv, HeldInv
    <2> QED BY <2>1, <2>2, <2>3, <2>4
  <1>2. CASE UserOpenReset
    <2> USE <1>2 DEF UserOpenReset
    <2>1. TypeOK'
      <3>1. user' \in UserPcs
        BY DEF TypeOK, UserPcs
      <3>2. hw' \in Addresses
        BY ProbeAssumption DEF TypeOK, Addresses
      <3>3. mac' \in BOOLEAN
        BY DEF TypeOK
      <3> QED BY <3>1, <3>2, <3>3 DEF TypeOK
    <2>2. (HeldInv /\ DrvdataInv /\ MachineInv /\ PhyInv /\ UserInv)'
      BY DEF HeldInv, DrvdataInv, MachineInv, PhyInv, UserInv
    <2>3. AddrInv'
      BY DEF AddrInv, UserInv
    <2> QED BY <2>1, <2>2, <2>3
  <1>3. CASE UserPhyStart
    <2> USE <1>3 DEF UserPhyStart
    <2>1. TypeOK'
      BY DEF TypeOK, UserPcs
    <2>2. (HeldInv /\ DrvdataInv /\ MachineInv /\ UserInv)'
      BY DEF HeldInv, DrvdataInv, MachineInv, UserInv
    <2>3. PhyInv'
      BY DEF PhyInv, UserInv
    <2>4. AddrInv'
      BY DEF AddrInv, UserInv
    <2> QED BY <2>1, <2>2, <2>3, <2>4
  <1>4. CASE UserStop
    <2> USE <1>4 DEF UserStop, UserMay
    <2>1. TypeOK'
      BY DEF TypeOK, UserPcs
    <2>2. (HeldInv /\ DrvdataInv /\ MachineInv /\ PhyInv /\ UserInv /\ AddrInv)'
      BY DEF HeldInv, DrvdataInv, MachineInv, PhyInv, UserInv, AddrInv
    <2> QED BY <2>1, <2>2
  <1>5. CASE StopCheck
    <2> USE <1>5 DEF StopCheck
    <2>1. TypeOK'
      <3>1. user' \in UserPcs
        BY DEF TypeOK, UserPcs
      <3>2. up' \in BOOLEAN
        BY DEF TypeOK
      <3> QED BY <3>1, <3>2 DEF TypeOK
    <2>2. (HeldInv /\ DrvdataInv /\ MachineInv /\ PhyInv /\ AddrInv)'
      BY DEF HeldInv, DrvdataInv, MachineInv, PhyInv, AddrInv
    <2>3. UserInv'
      BY DEF UserInv, PhyInv
    <2> QED BY <2>1, <2>2, <2>3
  <1>6. CASE StopPhy
    <2> USE <1>6 DEF StopPhy
    <2>1. TypeOK'
      <3>1. user' \in UserPcs
        BY DEF TypeOK, UserPcs
      <3>2. up' \in BOOLEAN
        BY DEF TypeOK
      <3> QED BY <3>1, <3>2 DEF TypeOK
    <2>2. (HeldInv /\ DrvdataInv /\ MachineInv /\ PhyInv /\ UserInv /\ AddrInv)'
      BY DEF HeldInv, DrvdataInv, MachineInv, PhyInv, UserInv, AddrInv
    <2> QED BY <2>1, <2>2
  <1>7. CASE UserIoctl
    <2> USE <1>7 DEF UserIoctl, UserMay
    <2>1. TypeOK'
      BY DEF TypeOK, UserPcs
    <2>2. (HeldInv /\ DrvdataInv /\ MachineInv /\ PhyInv /\ UserInv /\ AddrInv)'
      BY DEF HeldInv, DrvdataInv, MachineInv, PhyInv, UserInv, AddrInv
    <2> QED BY <2>1, <2>2
  <1>8. CASE UserGetSettings
    <2> USE <1>8 DEF UserGetSettings, UserMay
    <2>1. TypeOK'
      BY DEF TypeOK, UserPcs
    <2>2. (HeldInv /\ DrvdataInv /\ MachineInv /\ PhyInv /\ AddrInv)'
      BY DEF HeldInv, DrvdataInv, MachineInv, PhyInv, AddrInv
    <2>3. UserInv'
      BY DEF UserInv, HeldInv
    <2> QED BY <2>1, <2>2, <2>3
  <1>9. CASE UserPhyDone
    <2> USE <1>9 DEF UserPhyDone
    <2>1. TypeOK'
      BY DEF TypeOK, UserPcs
    <2>2. (HeldInv /\ DrvdataInv /\ MachineInv /\ PhyInv /\ UserInv /\ AddrInv)'
      BY DEF HeldInv, DrvdataInv, MachineInv, PhyInv, UserInv, AddrInv
    <2> QED BY <2>1, <2>2
  <1>10. CASE UserSetMac
    <2> USE <1>10 DEF UserSetMac, UserMay, SetMacAllowed
    <2>1. TypeOK'
      BY DEF TypeOK, UserPcs, Addresses
    <2>2. (HeldInv /\ DrvdataInv /\ MachineInv /\ PhyInv /\ AddrInv)'
      BY DEF HeldInv, DrvdataInv, MachineInv, PhyInv, AddrInv
    <2>3. UserInv'
      BY DEF UserInv, HeldInv
    <2> QED BY <2>1, <2>2, <2>3
  <1>11. CASE UserSetHw
    <2> USE <1>11 DEF UserSetHw
    <2>1. TypeOK'
      BY DEF TypeOK, UserPcs
    <2>2. (HeldInv /\ DrvdataInv /\ MachineInv /\ PhyInv /\ UserInv /\ AddrInv)'
      BY DEF HeldInv, DrvdataInv, MachineInv, PhyInv, UserInv, AddrInv
    <2> QED BY <2>1, <2>2
  <1> QED BY <1>1, <1>2, <1>3, <1>4, <1>5, <1>6, <1>7, <1>8, <1>9, <1>10, <1>11 DEF User

\* The initial states satisfy the invariant.
LEMMA InitIInv == Init => IInv
  BY DEF Init, IInv, TypeOK, HeldInv, DrvdataInv, MachineInv, PhyInv, UserInv, AddrInv, Resources,
         Addresses, ProbePcs, OutPcs, RemovePcs, UserPcs, PhySpan, BusSpan, EarlySpan, LateRemove,
         RegisteredSpan, IrqSpan, PowerSpan, MapSpan, MapMay

\* The invariant is inductive.
LEMMA NextIInv == IInv /\ [Next]_vars => IInv'
  <1> SUFFICES ASSUME IInv, [Next]_vars PROVE IInv'
    OBVIOUS
  <1>1. CASE Next
    BY <1>1, IInv_Probe, IInv_Out, IInv_Remove, IInv_User DEF Next
  <1>2. CASE UNCHANGED vars
    BY <1>2 DEF vars, IInv, TypeOK, HeldInv, DrvdataInv, MachineInv, PhyInv, UserInv, AddrInv
  <1> QED BY <1>1, <1>2

-----------------------------------------------------------------------------
(* Theorems.                                                                *)

\* The inductive invariant holds in every reachable state.
THEOREM Invariance == Spec => []IInv
  BY InitIInv, NextIInv, PTL DEF Spec

\* Whenever the handler is installed, what it uses is there: the order of
\* request_irq and free_irq in probe, its labels and remove.
THEOREM HandlerAlwaysSafe == Spec => []IrqSafe
  <1>1. IInv => IrqSafe
    BY DEF IInv, HeldInv, IrqSafe, IrqSpan, MapSpan, PowerSpan, RegisteredSpan, PhySpan, EarlySpan
  <1> QED BY <1>1, Invariance, PTL

\* No user's call, and no running interface, outlives what it uses.
THEOREM UserAlwaysSafe == Spec => []UserSafe
  <1>1. IInv => UserSafe
    BY DEF IInv, HeldInv, UserInv, UserSafe, IrqSpan, MapSpan, PowerSpan, RegisteredSpan,
           PhySpan, EarlySpan
  <1> QED BY <1>1, Invariance, PTL

\* remove's BUG_ONs never fire.
THEOREM RemoveNeverBugs == Spec => []RemoveFindsPhy
  <1>1. IInv => RemoveFindsPhy
    BY DEF IInv, HeldInv, DrvdataInv, MachineInv, PhyInv, RemoveFindsPhy, IrqSpan, MapSpan,
           LateRemove, RegisteredSpan, PhySpan, EarlySpan
  <1> QED BY <1>1, Invariance, PTL

\* A running interface has its own address in the chip.
THEOREM AddressAlwaysInForce == Spec => []AddressInForce
  <1>1. IInv => AddressInForce
    BY DEF IInv, AddrInv, AddressInForce
  <1> QED BY <1>1, Invariance, PTL

\* The switch to an external PHY finds the MAC stopped.
THEOREM ExternalPhySwitchSafe == Spec => []ExternalPhyStopped
  <1>1. IInv => ExternalPhyStopped
    BY DEF IInv, PhyInv, ExternalPhyStopped, EarlySpan
  <1> QED BY <1>1, Invariance, PTL

\* What binding and unbinding leave behind, for every way in which probe can fail: an
\* orphaned state machine if and only if a loopback test has failed, and, when remove has
\* died, the power, the regulators and the net_device; nothing else.
THEOREM ExactlyLeftBehind == Spec => []LeftBehind
  <1>1. IInv => LeftBehind
    <2> SUFFICES ASSUME IInv, pc \in {"unbound", "oops"}
                 PROVE  held = (IF failed THEN {"orphan"} ELSE {})
                               \cup (IF pc = "oops" THEN {"netdev", "init", "regulators", "power"}
                                                    ELSE {})
      BY DEF LeftBehind
    <2> USE DEF PhySpan, BusSpan, EarlySpan, LateRemove, RegisteredSpan, IrqSpan, PowerSpan,
                MapSpan, MapMay
    <2>1. "orphan" \in held <=> failed
      BY DEF IInv, MachineInv
    <2>2. "phy" \notin held /\ "machine" \notin held
      BY DEF IInv, MachineInv
    <2>3. \A r \in Resources \ {"orphan", "phy", "machine"} :
            r \in held <=> pc = "oops" /\ r \in {"netdev", "init", "regulators", "power"}
      BY DEF IInv, HeldInv, Resources
    <2>4. held \subseteq Resources
      BY DEF IInv, TypeOK
    <2> QED BY <2>1, <2>2, <2>3, <2>4 DEF Resources
  <1> QED BY <1>1, Invariance, PTL

\* A PHY is dereferenced without being connected only in remove before unregister_netdev has
\* the rtnl lock, or on the unwinding of a failed loopback test.
THEOREM PhyGoneOnlyInTeardown == Spec => []PhyGoneOnlyThere
  <1>1. IInv => PhyGoneOnlyThere
    <2> SUFFICES ASSUME IInv, pc \notin PhyGonePcs,
                        user \in {"phy_start", "phy_stop", "ioctl"} \/ (user = "gset" /\ phyDev)
                 PROVE  phyDev /\ {"phy", "bus_registered"} \subseteq held
      BY DEF PhyGoneOnlyThere
    <2>1. pc \in RegisteredSpan
      BY DEF IInv, UserInv
    <2>2. pc \notin RemovePcs
      BY <2>1 DEF IInv, PhyInv, UserInv, PhyGonePcs, RegisteredSpan, EarlySpan, PhySpan, RemovePcs
    <2>3. phyDev
      BY <2>2 DEF IInv, PhyInv
    <2>4. pc \in PhySpan \cup {"err_out_unregister_bus_3"}
      BY <2>1, <2>2, <2>3 DEF IInv, PhyInv, PhyGonePcs, RegisteredSpan, EarlySpan, PhySpan, OutPcs,
                              RemovePcs
    <2> QED BY <2>3, <2>4 DEF IInv, HeldInv, MachineInv, PhyInv, PhySpan, BusSpan
  <1> QED BY <1>1, Invariance, PTL

=============================================================================
