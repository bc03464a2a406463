------------------------------ MODULE SmscProbe ------------------------------
(***************************************************************************)
(* Binding and unbinding of the SMSC LAN911x driver (smsc911x_drv_probe    *)
(* with its unwinding, smsc911x_mii_init, smsc911x_drv_remove), next to    *)
(* the user-space calls that reach the interface while it is registered:   *)
(* open, stop, set_mac_address, the MII ioctl and ethtool's get_settings.  *)
(*                                                                         *)
(* The binding thread does not hold the rtnl lock, except inside           *)
(* unregister_netdev; the user's calls do. So a user call interleaves with *)
(* everything between register_netdev and unregister_netdev.               *)
(***************************************************************************)
EXTENDS FiniteSets

CONSTANTS
    Generation1,    \* TRUE for pdata->generation <= 1
    Removes,        \* TRUE when the device may be unbound while in use
    Ethtool,        \* TRUE when user space calls ethtool's get_settings
    Platform,       \* TRUE when the platform data may have a valid address
    Roms            \* what the chip may load as its address after a reset

ASSUME ProbeAssumption ==
    /\ Generation1 \in BOOLEAN /\ Removes \in BOOLEAN
    /\ Ethtool \in BOOLEAN /\ Platform \in BOOLEAN
    /\ Roms \subseteq {"none", "rom"}

VARIABLES
    pc,       \* where the binding thread is
    held,     \* what probe has acquired and nobody has released
    drvdata,  \* the platform device's drvdata is the net_device, not NULL
    phyDev,   \* pdata->phy_dev is not NULL
    user,     \* where the user's call is
    up,       \* netif_running
    addr,     \* dev->dev_addr: "none" while it is not a valid address
    hw,       \* ADDRH and ADDRL
    mac,      \* MAC_CR has TXEN and RXEN
    failed    \* history: a loopback test has failed

vars == <<pc, held, drvdata, phyDev, user, up, addr, hw, mac, failed>>

-----------------------------------------------------------------------------
\* "machine" is the PHY's state machine, a delayed work that reschedules itself;
\* "orphan" is that work when its phy_device has been freed under it.
Resources == {"region", "netdev", "map", "regulators", "power", "init", "irq",
              "registered", "bus", "bus_registered", "phy", "machine", "orphan"}

Addresses == {"none", "boot", "rom", "plat", "random", "user"}

\* probe's statements, then its labels, then remove's statements. "oops": the
\* kernel has killed the thread that ran remove.
ProbePcs == {"unbound", "alloc", "map", "regulators", "power", "config", "init", "irq",
             "register", "mdio_alloc", "ext_phy", "mdio_register", "connect", "phy_dev",
             "loopback", "loopback_end", "address", "bound"}
OutPcs == {"err_out_unregister_bus_3", "err_out_free_bus_2", "out_unregister_netdev_5",
           "out_locked", "out_free_irq", "out_disable_resources",
           "out_enable_resources_fail", "out_request_resources_fail", "out_free_netdev",
           "out_release_io_1"}
RemovePcs == {"rm_null", "rm_bus", "rm_free_bus", "rm_drvdata", "rm_unregister",
              "rm_locked", "rm_irq", "rm_region", "rm_unmap", "rm_power",
              "rm_regulators", "oops"}

UserPcs == {"idle", "open", "phy_start", "stop", "phy_stop", "ioctl", "gset", "set_hw"}

TypeOK ==
    /\ pc \in ProbePcs \cup OutPcs \cup RemovePcs
    /\ held \in SUBSET Resources
    /\ drvdata \in BOOLEAN /\ phyDev \in BOOLEAN
    /\ user \in UserPcs
    /\ up \in BOOLEAN
    /\ addr \in Addresses /\ hw \in Addresses
    /\ mac \in BOOLEAN /\ failed \in BOOLEAN

\* The boot loader may have left an address in the chip.
Init ==
    /\ pc = "unbound" /\ held = {} /\ drvdata = FALSE /\ phyDev = FALSE
    /\ user = "idle" /\ up = FALSE
    /\ addr = "none" /\ hw \in {"none", "boot"} /\ mac = FALSE
    /\ failed = FALSE

-----------------------------------------------------------------------------
(* smsc911x_drv_probe: each statement acquires something and goes on, or     *)
(* fails and jumps to its label.                                            *)

AcquireAll(at, R, next, out) ==
    /\ pc = at
    /\ \/ held' = held \cup R /\ pc' = next
       \/ pc' = out /\ UNCHANGED held
    /\ UNCHANGED <<drvdata, phyDev, user, up, addr, hw, mac, failed>>

Acquire(at, r, next, out) == AcquireAll(at, {r}, next, out)

\* request_mem_region; a failure leaves everything as it was.
ProbeRegion ==
    /\ pc = "unbound" /\ pc' = "alloc"
    /\ held' = held \cup {"region"}
    /\ UNCHANGED <<drvdata, phyDev, user, up, addr, hw, mac, failed>>

\* alloc_etherdev zeroes the device and the private data.
ProbeAlloc ==
    /\ pc = "alloc"
    /\ \/ /\ held' = held \cup {"netdev"} /\ pc' = "map"
          /\ phyDev' = FALSE /\ addr' = "none"
       \/ pc' = "out_release_io_1" /\ UNCHANGED <<held, phyDev, addr>>
    /\ UNCHANGED <<drvdata, user, up, hw, mac, failed>>

\* ioremap_nocache, whose result is looked at only in ProbeConfig, and
\* platform_set_drvdata.
ProbeMap ==
    /\ pc = "map" /\ pc' = "regulators"
    /\ held' \in {held, held \cup {"map"}}
    /\ drvdata' = TRUE
    /\ UNCHANGED <<phyDev, user, up, addr, hw, mac, failed>>

ProbeRegulators == Acquire("regulators", "regulators", "power", "out_request_resources_fail")

ProbePower == Acquire("power", "power", "config", "out_enable_resources_fail")

\* The mapping is there and a configuration is found.
ProbeConfig ==
    /\ pc = "config"
    /\ pc' \in (IF "map" \in held THEN {"init"} ELSE {}) \cup {"out_disable_resources"}
    /\ UNCHANGED <<held, drvdata, phyDev, user, up, addr, hw, mac, failed>>

\* smsc911x_init: locks, chip identified, address saved if so configured, soft
\* reset, netif_napi_add. A failure may come before or after the reset.
ProbeInit ==
    /\ pc = "init"
    /\ \/ /\ held' = held \cup {"init"} /\ pc' = "irq"
          /\ addr' \in {addr, hw}
          /\ hw' \in Roms /\ mac' = FALSE
       \/ /\ pc' = "out_disable_resources"
          /\ \/ UNCHANGED <<hw, mac>>
             \/ hw' \in Roms /\ mac' = FALSE
          /\ UNCHANGED <<held, addr>>
    /\ UNCHANGED <<drvdata, phyDev, user, up, failed>>

ProbeIrq == Acquire("irq", "irq", "register", "out_disable_resources")

ProbeRegister == Acquire("register", "registered", "mdio_alloc", "out_free_irq")

\* The choice of the address, atomic: mac_lock is taken with interrupts off.
ProbeAddress ==
    /\ pc = "address" /\ pc' = "bound"
    /\ \/ addr # "none" /\ hw' = addr /\ UNCHANGED addr
       \/ addr = "none" /\ Platform /\ addr' = "plat" /\ UNCHANGED hw
       \/ addr = "none" /\ hw # "none" /\ addr' = hw /\ UNCHANGED hw
       \/ addr = "none" /\ hw = "none" /\ addr' = "random" /\ hw' = "random"
    /\ UNCHANGED <<held, drvdata, phyDev, user, up, mac, failed>>

(* smsc911x_mii_init and smsc911x_mii_probe.                                *)

MiiAlloc == Acquire("mdio_alloc", "bus", "ext_phy", "out_unregister_netdev_5")

\* smsc911x_phy_initialise_external may switch the MAC to an external PHY.
MiiExternal ==
    /\ pc = "ext_phy" /\ pc' = "mdio_register"
    /\ UNCHANGED <<held, drvdata, phyDev, user, up, addr, hw, mac, failed>>

MiiRegister == Acquire("mdio_register", "bus_registered", "connect", "err_out_free_bus_2")

\* phy_find_first and phy_connect_direct, which starts the PHY's state machine.
MiiConnect == AcquireAll("connect", {"phy", "machine"}, "phy_dev", "err_out_unregister_bus_3")

\* Mutant of MiiPhyDev: pdata->phy_dev is not set.
MiiPhyDevMissing ==
    /\ pc = "phy_dev" /\ pc' = "loopback"
    /\ UNCHANGED <<held, drvdata, phyDev, user, up, addr, hw, mac, failed>>

\* From here on open finds a PHY.
MiiPhyDev ==
    /\ pc = "phy_dev" /\ pc' = "loopback"
    /\ phyDev' = TRUE
    /\ UNCHANGED <<held, drvdata, user, up, addr, hw, mac, failed>>

\* smsc911x_phy_loopbacktest turns the MAC on ...
LoopbackOn ==
    /\ pc = "loopback" /\ pc' = "loopback_end"
    /\ mac' = TRUE
    /\ UNCHANGED <<held, drvdata, phyDev, user, up, addr, hw, failed>>

\* ... off when the test packet does not come back, to reset the PHY and try again ...
LoopbackRetry ==
    /\ pc = "loopback_end" /\ pc' = "loopback"
    /\ mac' = FALSE
    /\ UNCHANGED <<held, drvdata, phyDev, user, up, addr, hw, failed>>

\* ... and off at the end. mii_probe returns a failure to mii_init's label with the
\* PHY connected and pdata->phy_dev set.
LoopbackOff ==
    /\ pc = "loopback_end"
    /\ \/ pc' = "address" /\ UNCHANGED failed
       \/ pc' = "err_out_unregister_bus_3" /\ failed' = TRUE
    /\ mac' = FALSE
    /\ UNCHANGED <<held, drvdata, phyDev, user, up, addr, hw>>

Probe ==
    \/ ProbeRegion \/ ProbeAlloc \/ ProbeMap \/ ProbeRegulators \/ ProbePower \/ ProbeConfig
    \/ ProbeInit \/ ProbeIrq \/ ProbeRegister \/ MiiAlloc \/ MiiExternal \/ MiiRegister
    \/ MiiConnect \/ MiiPhyDev \/ LoopbackOn \/ LoopbackRetry \/ LoopbackOff
    \/ ProbeAddress

-----------------------------------------------------------------------------
(* Releasing: the labels of probe and mii_init, and remove.                 *)

Release(at, r, next) ==
    /\ pc = at /\ pc' = next
    /\ held' = held \ {r}
    /\ UNCHANGED <<drvdata, phyDev, user, up, addr, hw, mac, failed>>

\* disable_resources and free_resources find the device through drvdata. Without
\* it they take the supplies from netdev_priv(NULL), in the unmapped first page:
\* an oops, which ends the thread.
ReleaseSupplies(at, r, next) ==
    /\ pc = at
    /\ IF drvdata THEN pc' = next /\ held' = held \ {r}
                  ELSE pc' = "oops" /\ UNCHANGED held
    /\ UNCHANGED <<drvdata, phyDev, user, up, addr, hw, mac, failed>>

\* mdiobus_unregister frees the bus's phy_device, connected or not; nobody stops the
\* state machine of one that is.
UnregisterBus(at, next) ==
    /\ pc = at /\ pc' = next
    /\ held' = (held \ {"bus_registered", "phy", "machine"})
                 \cup (IF "machine" \in held THEN {"orphan"} ELSE {})
    /\ UNCHANGED <<drvdata, phyDev, user, up, addr, hw, mac, failed>>

\* Mutant of UnregisterLock: an open interface is not closed.
UnregisterLockOnly(at, next) ==
    /\ pc = at /\ user = "idle" /\ pc' = next
    /\ UNCHANGED <<held, drvdata, phyDev, user, up, addr, hw, mac, failed>>

\* unregister_netdev waits for the rtnl lock and closes an open interface ...
UnregisterLock(at, next) ==
    /\ pc = at /\ user = "idle" /\ pc' = next
    /\ user' = IF up THEN "stop" ELSE "idle"
    /\ UNCHANGED <<held, drvdata, phyDev, up, addr, hw, mac, failed>>

\* ... before the interface is gone.
Unregister(at, next) ==
    /\ user = "idle"
    /\ Release(at, "registered", next)

\* Mutant of OutRegulators: the regulators are not given back.
OutRegulatorsMissing ==
    Release("out_enable_resources_fail", "power", "out_request_resources_fail")

OutBus         == UnregisterBus("err_out_unregister_bus_3", "err_out_free_bus_2")
OutFreeBus     == Release("err_out_free_bus_2", "bus", "out_unregister_netdev_5")
OutLock        == UnregisterLock("out_unregister_netdev_5", "out_locked")
OutUnregister  == Unregister("out_locked", "out_free_irq")
OutIrq         == Release("out_free_irq", "irq", "out_disable_resources")
OutPower       == ReleaseSupplies("out_disable_resources", "power",
                                  "out_enable_resources_fail")
OutRegulators  == ReleaseSupplies("out_enable_resources_fail", "regulators",
                                  "out_request_resources_fail")

\* platform_set_drvdata(pdev, NULL), iounmap.
OutUnmap ==
    /\ pc = "out_request_resources_fail" /\ pc' = "out_free_netdev"
    /\ held' = held \ {"map"} /\ drvdata' = FALSE
    /\ UNCHANGED <<phyDev, user, up, addr, hw, mac, failed>>

\* free_netdev: the private data goes with the device, whatever was set up in it.
OutNetdev ==
    /\ pc = "out_free_netdev" /\ pc' = "out_release_io_1"
    /\ held' = held \ {"netdev", "init"}
    /\ UNCHANGED <<drvdata, phyDev, user, up, addr, hw, mac, failed>>

OutRegion == Release("out_release_io_1", "region", "unbound")

Out == OutBus \/ OutFreeBus \/ OutLock \/ OutUnregister \/ OutIrq \/ OutPower
       \/ OutRegulators \/ OutUnmap \/ OutNetdev \/ OutRegion

\* smsc911x_drv_remove: phy_disconnect, which stops the state machine, ...
RemovePhy ==
    /\ Removes
    /\ pc = "bound" /\ pc' = "rm_null"
    /\ held' = held \ {"phy", "machine"}
    /\ UNCHANGED <<drvdata, phyDev, user, up, addr, hw, mac, failed>>

\* Mutant of RemoveNull: pdata->phy_dev is left as it is.
RemoveNullMissing ==
    /\ pc = "rm_null" /\ pc' = "rm_bus"
    /\ UNCHANGED <<held, drvdata, phyDev, user, up, addr, hw, mac, failed>>

\* ... pdata->phy_dev = NULL, ...
RemoveNull ==
    /\ pc = "rm_null" /\ pc' = "rm_bus"
    /\ phyDev' = FALSE
    /\ UNCHANGED <<held, drvdata, user, up, addr, hw, mac, failed>>

\* ... the MII bus, ...
RemoveBus     == UnregisterBus("rm_bus", "rm_free_bus")
RemoveFreeBus == Release("rm_free_bus", "bus", "rm_drvdata")

\* ... platform_set_drvdata(pdev, NULL), ...
RemoveDrvdata ==
    /\ pc = "rm_drvdata" /\ pc' = "rm_unregister"
    /\ drvdata' = FALSE
    /\ UNCHANGED <<held, phyDev, user, up, addr, hw, mac, failed>>

\* Mutant of RemoveIrq: the registers are unmapped with the handler installed.
RemoveIrqAfterUnmap == Release("rm_irq", "map", "rm_region")

\* ... the interface, the handler, the registers, and then disable_resources, which
\* finds no drvdata: what comes after it, free_resources and free_netdev, is
\* never reached.
RemoveLock       == UnregisterLock("rm_unregister", "rm_locked")
RemoveUnregister == Unregister("rm_locked", "rm_irq")
RemoveIrq        == Release("rm_irq", "irq", "rm_region")
RemoveRegion     == Release("rm_region", "region", "rm_unmap")
RemoveUnmap      == Release("rm_unmap", "map", "rm_power")
RemovePower      == ReleaseSupplies("rm_power", "power", "rm_regulators")

Remove == RemovePhy \/ RemoveNull \/ RemoveBus \/ RemoveFreeBus \/ RemoveDrvdata
          \/ RemoveLock \/ RemoveUnregister \/ RemoveIrq \/ RemoveRegion \/ RemoveUnmap
          \/ RemovePower

-----------------------------------------------------------------------------
(* The user's calls, under the rtnl lock, on a registered interface.        *)

\* The rtnl lock is free.
UserMay == "registered" \in held /\ user = "idle" /\ pc \notin {"out_locked", "rm_locked"}

\* Mutant of OpenAllowed: phy_dev is not looked at.
OpenAllowedNoPhy == addr # "none"

\* smsc911x_open: -EAGAIN without a PHY, -EADDRNOTAVAIL without an address.
OpenAllowed == phyDev /\ addr # "none"

\* dev_open calls it for an interface that is not up.
UserOpen ==
    /\ UserMay /\ ~up /\ OpenAllowed
    /\ user' = "open"
    /\ UNCHANGED <<pc, held, drvdata, phyDev, up, addr, hw, mac, failed>>

\* Mutant of UserOpenReset: the address is not restored after the reset.
UserOpenResetOnly ==
    /\ user = "open"
    /\ mac' = FALSE /\ hw' \in Roms
    /\ user' \in {"phy_start", "idle"}
    /\ UNCHANGED <<pc, held, drvdata, phyDev, up, addr, failed>>

\* The soft reset clears the address and open restores it; the reset
\* may fail, before or after it takes effect, and so may the interrupt test.
UserOpenReset ==
    /\ user = "open"
    /\ \/ user' = "phy_start" /\ hw' = addr /\ mac' = FALSE
       \/ user' = "idle" /\ hw' \in Roms \cup {addr} /\ mac' = FALSE
       \/ user' = "idle" /\ UNCHANGED <<hw, mac>>
    /\ UNCHANGED <<pc, held, drvdata, phyDev, up, addr, failed>>

\* phy_start(pdata->phy_dev), interrupts and MAC enabled.
UserPhyStart ==
    /\ user = "phy_start" /\ user' = "idle"
    /\ up' = TRUE /\ mac' = TRUE
    /\ UNCHANGED <<pc, held, drvdata, phyDev, addr, hw, failed>>

\* smsc911x_stop, called by the user or (user = "stop") by unregister_netdev ...
UserStop ==
    /\ UserMay /\ up
    /\ user' = "stop"
    /\ UNCHANGED <<pc, held, drvdata, phyDev, up, addr, hw, mac, failed>>

\* ... stops the PHY if there is one.
StopCheck ==
    /\ user = "stop"
    /\ IF phyDev THEN user' = "phy_stop" /\ UNCHANGED up
                 ELSE user' = "idle" /\ up' = FALSE
    /\ UNCHANGED <<pc, held, drvdata, phyDev, addr, hw, mac, failed>>

StopPhy ==
    /\ user = "phy_stop" /\ user' = "idle"
    /\ up' = FALSE
    /\ UNCHANGED <<pc, held, drvdata, phyDev, addr, hw, mac, failed>>

\* smsc911x_do_ioctl looks whether the interface runs and has a PHY.
UserIoctl ==
    /\ UserMay /\ up /\ phyDev
    /\ user' = "ioctl"
    /\ UNCHANGED <<pc, held, drvdata, phyDev, up, addr, hw, mac, failed>>

\* smsc911x_ethtool_getsettings does not look.
UserGetSettings ==
    /\ Ethtool /\ UserMay
    /\ user' = "gset"
    /\ UNCHANGED <<pc, held, drvdata, phyDev, up, addr, hw, mac, failed>>

UserPhyDone ==
    /\ user \in {"ioctl", "gset"} /\ user' = "idle"
    /\ UNCHANGED <<pc, held, drvdata, phyDev, up, addr, hw, mac, failed>>

\* smsc911x_set_mac_address: older chips refuse while running.
SetMacAllowed == ~(Generation1 /\ up)

UserSetMac ==
    /\ UserMay /\ SetMacAllowed
    /\ addr' = "user" /\ user' = "set_hw"
    /\ UNCHANGED <<pc, held, drvdata, phyDev, up, hw, mac, failed>>

UserSetHw ==
    /\ user = "set_hw" /\ user' = "idle"
    /\ hw' = addr
    /\ UNCHANGED <<pc, held, drvdata, phyDev, up, addr, mac, failed>>

User == UserOpen \/ UserOpenReset \/ UserPhyStart \/ UserStop \/ StopCheck \/ StopPhy
        \/ UserIoctl \/ UserGetSettings \/ UserPhyDone \/ UserSetMac \/ UserSetHw

Next == Probe \/ Out \/ Remove \/ User

Spec == Init /\ [][Next]_vars

-----------------------------------------------------------------------------
(* Properties.                                                              *)

\* The interrupt handler is safe whenever it can run: IRQF_SHARED lets another
\* device call it at any time between request_irq and free_irq, and it reads the
\* chip's registers through the mapping and takes mac_lock (the order of
\* smsc911x_drv_probe, of its labels and of smsc911x_drv_remove).
IrqSafe == "irq" \in held => {"netdev", "map", "power", "init"} \subseteq held

\* Nothing is torn down under the user: while a call is in progress or the
\* interface is up, the handler is installed and the chip powered and mapped
\* (unregister_netdev comes before free_irq in both paths).
UserSafe ==
    user # "idle" \/ up => {"registered", "irq", "netdev", "map", "power"} \subseteq held

\* What binding and unbinding leave behind, exactly, whichever statement failed.
\* A probe that failed releases all it acquired, except that a failed loopback test,
\* now or earlier, leaves the state machine of a freed PHY scheduled
\* (smsc911x_mii_probe returns without phy_disconnect). A remove dies with the chip
\* powered and its regulators and net_device not given back, since
\* smsc911x_drv_remove clears drvdata before smsc911x_disable_resources.
LeftBehind ==
    pc \in {"unbound", "oops"} =>
        held = (IF failed THEN {"orphan"} ELSE {})
               \cup (IF pc = "oops" THEN {"netdev", "init", "regulators", "power"} ELSE {})

\* remove's BUG_ONs are never hit: a bound device has its drvdata, its net_device,
\* its mapping and its PHY.
RemoveFindsPhy ==
    pc = "bound" => drvdata /\ {"netdev", "map", "phy"} \subseteq held /\ phyDev

\* The statements between which pdata->phy_dev may be in use with no PHY behind it:
\* remove until unregister_netdev has the rtnl lock, and, after a failed loopback
\* test, mii_init's labels and all of unregister_netdev.
PhyGonePcs ==
    {"rm_null", "rm_bus", "rm_free_bus", "rm_drvdata", "rm_unregister"}
    \cup (IF failed THEN {"err_out_free_bus_2", "out_unregister_netdev_5", "out_locked"}
                    ELSE {})

\* The PHY a user's call dereferences is connected and its bus registered, except
\* in those windows: open, stop and ioctl look at phy_dev first, under a
\* lock that neither probe nor remove holds while they change it. Above all the stop
\* that remove's own unregister_netdev makes never reaches a disconnected PHY.
\* get_settings, which does not look, may find NULL at any time.
PhyGoneOnlyThere ==
    /\ user \in {"phy_start", "phy_stop", "ioctl"} \/ (user = "gset" /\ phyDev)
    /\ pc \notin PhyGonePcs
    => phyDev /\ {"phy", "bus_registered"} \subseteq held

\* A running interface filters on its own address: outside set_mac_address the
\* chip has the device's address, whichever of probe, open and
\* set_mac_address wrote it last.
AddressInForce == up /\ user # "set_hw" => addr # "none" /\ hw = addr

\* The MAC is not switched to an external PHY while it sends or receives
\* (smsc911x_phy_enable_external: "Assumes tx and rx are stopped"), although
\* the interface is registered by then.
ExternalPhyStopped == pc = "ext_phy" => ~mac /\ ~up

=============================================================================
