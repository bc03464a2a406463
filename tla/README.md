# TLA+ verification of the attestation device's network driver

The repository holds a software-attestation experiment for a Gumstix Overo: a
verifier (`icmp_client/icmp.c`) sends a challenge as an ICMP packet of type 2, the
device's network driver (`code/nic-driver/smsc/smsc911x.c`, a modified Linux driver of
the SMSC LAN911x/LAN9221) computes a checksum of its memory inside the NAPI poll and
sends it back from there. Around it are the vendored kernel tree (`linux/`), scripts, and
user-space copies of the checksum (`code/app`).

What can be checked is the driver: an interrupt handler, a softirq, a transmit path, user
calls and a probe/remove thread that share registers with a chip that runs concurrently;
and the exchange of packets between verifier and device. Line numbers below are those of
`smsc911x.c` unless another file is named.

## Inventory

| Component | State | Operations | Hard part | Module |
|---|---|---|---|---|
| Interrupt handler, poll, transmit | INT_CFG, INT_EN, INT_STS, FIFO levels; NAPI bits; queue-stopped bit | `irqhandler` 1831, `poll` 1211, `hard_start_xmit` 1696 | unlocked read-modify-writes of INT_EN, acknowledge/complete/unmask order, stop/arm/wake order, budget, replies sent from the poll | `Smsc911x` |
| Receive filter | set/clear masks, hash, `multicast_update_pending`, MAC_CR, HASHH/L | `set_multicast_list` 1757, `rx_multicast_update` 1354, workaround 1372 | older chips are updated later, by an interrupt | `Smsc911x` |
| Open and stop | `software_irq_signal`, NAPI ownership, RXEN | `open` 1528, `stop` 1669 | interrupt test that may time out, napi_disable against a running poll | `Smsc911x`, `SmscProbe` |
| Probe and remove | what is acquired, `phy_dev`, MAC address | `drv_probe` 3190, `mii_init` 1039, `mii_probe` 989, `drv_remove` 3083 | a failure at each of a dozen statements; the interface is registered before the PHY exists and unregistered after it is gone; remove clears the pointer that its last calls use | `SmscProbe` |
| MAC and MII access | MAC_CSR_CMD/DATA, MII_ACC/MII_DATA | `mac_read` 466, `mac_write` 494, `mii_read` 526, `mii_write` 562 | two nested bounded polling loops, silent failures, transactions that outlive the call | `SmscMii`, `MdioBus` |
| Link and flow control | `phydev`, last duplex and carrier, MAC_CR, FLOW, AFC_CFG, GPIO_CFG | `phy_adjust_link` 924, `phy_update_flowcontrol` 884, `phy_state_machine` (`phy.c`) | a work item under `phydev->lock` against open, stop, ethtool and the MII ioctl, which hold another lock; carrier and duplex remembered across resets | `SmscLink`, MAC_CR also in `SmscMii` |
| EEPROM | E2P_CMD, E2P_DATA | 2785-2907, ethtool core | commands that outlive the call, erase then write, ignored results, offset handling | `SmscEeprom` |
| Counters | TX status FIFO, RX_DROP, `dev->stats` | 653, 1103-1170, 1748 | unlocked readers of one FIFO, a register that is cleared when read, the FIFO's limit | `SmscStats` |
| Attestation client | one socket, a nonce, a time | `icmp.c` | lost, late and foreign packets; no timeout | `Attestation` |
| Internet checksum | | `checksum` 1195, `icmp.c` 27 | carries | `InetChecksum` |
| Attestation checksum | kernel text, ARM registers | `swattARM` 2052, variants to 2667 | timing and memory contents | not modelled |
| Suspend/resume, ethtool formatting, variants of the driver, `code/app`, kernel | | | | not modelled |

`PROJECT.json` has the same list with reasons, and under `hazards` every place of this code
that a test would hardly reach, with the properties that look at it.

Components interact through calls under the kernel's rules: the handler preempts
everything, poll / transmit / filter changes run with bottom halves disabled on the one CPU
(`linux/.config` has neither SMP nor a second core), open and stop run in a process under
the rtnl lock, probe and remove run in a process that does not hold it. The chip runs
beside all of them and talks back through status bits and its interrupt line.

## Modules

**`Smsc911x`** — the driver in operation. `irq`, `bh` and `proc` are the positions of the
three contexts; a lower one steps only when the higher ones are out, so an action of the
poll can be separated from the next one by any number of interrupts. One action is what
lies between two points at which an interrupt can come: reading INT_EN (`PollEnRead`) and
writing it back (`PollEnWrite`) are two, a section under `mac_lock` with interrupts off
(`McLocked`) is one. `rx` and `txFree` are the FIFO fills, `sched`, `disable`, `inList`
are NAPI's state, `stopped` is the queue's, the rest are the fields of
`struct smsc911x_data`. `Level` is the chip's rule that RSFL and TDFA are latched again as
long as their condition holds. The filter is a mask and a set of hash bits; the generation
decides, as in the code, whether it is written at once or by the RX_STOP interrupt.

**`SmscProbe`** — the statements of probe and mii_init, each of which acquires something
or jumps to a label, the labels, the statements of remove, and the user's calls.
`held` is what is acquired; `drvdata` is the platform device's pointer to the net_device, through
which `ReleaseSupplies` (disable_resources 398, free_resources 438) finds what to release. The
user's calls hold the rtnl lock (`UserMay`), the binding thread takes it only in
unregister_netdev. A failed loopback test is a failure like any other; `failed` is the history
variable that remembers it. remove's last position is `oops`, from which nothing goes on: it
clears `drvdata` at 3103, so disable_resources at 3115 hands `netdev_priv(NULL)` to
regulator_bulk_disable, in the unmapped first page of memory (`linux/.config` has
CONFIG_REGULATOR=y). So the run `probe` has CHECK_DEADLOCK FALSE: after a remove the system
really may stop.

**`SmscMii`** — `mac_read`/`mac_write` with `mac_complete` as the inner machine (`mac`,
`tries`), `mii_read`/`mii_write` and the MAC_CR updates as the outer one (`at`, `rounds`);
the chip finishes an access or an MII transaction whenever it likes. `MacSlow` says whether
an access may outlast the 40 reads of `mac_complete`. `done` is a history variable: what the
call in progress has really done to the PHY or to MAC_CR.

**`MdioBus`** — the abstract specification of that layer: an operation takes effect once,
between call and return; a PHY operation may fail, and a failed one may still take effect,
but before any other. `SmscMii!ImplementsBus` is the refinement; `late <- Late` maps the
chip's left-over transaction.

**`SmscLink`** — the PHY library's work item (`work` is where it is, `state`, `link`,
`autoneg`, `duplex` are fields of `phydev`), `smsc911x_phy_adjust_link` in six steps, and
beside it open and stop (`user`), ethtool and the MII ioctl (`tool`). Reading the PHY (`WorkRead`) and acting
on what was read (`WorkLinkUp`, `WorkLinkDown`, ...) are two steps, so that `duplex` may change
in between; `Unlocked` is `phydev->lock` as phy_start, phy_stop and phy_start_aneg see it. The
partner at the other end of the wire comes, goes and negotiates. The PHY's driver is the generic
one (`linux/.config` has no SMSC_PHY), without PHY_HAS_MAGICANEG: a negotiation that takes too long
is replaced by a forced mode (`WorkAnTimeout`, `phy.c:829-844`). `ExtPhy` is `using_extphy`, with
which adjust_link leaves the LED alone. Of the MII ioctl the writes of BMCR are modelled, in two
steps: phy_mii_ioctl changes `autoneg` and `duplex` without `phydev->lock` (`phy.c:332-339`), then
writes the register and tells the state machine nothing. Speed, pause and the local advertisement
are left out; where phy_sanitize_settings changes the duplex according to the speed, the model
chooses (`Sanitize`). `crossed`, `blind` and `erred` are history: they name the three ways
in which the code does let registers, carrier and link drift apart.

**`SmscEeprom`** — one call of ethtool at a time, its loop over locations, `send_cmd` with its
three results, and the chip's controller, which finishes a command, or fails it, whenever it
likes. `may` is what a caller can conclude about each location from the results of all calls.

**`SmscStats`** — the words of the TX status FIFO from the transmitter to `dev->stats`. A process
is interrupted between any two accesses by bottom halves and, the kernel being preemptible,
by other processes. `sent`, `lost`, `popped`, `drops`, `forgotten`, `taken` are the books that
the counters are compared with; `raced` says that two contexts met in one update.

**`Attestation`** — client runs on one host, devices, and the network between them. A packet
carries a nonce and the list of devices that have computed on it; what `checksum` and
`swattARM` make of the bytes is not in it. A client accepts any packet of its type; a device
answers any, its own address or not, when promiscuous.

**`InetChecksum`** — `checksum()` of both programs as operators on the sum of the words, with
the proof that the packet then verifies.

**`Smsc911xProof`, `SmscProbeProof`, `SmscMiiProof`, `SmscStatsProof`, `SmscEepromProof`,
`SmscLinkProof`, `AttestationProof`** — inductive invariants and proofs.
**`MCSmsc911x`, `MCSmscProbe`, `MCSmscMii`, `MCSmscStats`, `MCSmscEeprom`, `MCSmscLink`,
`MCAttestation`** — instances for TLC; they extend the proof modules, so that TLC also evaluates
the constants' assumptions. `TypeOK` and `IInv` are theorems; adding them (and `BusInv` to
`mii_atomic`) to a configuration checks them on the instance too.

Each property's mutant stands before the definition it replaces, as an operator with the
same parameters (`MaskRsflKeeps` before `MaskRsfl`).

## Runs

| Run | Shows |
|---|---|
| `driver_napi` | shared line, challenges, failing allocations: no stranded packet, no interrupt storm, no stale RSFL, the interrupt test over, a closed interface quiet, net_rx_action's full-budget contract, no lost wake-up |
| `driver_stack` | generation 1, no challenge, failing allocations: the filter is the one last asked for, its registers change only while the receiver is stopped; no packet overruns the TX FIFO, the queue is woken only with room; under fairness a full RX FIFO is drained, a stopped queue resumes, stop returns |
| `probe` | every statement of probe may fail, the loopback test included: handler and user never lose resources under them, remove's BUG_ONs, the address in force, what a failed probe and a remove leave behind, named exactly; the statements between which a PHY in use may be gone; the MAC is stopped when it is switched to an external PHY |
| `mii_slow` | any MAC: a successful read is honest, transactions do not overlap, every call returns whatever the chip does |
| `mii_atomic` | a MAC that answers in time: the two layers implement `MdioBus` |
| `link` | MII errors, every ethtool call and the MII ioctl, internal PHY (6.1 million states, two minutes with four workers): MAC and flow control have the duplex that adjust_link believes they have, the LED shows the carrier it believes in, a carrier means that a link was seen |
| `link_live` | set_settings and the MII ioctl, external PHY (0.65 million states): an interface left alone with a cable gets its carrier and the right duplex, negotiated or forced, one without a cable loses its carrier |
| `eeprom` | what get_eeprom read is what the EEPROM holds, the EEPROM holds what the callers were told, a command in progress is left alone |
| `stats` | the status FIFO never overflows; sent packets and dropped frames are counted once as long as no two contexts meet in one update |
| `attest` | what a client shows is its target's answer to its own nonce, and its verdict is about that answer, if no packet of another run is about; answers are not answered; nobody waits in vain unless a packet was lost |

Runs in which the code does something that a comment or document denies; each is a finding
in `PROJECT.json` with the line quoted:

| Run | Shows |
|---|---|
| `stale_pending` | closing an older chip between the request to stop receiving and RX_STOP leaves `multicast_update_pending` set: filters are ignored from then on |
| `reply_overruns_fifo` | a reply to a challenge is written to the TX FIFO while the queue is stopped, and overruns it |

Behaviours that are in the models, are kept out of the properties by a named exception or a
constant, and have no run of their own:

- A failed loopback test (1030) leaves the state machine of a freed PHY scheduled (`orphan` in
  `LeftBehind`) and `phy_dev` set while the interface is unregistered (`PhyGonePcs`). `linux/Documentation/driver-model/driver.txt:163-165`
  asks a failed probe to release all it allocated. What the orphaned work does
  when it runs is not followed.
- remove dies in disable_resources (3115), with the net_device, the regulators and the power not
  given back (`LeftBehind`), although `linux/Documentation/driver-model/driver.txt:175-179` asks
  remove to free them and to leave the device in a low-power state.
- remove releases the PHY (3098-3101) before it unregisters the interface: an open in progress
  starts a PHY that is gone (`PhyGonePcs`). get_settings finds a null `phy_dev` during probe
  (2715). What a call does after it has dereferenced either is not followed.
- An interface opened between 1023 and the end of the loopback test stays up with MAC_CR
  cleared by 871; no property speaks of it.
- With a MAC that outlasts `mac_complete`, mii_write reports success for a write that was
  dropped: `ImplementsBus` with `MacSlow = TRUE`.
- get_eeprom with an offset returns bytes it has not read (2887), although
  `linux/include/linux/ethtool.h:877-878` promises those from offset to offset + len: `buf` is
  `Unset` there.
- stop leaves RXEN and TXEN set, so the chip sends and receives while closed, although the
  comment at 1683 and `Documentation/networking/driver.txt:87` say otherwise; what it sends
  is not counted (`lost` in `SmscStats`).
- get_stats beside a transmit, a poll or another get_stats loses or doubles counts (`raced`).
- set_settings, the MII ioctl or open in the middle of an update of adjust_link leaves MAC and flow
  control with another duplex than `last_duplex` until the next update (`crossed`);
  eeprom_enable_access across an update does the same to the LED.
- The carrier stays on after a quick close and open without a cable, in a forced mode without
  a link, and after an error between two reads (`blind`); a failed MII access halts the PHY
  until the next close and open (`erred`); an error in set_settings' phy_start_aneg and in
  the ioctl's write is ignored, and the PHY then has not what `phydev` says (`Quiet` excludes it).
- Raw frames of 14 to 20 bytes, which hard_start_xmit does not pad, can fill the status FIFO
  (`StatsAssumption` excludes them).
- Two clients on one host, or a second run while a reply of the first is on its way, take each
  other's answers (`mixed`); nonces of runs in the same second are equal.

### Bounds

TX sizes are in units in which a packet takes one to three and keep the order of the
code's numbers: packet + 32 <= 1600 (threshold) <= 3200 (wake level) < FIFO size; `Word`
is where unsigned arithmetic wraps. A budget of 2 with an RX FIFO of 3 has polls that end
by budget, by an empty FIFO and by lack of memory, with packets left over. One multicast
group and promiscuous mode give every kind of change of mask and hash. Two tries of each
polling loop give success at the first and the last look, and a timeout; two PHY registers
and two values tell a stale or foreign answer from the right one. `SmscProbe` is finite as
it is, and so is `SmscLink`; `link_live` leaves out the half-duplex partner, MII
errors, nway_reset and eeprom_enable_access. An EEPROM of three locations with two bytes
has calls that begin, go on and end at different places; two polls give an end at the first and
the last look and a timeout. `stats` keeps the order on which `StatusFifoHolds` rests: the limit
less one plus what the TX FIFO can hold is at most what the status FIFO can hold (29 + 67 <= 128
in the code with frames of 60 bytes, 29 + 88 with the 42 of ARP, the shortest that the stack
sends; 1 + 2 <= 3 in the run). Four packets and two drops fill and empty the FIFOs across an open and
a stop. `attest` has two clients and two devices, one of them promiscuous, one duplicate and
three instants, of which two fall in one second and one is the threshold. The theorems hold for
every value.

### Fairness

`driver_stack`: weak fairness of the handler (the line is level-triggered), of bottom-half code
in progress, of the transmitter and of the receiver's stop (they are hardware); strong
fairness of the poll's start and of the opening or closing process, since either may be kept
off the CPU for a while but not for ever (a raised softirq runs, at the latest in
ksoftirqd, which shares the CPU with processes). Nobody has to open, close, send or
deliver. A poll that stops for lack of memory neither completes nor uses its budget, so
`StopCompletes` has the premise that allocations do not fail for ever.
`link_live`: weak fairness of the work item, which schedules itself again each time, and of the
negotiation; strong fairness of the branch taken when link_timeout has counted down (it
counts rounds of the same branch), weak fairness of the ioctl's write, which waits for nothing, and of the calls that wait for `phydev->lock`, which the
work releases every time. `mii_slow`: weak fairness of the CPU only; nothing is assumed of
the chip.

## Proofs

Every safety property and every action property of the passing runs, and the refinement, is
also a theorem: TLAPS checks it for every value of the constants that satisfies the module's
assumption. The assumptions are: a packet with its padding is at most the threshold, the
threshold at most the wake level, the wake level less than the FIFO (`Smsc911x`); the limit of
the status FIFO at which a transmit reads it, less one, plus what the TX FIFO holds is at most
what the status FIFO holds (`StatsAssumption`); positive numbers of tries and polls; model values
that are distinct from what they stand beside; the names of `Host`, devices and clients are not
confused (`AttestationAssumption`).

| Module | Theorems |
|---|---|
| `Smsc911xProof` | `TypeCorrect`; `RsflServiceable`, `RxNotStranded`, `NoStaleRsfl`, `TxWakeArmed`, `SwTestOver`, `ClosedIsQuiet`, `FullBudgetKeepsNapi`, `FilterApplied`; the action property `UpdateOnlyWhenRxStopped`; without challenges `NoTxOverrun` and `WokenWithRoom` |
| `SmscProbeProof` | `IrqSafe`, `UserSafe`, `RemoveFindsPhy`, `AddressInForce`, `LeftBehind`, `PhyGoneOnlyThere`, `ExternalPhyStopped`; no premise, the loopback test may fail |
| `SmscMiiProof` | `MiiReadHonest`, `MiiAccRespected`, for any MAC; the refinement `ImplementsBus` for a MAC that answers in time |
| `SmscStatsProof` | `StatusFifoHolds`, `TxCountExact`, `RxDropExact` |
| `SmscEepromProof` | `GetHonest`, `RomAsReported`; the action property `CommandRespected` |
| `SmscLinkProof` | `DuplexInForce`, `LedHonest`, `CarrierHonest`, with an internal and with an external PHY |
| `AttestationProof` | `ResultIsTheAnswer`, `VerdictHonest`, `NoEcho`, `NotInVain` |
| `InetChecksum` | `ChecksumVerifies`, for every sum of words that an unsigned int holds |

Hardly any of these is inductive alone; each module defines the `IInv` that is (TLC found it to
hold on the runs before it was proved). Each group of actions has a lemma, each action a step,
each conjunct it can disturb a step below it.

**`Smsc911xProof!IInv`** adds: a sampled source stays enabled and latched until its branch
(`HandlerInv`); who owns NAPI_STATE_SCHED, and that the owner has RSFL masked (`NapiInv`); what
open and stop have done at each statement (`LifecycleInv`, `EnabledInv`); that a copy of INT_EN
held across an interrupt differs from the register by nothing the handler may have changed in a
way that matters (`RmwInv`): this is why the unlocked read-modify-writes are harmless; that
INT_STS shows every condition that holds (`LatchInv`); the queue's and the FIFO's accounting
(`QueueInv`, `TxInv`); and that a latched RXSTOP means a stopped receiver (`RxStopInv`).

**`SmscProbeProof!IInv`** is a table of what is held at each statement, with the user's position
and the address tied to it; where `drvdata` is set, which decides what remove's last statements
can release (`DrvdataInv`); and that the PHY's state machine is connected with the PHY or was
orphaned by a failed loopback test (`MachineInv`).

**`SmscMiiProof!IInv`** relates the two machines to the chip's two transactions: which access is in
flight at which position (`AccessInv`), what MAC_CSR_DATA and the local value can be (`DataInv`),
that MII_ACC is free where the code has seen it free (`FreeInv`), and that what a read found is
what is in MII_DATA (`ReadInv`).

**The refinement** `CallsAreAtomic == ~MacSlow => (Spec => ImplementsBus)` needs more: that an
access is over when the next begins (`FastInv`, the only part that uses `~MacSlow`); that a call
has no effect before its last statements (`EffectInv`); that nobody writes MAC_CR between its
read and its write (`CrInv`); that the call's own transaction is on its way through the MAC, in
progress, or over, and over once the busy bit is read as clear (`CallInv`, with its parts
`CallSent`, `CallRuns`, `CallOver`); and that MII_DATA holds a write's value from before the
transaction's start (`ValueInv`). Their conjunction `BusInv` is inductive relative to `IInv`. Then
every step of `SmscMii` is a step of `MdioBus` or a stutter: `ChipRefines` (the end of the
transaction is where the operation takes effect, for the call or as `late`), `MiiRefines` and
`CrRefines` (call, return, and the timeout at which the transaction becomes `late`). The premise
is needed: with a slow MAC the statement is false (see the list above).

**`SmscStatsProof!IInv`**: `RoomInv` counts together the statuses that are in the FIFO and those
that packets in the TX FIFO will still produce, which is what makes a limit tested only by
transmits enough; `TxInv` and `RxInv` say that until two contexts have met, at most one is between
load and store, its copy is the present value, and one who has seen a status finds it.

**`SmscEepromProof!IInv`**: whatever command is in progress, this call's or one that an earlier call
gave up, can only leave a byte that the callers know of (`AttemptInv`, `PendingInv`); one who polls
polls for its own command (`PollInv`), a write begins with no other in progress and its byte in
E2P_DATA (`WriteInv`), and once one read has ended well, no erase and no write is in progress
that could change what was read (`ReadInv`, `GetInv`).

**`SmscLinkProof!IInv`**: `DuplexInv` and `LedInv` describe the registers at each statement of
adjust_link, inside an update as outside; `OrigInv` says that an LED which is off will be turned
on again, because `gpio_orig_setting` or the copy eeprom_enable_access holds says so; `NoLinkInv`
ties the PHY library's state to the carrier.

**`AttestationProof!IInv`** says of every packet, in the network (`NetInv`), in a device (`DevInv`)
and in a socket (`SockInv`), that it is `Genuine`: a run has sent it, it carries that run's nonce, it
was computed on for no longer than since it was sent, and if no promiscuous device has answered it,
it is that run's challenge or its target's answer. `MixedInv` says that a client that waits and has
met nothing of another run will not meet anything of it. Losing, delaying, duplicating and
reordering keep all of this; that `took` counts from the sending is why a late answer cannot
be taken for one in time.

**`ChecksumVerifies`**: the first fold leaves at most one carry (`FoldBound`) and changes the sum
by a multiple of 65535; the rest is a case distinction on that carry.

Only model-checked: the liveness properties (`RxDrained`, `TxResumes`, `StopCompletes`,
`CallReturns`, `LinkComesUp`, `LinkGoesDown`), since liveness under fairness is beyond the prover.
That the loop of `checksum` adds up all words is induction over data, which is also beyond it,
and is left to the reader.

## Not modelled

The checksum routines are ARM assembly whose result depends on memory contents and whose
purpose is timing. The register access layer is atomic under its own lock, and is used as
such. ethtool's formatting, suspend and resume keep no state that the properties see; which
error counter a status bit selects is not told apart in `SmscStats`, nor speed and pause in
`SmscLink`. The kernel is modelled where the driver meets it and no further.
`poll_controller` calls the handler with the line disabled, which is `IrqEnter` on a shared
line. Work under `mac_lock` is atomic in `Smsc911x`; what its register accesses may do when the
MAC is slow is the subject of `SmscMii`.

## Plan

1. Done: `Smsc911x`, its instances and proofs; `SmscProbe`; `SmscMii` over `MdioBus`.
2. Done: `SmscLink`, `SmscEeprom`, `SmscStats`, `Attestation`, `InetChecksum`.
3. Done: proofs of the safety and action properties of `SmscStats`, `SmscEeprom`, `SmscLink` and
   `Attestation`; the refinement `ImplementsBus` for a fast MAC.
4. Next: statements that no run makes yet and that the invariants nearly give. What a slow MAC
   still guarantees of the bus (a failed read changes nothing; MII_ACC's owner), what remains true
   of the counters after a race (`counted` never exceeds what was sent and popped by more than
   the doubled updates), and the part of `DuplexInForce` that survives a crossed update.
