# TLA+ verification of rsbus

rsbus is a Python implementation of a residential HVAC bus: *subnet
controllers* (SCs) and *local controllers* (devices: furnaces, indoor units,
sensors) share a CAN segment. The SCs elect one active subnet controller
(aSC), which then commissions the devices. Each node runs hierarchical state
machines (the `hsm` library) on one asyncio loop.

Paths below are relative to the repository root; the code is in `src/src/rsbus`,
which the text abbreviates to the file's name.

- [1. Inventory](#1-inventory)
- [2. Modules and how they correspond to the code](#2-modules-and-how-they-correspond-to-the-code)
- [3. What the runs check](#3-what-the-runs-check)
- [4. Where code and comments disagree](#4-where-code-and-comments-disagree)
- [5. What is proved](#5-what-is-proved)
- [6. What is not modelled](#6-what-is-not-modelled)
- [7. Plan](#7-plan)

Running it, in this directory:

    tlc -workers 2 -config Settle.cfg MCElection.tla
    tlapm SubnetControllerSafety.tla

## 1. Inventory

### Subnet controller startup and election: `subnet_controller.py` (FIG. 13)

*State.* The leaf state of `SubnetControllerStartup` (pre_startup,
post_startup, active_coordinator/audit, .../passing_token,
passive_coordinator, heartbeat_out, heartbeat_out/commissioned, inactive,
soft_disabled, hard_disabled); `instance.ram` (declaration_sent,
assignment_received, token_candidate, unresponsive, verification);
`instance.scram`, the list of SCs with credentials and a validity flag;
`instance.device_ram`, the list of devices; `nvm`; and the background tasks its
behaviours schedule: audit queries, device sweeps, FIG. 14 children, the
heartbeat.

*Operations.* Start-up delay, arbitration, audit of all listed SCs by
SC_QUERY, choice of the best responsive one, token pass, take-over with
heartbeat, assignment of devices, configuration finished; yielding on better
credentials or another's heartbeat; soft and hard disable, hard enable, reset.

*Hard.* The election is spread over frames that cross each other; a heartbeat
can be consumed in a state where it says little; background tasks outlive the
state that started them; events a node schedules for itself arrive in another
state; a power cycle loses everything but `nvm`, while the others' lists keep
the node.

*Correct when* two leaders always learn of each other and do not last; an audit
ends; only the best SC leads; an audit always has something that drives it; a
hard disable survives resets and power cycles; an acknowledged device is
archived, with a type of its own unless a child was seeded by another device's
announcement; and a device that waits gets assigned, also when the leader changes
meanwhile.

### Node runtime: `runtime.py`

*State.* The SC and device lists, `last_asc`, `nvm` with its JSON file.
*Operations.* `remember_asc`, `best_other_sc`, `is_iu`, `queue_send`,
`schedule`, `Persistence.set/flush`. *Hard.* A write is not atomic; the
heartbeat bookkeeping overwrites credentials. *Correct when* what was flushed
is there after a power cycle, and credentials are those the SC declared.

### Equipment type assignment: `equipment_type_assignment.py` (FIG. 14)

*State.* One child machine per arrival of a device without a type:
awaiting_startup, candidate, acknowledging, done, with a candidate equipment
type; tasks that wait for an acknowledge. *Operations.* Seed event, rival check,
assignment, walk over candidates, acknowledge with a verdict, timeout. *Hard.*
Children run on one loop and every frame is an event for each of them; timeouts
of earlier assignments race later answers; a type is cut to eight bits on the
bus only. *Correct when* a device is archived with a type it was sent, and
devices of one type are served too.

### Local controller: `local_controller.py` (FIG. 12)

*State.* pre_startup (listen_only, sending, sent), wait_for_assignment,
assigned, hard_disabled (soft_disabled is entered by no edge); `assigned_et`,
`assigned_subnet`, `ram`; the NVM file; tasks that resend or answer later.
*Operations.* DEVICE_STARTUP with resends and a cap, answer to SC_COORDINATOR,
`record_assignment`, hard disable and enable, reset, status. *Hard.* A crash
between two flushed writes or in the middle of one; a chain of delayed resends
that outlives the state; enable, disable and reset in any order; several
machines of one process that write one file. *Correct when* an acknowledged
assignment survives, a hard disable does until an enable ends it, start-up ends,
and a device that waits gets assigned.

### Node application and transport: `app.py`, `transport.py`

*State.* The transmit queue, the receive loop, the set of machines.
*Operations.* Start, pump a frame out, decode and dispatch a frame to every
machine. *Hard.* A failed send is swallowed; events wait behind one another;
every machine of a device gets an NVM object of its own. *Correct when* each
machine sees the frames in bus order, one at a time.

### Message codec: `messages.py`

*State.* The name tables, which a file may override at start. *Operations.*
Encode, decode, learn unknown numbers. *Hard.* Senders use `MESSAGE_SPECS` and
receivers the tables; two names share a number; payload fields and identifier
addresses share names. *Correct when* a message arrives under its name with its
fields, or is learned. Which fields a message carries decides the election and
the assignment: a field that is absent decodes as zero.

### CAN error confinement: `can_error.py`

*State.* Two error counters and the FIG. 6 state. *Hard.* Counters are read
by the handler and written by a task it schedules. *Correct when* the state
follows the counters and a node in trouble has said so. Started by tests only.

### Operations: `operations.py`

*State.* Whether each device is busy, the SC's record of it, the newcomer a
replacement check judges, parameters in NVM. *Hard.* Statuses that arrive late
or without fields; ends that are guarded by the record. *Correct when* the
subnet is reset to defaults only on some device's word. `DeviceCommissioning` and
`ParameterChangeDialog` run beside a device's startup machine; the SC's two are
started by tests only.

### Diagnostics: `diagnostics.py`

*State.* The alarm log, the diagnostic mode, a retrieval session and its
reports. *Hard.* The log is bounded, repeats coalesce, clears mark; a session may
time out between two reports, and then keeps them. *Correct when* the log tells
the alarms in force. `DeviceDiagnostics` runs beside a device's
startup machine.

### Capture, command line: `capture.py`, `__main__.py`, `models.py`

Log parsing, arguments, an index of the machines. No protocol state.

### How they interact

`app.py` feeds every received frame as an event to the machines of its node.
Behaviours send by putting a frame into the transmit queue (`queue_send`) and
schedule tasks and events on the same loop (`schedule`, `hsm.Dispatch`). FIG. 14
children run on the SC's loop, share its lists and send through its queue. A
device's companion machines share its transmit queue and its NVM file, not its
memory. Nodes share nothing but the bus. `nvm` is the only thing a restart finds
again.

## 2. Modules and how they correspond to the code

| Module | Models | Role |
| --- | --- | --- |
| `ScRam` | `SCInfo`, the SC list, the credential order | operators, used by the machine |
| `SubnetController` | `SubnetControllerStartup` of every SC, its tasks, the bus, the SC's side of FIG. 14 | the core specification and its properties |
| `LocalController` | `LocalControllerStartup`, the parameter dialog, the NVM file and the transmit queue of every device | the device's specification |
| `Site` | one SC and its devices on one bus | `SubnetController` composed with `LocalController` |
| `DeviceAssignment` | what commissioning a device promises | abstract specification, implemented by `Site` |
| `EquipmentType` | `EquipmentTypeAssignment`, several children on one device list | specification |
| `Operations` | `DeviceCommissioning`, `SCCommissioning`, `ReplacementCheck` | specification |
| `Alarms` | the alarm log, `DeviceDiagnostics`, `AlarmSession` | specification |
| `CanError` | `CANErrorConfinement` | specification |
| `Wire` | `messages.py` and `_rx_forward` | codec as operators, the tables as state |
| `MCElection`, `MCDevice`, `MCSite`, `MCMachines` | small instances | one module for each composition checked |
| `SubnetControllerProofs` | proofs (section 5) | type correctness |
| `SubnetControllerSafety` | | hard disable, audit driver |
| `SubnetControllerRivalry` | | rival leaders |
| `SubnetControllerCommissioning` | | the archive of assigned devices, their types, who waits is served |
| `LocalControllerProofs` | | types and the cap, NVM, memory and acknowledge, hard disable |
| `SiteProofs` | | the archive and the devices, the refinement |
| `MachinesProofs` | | `CanError`, `Operations`, `Alarms` |
| `EquipmentTypeProofs` | | what is recorded was offered |

### ScRam

`Rank[n]` stands for the triple (spl, dpl, prn) of an SC, its place in their
lexicographic order; `Outranks` compares ranks, then dds, as the tuples do in
`_cred_tuple`, `is_best_responsive_sc` and `we_outrank`. Address 0 is part of
every list: `SC_CONFIGURATION_FINISHED` carries no dd, and `remember_asc` files
its sender under 0.

### SubnetController

One action per (state, event) edge, or per group of edges with the same effect.
The action's first conjunct names the states and the event (`Hears`), the rest
is the effect, the target's entry and every frame they send. `Handled` says
which frames have an edge in which state; `DropFrame` is the case of none.

| Variable | Code |
| --- | --- |
| `state` | the machine's leaf state |
| `ram` | `instance.ram`, replaced on entry to pre_startup |
| `scram`, `devRam` | `instance.scram`, `instance.device_ram`: they survive `reset_entry`, not a crash |
| `soft` | `instance.soft_disabled` |
| `nvm` | `Persistence`: hard_disabled, configured, the device archive |
| `queue[n]` | frames sent and not yet handled by n |
| `pend` | events n dispatched to itself through `schedule` |
| `audits`, `sweep`, `children` | `query_unknown_scs` tasks, `_sweep_device_ram` tasks, FIG. 14 children before their seed event |
| `waits`, `holds` | the devices in wait_for_assignment, and the type each device was assigned |
| `asked` | assignments, as device and type, that a device took and has yet to acknowledge |
| `strays` | history: device and type of a child that took another device's announcement for its seed |
| `up`, `linked`, `budget` | power, transport, bounds of the environment |

Decisions a reader should know:

* **The bus.** A sent frame is appended at once to the queue of every other
  running SC; how long it stays there is the delay of transmit queue, bus and
  receive queue. All nodes see one order, as on CAN. A frame sent earlier but
  put on the bus later than another node's is the same as the step that sent it
  moved behind the other's: no step in between reads what the sender changed,
  except the sender's own, which move with it.
* **One event at a time.** `hsm` runs a dispatched event to completion and the
  receive loop awaits it, so a handler is one step, trailing sends included.
  What the code schedules (`instance.schedule`) is a step of its own.
* **Self-events** are a set: a second one of the same name that arrives while
  the first waits is handled in the same state or dropped, with the same result.
* **Boot.** `app.start` awaits the machine's start and only then creates the
  receive loop, so the hop to hard_disabled that `reset_entry` schedules is
  handled before the first frame and before any timer (`Ready`).
* **Tasks outlive states.** No audit, sweep or child is cancelled when its SC
  leaves the state that started it. `sweep` holds the devices still to be
  visited, in any order; concurrent sweeps of one device coalesce. More than
  `MaxAudits` audit tasks coalesce too.
* **Audit queries.** A task sends one SC_QUERY per unanswered SC of a snapshot;
  the frame is anonymous, so one stands for all. A query on behalf of an SC that
  answered since the snapshot is left out: its answer would change nothing.
* **What frames carry.** A field that `messages.py` does not give a message
  decodes as zero: SC_QUERY, SC_TOKEN_PASS, SC_READY_TO_TAKE_OVER and
  SC_CONFIGURATION_FINISHED have no dd, the heartbeat has a dd and no
  credentials. The edges guarded by a better challenger's SC_QUERY or
  SC_READY_TO_TAKE_OVER can therefore not be taken, and the model has none.
  `cf1`/`cf0` are never decoded either (the payload carries `cf`), so
  verification means: configured, with a valid declaration of anyone.
* **Devices** are seen from outside. Only one in wait_for_assignment has an edge for
  SC_ASSIGNMENT (`local_controller.py` 397-402), and it ignores type 0 (189-201):
  `Asked` lets the devices of `waits` take an assignment and no other, so one that is
  off, starts, is hard-disabled or assigned drops it. `DeviceWaits` enters that state
  with an announcement or repeats it; `DeviceLeaves` is a reset, a hard disable or a
  power failure, and may take an acknowledge not yet sent with it; SC_CHANGE_STATE
  moves every device that waits to `assigned` (404), where it ignores assignments
  from then on. A device that takes one stays where it is and owes an acknowledge with
  the type it was given. It takes an assignment when it is
  sent; the acknowledge is delayed (`Site` delays both). What a device announces is the
  type it holds, or its own while it holds none, or none at all (its answer to
  SC_COORDINATOR and DEVICE_DD). `DeviceAnnounce` is an announcement in any other
  state. An SC acts on an SC_ASSIGNMENT to anyone: no guard compares the dd.
* **FIG. 14 children** are started by a task that awaits `hsm.Started` and then
  dispatches the seed (`subnet_controller.py` 582-588). A DEVICE_STARTUP that the SC
  hears in between goes to every machine of its process, and the child takes it for its seed,
  whichever device sent it: `StraySeed` replaces the child's type by that frame's, the SC
  handles the frame as well, and `ChildSeeded` is the child's answer. `strays` remembers
  when the frame was another device's.
* **Operator commands** are actions without a frame. The default message table
  names the hard-disable frames `UI_G_HARD_DISABLE_CMD` and so on, and the
  machine listens to other names, so these events reach it by a message-map
  override or a direct dispatch, as in the tests.
* **Bounds.** `Room` holds back a timer or a periodic send while some queue has
  `MaxQueue` frames; the code has no such guard, it stands for timers being slow
  against the bus. `Heard` holds back a periodic frame while the same frame is
  still unheard. Crashes, send failures, announcements, commands and expiries of
  passive's deadlines have budgets.

### MCElection and the configurations

The instances have one or two SCs, no device, a sensor, two sensors, or a sensor
and an indoor unit, on a site that is new or was commissioned before
(`Installed`). In `OldSite` SC 2 archived SC 1, which had acknowledged an
assignment meant for a sensor that was off (`subnet_controller.py` 1101): so one
SC is configured from the start. In `MovedSite` both archived a sensor besides, so
both are, and SC 2 is a stranger to SC 1. `ApartSpec` starts `link_relay` on the
first with a budget for an announcement, or on the second with one for commands
and a deadline.

### LocalController

| Variable | Code |
| --- | --- |
| `mode` | the leaf state, or off |
| `memory` | `assigned_et`, `assigned_subnet`, `ram["assigned"]`, `ram["attempts"]` |
| `host`, `dialog` | the `Persistence` of the startup machine and of the dialog, with the dialog's state |
| `file` | the JSON file, or `Torn` |
| `soon` | events it dispatched to itself, in order |
| `replies`, `resends` | tasks of `respond_to_coordinator` and of `handle_bit_error_resend`, the latter by the attempt they carry |
| `outbox` | the transmit queue |
| `told`, `acked`, `wanted`, `spent` | what happened, for the properties and the bounds |

* **Writes.** Each `set` and `flush` rewrites the whole file from one machine's
  copy. Power may fail between two events, in the middle of a write (the file is
  `Torn`, and `json.loads` ends the process at the next start), and between the
  two sets of `record_assignment`. Several writes of one handler that leave the
  same file are one.
* **Copies.** `app.start` gives each of a device's four machines a runtime, and
  each loads the file at construction. The two that never write have no copy
  here.
* **Time.** `Idle` and `Still` order what the delays order: ready tasks before
  delayed ones, delayed tasks (milliseconds) before state timers. The resend's
  delay is shorter than the delivery window, so a chain of resends, once begun,
  runs to its cap or is ended by an event; nothing stops a chain when the state
  is left.
* **Attempts** are counted on entry to sending. `sent` resets them; the entry of
  wait_for_assignment counts too, which nothing reads before the next reset.
* **Enable.** `ack_enable_state` acknowledges an enable and schedules
  hard_enable_apply; neither clears `hard_disabled`, and the edge enters
  hard_disabled again, which sets it (232-254, 446-452). The enable therefore restarts
  a device that goes back to hard_disabled: the finding `deaf_enable` (section 4).
  `wanted` remembers the UI/G's last order: `DisabledStaysDisabled` is about a device
  whose last order is a disable, and says nothing once it was told to be enabled.
* **What drives it.** bit errors, UI/G commands, resets and parameter changes have
  no frame in the default message map. They are `Driven`, bounded by `MaxDriven`.

### Site and DeviceAssignment

`Site` is `SubnetController` for one SC and `LocalController` for every device,
without the actions and variables by which the SC's module stands for devices. An SC's step
that sends is conjoined with the arrival of its frames in every device's `inbox`;
a frame a device pumps out is appended to the SC's queue. Frames a device has
no edge for are left out at the sender. `Handles` and `Ignores` share each frame
between the machine's edge and none. Only the SC that runs hears; frames on
their way to a device that loses power are lost.

`DeviceAssignment` has four variables: the type each device holds, the devices
whose memory broke, the devices that were mixed up with others, the type the SC
archived. A device comes to hold the type it asked for, and the SC archives what the
device holds; of a device that is mixed up it says only that both types are of
devices of the site (`Due`). The refinement mapping takes `held` from the last
assignment the device acted on, `broken` from `file`, `mixed` from `strays` (a
child of the device took a type not its own), `archived` from the SC's nvm.

### EquipmentType

An active SC out of verification lists a device that announces itself, leaves the
entry of a listed one alone, and sends it its archived type or starts a child
(`Arrive`); in the states before, an announcement only refreshes the entry, type
included (`Announce`). There is one child per arrival of a device that the archive
has no type for. A child
takes any DEVICE_STARTUP as its seed and, while it waits, any acknowledge:
`DispatchAll` addresses nobody. Offers wait at the device, may be lost, and are
cut to `EtSpace`; newET is not. When several children of one device record one
acknowledge the last one lasts, and the model leaves open which that is.
candidate_free, candidate_collides and a status in an acknowledge come from a
driver, as in the tests: nothing in `src/` raises them.

### Operations, Alarms, CanError

* `Operations`: a device's status is an answer on its way; it reaches the SC with
  its fields (a driver's event) or without (the frame, which has no payload: the
  SC records device 0, not busy, whatever the device reported). `witness` remembers
  the devices that reported themselves busy, when they did. `ReplacementCheck`
  sees a list and an archive that change.
* `Alarms`: entries are a number and whether they are cleared; repeat counts and
  times are read by nobody. `pushed` counts newer entries, to say when an alarm
  may have left the log.
* `CanError`: what the scheduled task will write is fixed when the error is
  classified (`pushes`), so one write may undo another. Whether setting an
  attribute to the value it has is an event is the library's affair: both are
  allowed.

### Wire

`Specs` are the senders' rows, `numbers` the receiver's tables. `Encoded` builds
identifier and bits as the builders and `encode_msg` do, each address cut to a byte
and then to its field; `Decoded` undoes it by the receiver's tables and adds the
identifier's addresses as `_rx_forward` does. The values that fill the fields
are all zeros, all ones, or different in each field.

### MCMachines

The six machines that share no state with one another are checked in one run:
`focus` chooses which of them runs, the others rest, so the run explores the
sum of their state spaces.

## 3. What the runs check

| Run | Instance | Properties |
| --- | --- | --- |
| `settle` | two SCs, new site, one send failure | `RivalLeadersWillMeet`, `RivalryEnds`, `AuditEnds` |
| `link_relay` | two SCs, link-local, SC 2 archived SC 1; either a sensor announces itself once, or both archived a sensor and there are two operator commands and one passive deadline | `TypeOK`, `AuditHasDriver`, `HardDisableDurable`, `RivalLeadersWillMeet`, `WaitingIsServed` |
| `commissioning` | one SC, sensor and indoor unit, one power cycle, two announcements, one command | `AssignedIsArchived`, `ArchivedTypeIsOwn`, `HardDisableDurable`, `SeenIsAssigned` |
| `machines` | the six machines on their own, see below | `DeviceTypeOK`, `AckedIsDurable`, `SpeaksAsStored`, `DisabledStaysDisabled`, `StartupEnds`; `CanStateFollowsCounts`, `TroubleIsTold`; `LogTellsAlarms`; `ArchivedWasOffered`; `DefaultsHaveAWitness`; `HeardAsSent` |
| `site` | one SC and a furnace, a power cycle each | `ArchivedIsHeld`, `KeepsPromise` |
| `stranded_audit` | two SCs, one power cycle | `AuditEnds` is violated |
| `endless_rivalry` | two SCs, link-local | `RivalryEnds` is violated |
| `zeroed_rank` | two SCs, one passive deadline | `OnlyBestLeads` is violated |
| `stuck_device` | one SC and a sensor, nothing fails | `WaitingIsAssigned` is violated |
| `lost_disable` | one device, four driven events | `DisableIsRemembered` is violated |
| `rivals` | one SC and two sensors that announce themselves | `RivalsAreServed` is violated |
| `deaf_enable` | one device, a hard disable and a hard enable | `EnableIsObeyed` is violated |

* `RivalLeadersWillMeet`: until a send fails, of two leaders one has the other's
  heartbeat in its queue. Two leaders do arise (each finishes its audit before
  the other's heartbeat arrives); what makes that harmless is that the heartbeat
  is part of taking the lead and that no state consumes it without effect.
* `RivalryEnds`, `AuditEnds`: with failing sends a rivalry still ends, and
  while no send fails an audit ends. The code does *not* promise that a
  leader remains: two heartbeats that cross make both leaders inactive, and
  inactive has no deadline (`docs/PATENT-AUDIT.md` lists the take-over as open).
* `AuditHasDriver`: audit has no timer, only tasks started on entry and the
  event they schedule lead out of it.
* `HardDisableDurable`: nvm's flag and the state agree at every moment between a
  command, the event that follows it, a reset and a power cycle.
* `AssignedIsArchived`: what the device list calls assigned is in nvm, and nvm
  says configured only with a device in it.
* `ArchivedTypeIsOwn`: lists, children, assignments, acknowledges and frames of
  different ages carry types; what ends up in an SC's nvm for a device is one it
  announces itself with or was given before. There is one exception: a child
  that waits for its seed takes another device's DEVICE_STARTUP for it, and offers its
  target that device's type. The property says there is no other way, the
  run reaches that one (it announces a sensor and an indoor unit).
* `WaitingIsServed`: a leader has something under way for every device in
  wait_for_assignment that its list has with a type and unassigned: a visit of a
  sweep, a child, an acknowledge owed to it, or a frame of the device still to be
  handled. The device may have announced itself to another leader, or while this one was
  auditing; the acknowledge may have crossed a change of leader; completion may
  have been judged before the device was listed. It is said until a send fails, until a
  child takes a wrong announcement, of sites where no two devices share a type (that
  is the run `rivals`), and not of strangers in verification, which get
  no assignment. In `link_relay` both SCs come to lead, also at the same time with the
  sensor waiting and unassigned on both lists; a leader with the sensor
  unassigned loses the lead; both SCs end with the sensor assigned, each in some
  behaviour. An SC leads in verification there, but not while
  the sensor waits: strangers are the theorem's.
* `SeenIsAssigned`: a device that is on the list with a type and goes on waiting is
  assigned, or its SC is hard-disabled, or a crash takes the list away, or a child took
  a wrong announcement.

Of `machines`:

* `DeviceTypeOK`: besides the types, a run of sends stays within its cap, one
  more for each disturbance. A chain of resends that reaches the cap has to take
  the device back to pre_startup, or its attempts run away.
* `AckedIsDurable`: an acknowledge that reached the bus means et and subnet are
  both in the file. A power failure may leave a new et with an old subnet, but only
  before the acknowledge is on the bus.
* `SpeaksAsStored`: the type a running device announces is the one its NVM holds,
  through resets, caps and power cycles.
* `DisabledStaysDisabled`: while the UI/G's last order is a disable, a running device
  is in hard_disabled or its hop there is dispatched, through resets, caps, power
  failures, and an enable that came before the disable and takes effect after it.
* `StartupEnds`: pre_startup is left, whatever disturbs the bus.
* `CanStateFollowsCounts`: with no write under way error_active means both
  counters are within the limit, also after a recovery that clears one of them; a
  node that is off the bus has a transmit count above the limit, unless errors
  overlapped (then one write may have undone another, which the run reaches).
* `TroubleIsTold`: bus_off is entered through error_passive and its alarm only.
* `LogTellsAlarms`: each alarm in force has exactly one active entry until `MaxLog`
  newer ones push it out, one that was cleared has none.
* `ArchivedWasOffered`: a recorded type was sent to that device, though several
  children take one acknowledge and timeouts of earlier offers move newET on.
* `DefaultsHaveAWitness`: the SC empties its nvm only if some device reported itself
  busy, though statuses come late, without fields, or after the end. The
  converse does not hold: see section 4.
* `HeardAsSent`: every message of the tables, for each filling of fields and
  addresses, arrives as it was sent; under an override this holds of the messages
  whose numbers it leaves alone, and unknown numbers are learned.

Of `site`: `ArchivedIsHeld` relates the SC's nvm to the device's, across a power
failure of either, also in the middle of a write. `KeepsPromise` is the
refinement: every step of the composition is a step of `DeviceAssignment` or
leaves its variables alone. With one device no child takes another's
announcement; devices that are mixed up are in the theorems only.

**Bounds and why they are enough.** The rivalry and audit properties relate
two SCs at a time, so two are the smallest instance with every interleaving of
a pair; with three, the token pass has its own hazards (section 6).
`MaxQueue` = 2 lets a timer fire and a periodic frame be sent while another frame
is still unheard; with 1, as in `link_relay`, timers other than passive's
deadline find every queue empty, and frames cross in the steps that follow.
`link_relay` starts where one SC holds the other for a device, so that one of them
leads in verification, or where both may; its announcement and its commands
exclude each other, since together they have more states than a run of five
minutes explores, and no property there relates the two. One power cycle, one send
failure or one deadline puts one node out of step with the other, and is tried at every
point of the run. `MaxDeadline` bounds
restarts from passive, since unlimited restarts with everything else multiply the
states without new kinds of them. Ranks differ, so the SC with the better rank
does not have the better dd. In `machines`: three attempts instead of 255 make
the first, a middle and the last; both CAN limits are the code's own (128 and
256), with two writes under way so that one can undo another; three alarms for a
log of two entries; two devices of one type, two children, a space of four types
so that candidates leave it, two offers under way; two units with one status each
under way. In `site` there is one device: two devices are
related only as rivals (a run of their own) and by a stray seed (the theorems and
`commissioning`). `MaxInbox` = 2 lets
an assignment and a change of state wait together, and one power cycle of each
node falls at every point of the run. `CHECK_DEADLOCK FALSE`: SCs that are all inactive,
hard-disabled, or passive with the deadlines used up have nothing left to do, and
a device whose NVM file is torn stays off.

**Fairness.** asyncio resumes every ready task and the receive loop handles
every queued frame: weak fairness of `Receive`, `Scheduled`, `SeedChild`,
`SweepVisit` and `HeartbeatPeriod`; a node that is off is switched on again
(`Boot`); a device answers. `Timer` and `AuditStep` are strongly fair because
`Room` and `Heard`, guards of the model only, come and go: in the code the
sleeping task wakes whatever the queues hold. Nothing forces a link to recover,
a device to announce itself, or a command. `DeviceFairness`: the transmit pump is
weakly fair; timers and tasks (`Step`) are strongly fair, since `Room` and the order
that `Still` stands for come and go. `SiteFairness` says the same of both sides
of a site, and that frames are delivered and what is off is switched on; a send
that waits for room in a queue of the model is strongly fair.

**Mutants.** For each property of each passing run PROJECT.json names a mutant
of one definition (the lead taken without its sweep, a task not started when nobody
is to be queried, an enable without its event, an archive not written, a write left
in memory, one of two sets dropped, the hop back to hard_disabled forgotten, an
assignment taken by whoever waits, a repeat counted in a cleared entry, ...) and
TLC finds the property violated.

## 4. Where code and comments disagree

* **`stranded_audit`** (`subnet_controller.py:722`). The audit queries until
  every listed SC has declared; the comments say silent ones are struck off
  after a second sweep, but `mark_unresponsive_scs` runs only after the loop.
  An inactive SC drops SC_QUERY. The run shows a restarted SC that is put on
  the list and led into inactive by frames already under way.
* **`endless_rivalry`** (`subnet_controller.py:487`). On a link-local subnet a
  leader answers a heartbeat when its credentials are best, but the heartbeat
  carries none, so both leaders are best and answer each other for ever.
* **`zeroed_rank`** (`runtime.py:189`). A heartbeat overwrites the credentials
  that its sender declared with zeros and leaves them valid; the listener later
  takes the lead over a better SC.
* **`stuck_device`** (`local_controller.py:165`). A device that is waiting when its SC
  boots answers SC_COORDINATOR with a DEVICE_STARTUP that carries no et. The SC
  lists it with et 0 and seeds every child for it with that, the assignment
  carries et 0, and the device ignores it, however often it repeats its
  announcement with the et. The comments have it assigned "exactly as reported".
* **`lost_disable`** (`operations.py:403`). The parameter dialog writes its own, older
  copy of NVM over the file: a hard disable, which "persists in NVM until
  explicit enable", is gone after the next power cycle.
* **`rivals`** (`equipment_type_assignment.py:178`). Two devices of one type that
  are both unassigned are each other's rival; both children enter candidate,
  which is left only by events that nothing in `src/` raises. The docstring has
  the walk over candidates follow and a new type assigned.
* **`deaf_enable`** (`local_controller.py:232`). A hard enable is acknowledged, and
  `hard_enable_apply` restarts the device, but nothing clears `hard_disabled`: the device
  hops back. The comments have the disable last "until explicit enable" and the enable
  "restart the startup process from the top"; the SC's handler of the same name does
  clear its flag.

What the code does and no run is about:

* A device that SC_CHANGE_STATE took to `assigned` before it had an assignment has no edge for
  SC_ASSIGNMENT there. An SC that lists it unassigned, after a change of leader for one, offers in vain and is
  not finished (`local_controller.py` 404-426). The properties about assignment are
  therefore about devices in wait_for_assignment.
* A child that takes another device's DEVICE_STARTUP for its seed offers its
  target the other's type, and the target takes it (`subnet_controller.py` 582-588).
  `ArchivedTypeIsOwn` says it is the only such way.
* DEVICE_STATUS has no payload, so the SC files every status that crosses the bus under
  device 0 as not busy (`messages.py` 291-308, `operations.py` 152-157): commissioning
  ends while a device is busy.
* A device never alarms a missing heartbeat, since nothing notes one
  (`local_controller.py` 297-307); `session_timed_out` is always true, and the reports
  of a session that timed out stay for the next (`diagnostics.py` 170-177).
* An override renames what is received and not what is sent (`messages.py` 378-411):
  a message whose number it takes arrives under another name.

## 5. What is proved

Every safety invariant that a passing run checks is a theorem, with one exception,
and so is the refinement. Each is proved for every value of the constants that
the named assumptions allow; the bounds of the configurations play no part. The
strengthened invariants hold in every state TLC reaches on the instances of
section 3 as well.

**The election** (`SubnetController`; `ScRamAssumption` and
`SubnetControllerAssumption`: dds are positive numbers, SCs and devices have
different ones, bounds are natural numbers), for any number of SCs and devices, any
ranks, any archive and any environment budget:

* `TypeCorrect` (`SubnetControllerProofs`): `TypeOK` is inductive. One lemma per
  frame constructor, list operator and bus operator says what it returns; the
  step lemma has one case per action.
* `HardDisableHolds` (`SubnetControllerSafety`): `HardDisableDurable` is
  inductive together with `TypeOK`. Every action outside the hard-disable
  machinery is `Ordinary`: it touches no flag and no event of that machinery and
  neither enters nor leaves the state. The actions inside it are proved one by
  one.
* `AuditIsDriven` (`SubnetControllerSafety`): `AuditHasDriver`, likewise, from
  `KeepsDriver`.
* `RivalLeadersMeet` (`SubnetControllerRivalry`): `RivalLeadersWillMeet` holds
  only until a send fails, so the invariant adds `FaultsCounted`: failures are
  counted in the budget, and while none happened every link works. Steps of one
  SC are shown to be `Heeds`: they take no frame from another's queue, and the SC
  leads afterwards only if it has just sent its heartbeat to everybody, or led
  before and still has every heartbeat that was on its way to it. `HeedsMeets`
  derives the invariant from that alone.
* `AssignedArchived` (`SubnetControllerCommissioning`): `AssignedIsArchived` is not
  inductive: an SC with nothing archived could have assignment_phase_complete
  waiting and become configured. `ArchiveInv` adds that this event waits only
  where something is archived. All steps but `RecordAck` and
  `AssignmentPhaseComplete` are `KeepsArchive`.
* `ArchivedTypesAreOwn` (`SubnetControllerCommissioning`): a type travels from an
  announcement through the list, a child, an assignment, a device and an acknowledge to
  the archive, and each of these waits while others pass it. `TypesInv` says of all of
  them that what they hold for a device is 0 or one of `Types`: its own, the one an
  earlier commissioning gave it, or one recorded in `strays`, which only
  `StraySeed` adds to. Steps that say nothing new about devices are `Plain`; those that
  do have a lemma each.
* `WaitingAreServed` (`SubnetControllerCommissioning`): `WaitingIsServed` is not
  inductive. An assignment is lost on a link that is down, so it takes
  `FaultsCounted`; and a child whose device has a rival ends without an assignment,
  so it takes `TypesInv`, by which devices that have no type in common are nobody's
  rivals (`NobodyRivals`), whatever of their announcements is still under way. A
  `Plain` step keeps what is under way for an SC's devices and makes it a leader only
  with a sweep of its whole list (`Carries`). A step that adds to the list or ends a
  service touches one device of one SC (`Apart`), and is shown to start the next
  stage for that device: a visit starts a child or sends the archived type, a child
  sends its assignment, a device that waits takes it and owes an acknowledge, and
  recording that one marks the device as assigned. A device that leaves
  wait_for_assignment takes its acknowledge along and is no longer spoken of;
  one that enters has its announcement in every queue.

**The device** (`LocalControllerProofs`; `LocalControllerAssumption`: types and
subnets are positive numbers, so are the cap and the bounds), for any number of
devices, any cap, and any number of driven events:

* `DeviceTypeCorrect`: `DeviceTypeOK` bounds a run of sends by its cap, and that is
  not inductive: resends overlap. `InCap` counts them. A run past its cap
  leaves, for each send it is over, a disturbance that met the device and whose
  resend is no longer due; a resend due below the cap takes one from the count when
  it sends, one at the cap starts the device over. It rests on lemmas about the
  cardinality of the set of resends under way.
* `AckedStaysDurable`, `DeviceSpeaksAsStored`: `Stored` says of a running device that
  its file is whole and that memory, copy and file agree, of one that is off that it
  has dispatched nothing to itself; and that the file holds what the device was told
  as soon as an acknowledge of it is in the transmit queue, not only on the bus:
  otherwise the acknowledge could overtake the write.
* `DisabledAlwaysStays`: `Obeyed` says of a device whose last order was a
  disable, and whose file only the startup machine wrote, that the file has the flag,
  also while it is off, and that it is in hard_disabled or hops there when it runs.
  With `Stored` this is inductive: most steps are `Aside`, and a reset, by
  whichever of the four ways, dispatches the hop behind what already waits
  (`ResetStaysObeyed`).

**The site** (`SiteProofs`; the assumptions of both sides and `SiteAssumption`: there
is one SC, and the site is new), for any number of devices and failures, stray seeds
included:

* `ArchiveIsHeld`: `ArchivedIsHeld` relates two nodes that share nothing, so the
  invariant follows the types a device may have (`Ets`: none, its own, what a child of
  its took from another) all the way round. `OwnEt`: a device holds and announces such
  a type, and has one in its file for good once it acted on an assignment.
  `Report`: what waits in the SC's queue is a device's, with such a type, and an
  acknowledge there is of a device that acted. `ScKnows`: so are the SC's list, the
  children it started and its archive. `Call`: so is the assignment on its way back.
  Types only grow (`EtsGrow`), and all are of devices of the site (`TypesKnown`). A step
  of the SC disturbs only its own part (`ScStepKeeps`), a step of a device only what
  is sent (`DeviceStepKeeps`). A device that is not mixed up has one type, so
  archive and file agree. The lemmas of `SubnetControllerProofs` and
  `LocalControllerProofs` are used as they are, the latter through an instance.
* `SiteKeepsPromise`: the refinement. A step of a device that acts on an assignment,
  or loses power while at it, is `Hold`, with a type it is `Due`; any other tears the
  file (`Break`) or is a stutter; `TornStays` is why no torn device holds anything
  again. Of the SC's steps only `RecordAck` archives (`ScStepArchives`), and by the
  invariant it archives what the device holds unless the device is mixed up
  (`Archive`); `SeedsChild` mixes a device up (`MixUp`) or is a stutter.
* `SiteRunsDevices`: the devices of a site implement `LocalController`, so
  `AckedIsDurable` and `SpeaksAsStored` hold of them with the SC as it is.

**The machines on their own**, with the assumption of each (bounds are positive, types
are numbers, a unit is not the device 0 of a status without fields):

* `CanStateIsOfCounts`, `TroubleIsAlwaysTold` (`MachinesProofs`): `CanInv` adds that a
  write of zero is the first one waiting and the transmit counter's (`Clearing`),
  and that at most one write is under way until errors overlap.
* `DefaultsAlwaysHaveAWitness` (`MachinesProofs`): `OpsInv` adds that a status on its way
  or on record as busy is of a device in `witness`, and that device 0, under which
  bare statuses are filed, is never busy.
* `LogAlwaysTells` (`MachinesProofs`): `LogInv` adds where in the log the active entry
  of an alarm is: as many places from its end as entries were logged since. The
  lemmas about `Logged`, `Coalesced` and `Newest` say how entries move.
* `ArchivedWasAlwaysOffered` (`EquipmentTypeProofs`): `Offered` adds that the newET of
  every child that waits, and every assignment that may be acknowledged, cut to the
  field, was sent to that device; cutting twice is cutting once.

**Left to TLC.**

* `RivalryEnds`, `AuditEnds`, `SeenIsAssigned` and `StartupEnds`:
  liveness under fairness and ENABLED are out of the prover's reach.
* `HeardAsSent`: what a codec computes is a fold over the fields of a row, and a fact
  about a fold is an induction over its sequence. The library's induction theorems
  take an operator as parameter, which the installed provers cannot instantiate.
  The run evaluates every row of the tables for three fillings of the fields and
  three of the addresses; the rows are constants of the program.
* The properties of the runs that expect a violation, which are false there.

No module uses RECURSIVE, which would take the SMT backend away from the proofs.

**What the proofs asked of the model.** `asked` holds the type of every
assignment a device has yet to acknowledge, and the acknowledge repeats that type, as
`record_assignment` does. `strays` is a history variable: without it a theorem could not
say by which way a wrong type comes. `Heeded` picks the one SC_ASSIGNMENT of a
handler's frames by its place instead of filtering the sequence (a filter is a
recursion); an archived type is a set of at most one instead of a number that
stands for none. `SiteAssumption` says what `Site` means by its initial state: the
devices' files are blank, so the SC's archive is empty too. Commissioned sites, with
power cycles of either side, are reached from there; a site whose SC or device was
replaced by a new one is not.

## 6. What is not modelled

* Within the SC: class 6 diagnostics and the enable acknowledge (answers without
  a change of state), CONFIGURATION_ALARM (sent, and heard by no SC), the
  events `token_ack_ok` and `conflict_detected` (nothing raises them), the re-sent
  SC_STARTUP of `cfg.passive_resend` (its deadline is later
  than the 60 s one, which leaves passive first), the `assigned` list of nvm
  (written, never read by the machine).
* Time: timers are nondeterministic, subject to `Room`, `Idle` and `Still`.
* A torn write of an SC's nvm: it is atomic there; a device's is not.
* Within the device: soft_disabled (no edge enters it), heartbeat_lost (nothing
  raises it), the companions' answers to diagnostics beyond the frame.
* Within operations: `raise_unresponsive_device2` (it only sends) and
  `issue_asc_change_state` (nothing calls it); `bump_unresponsive_count`,
  `alarm_count` and the priority guards of diagnostics (nothing calls them).
* `stop()` of the application, `send_named`, the bus itself (external).
* `capture.py`, `__main__.py`, `models.py`, `tools/`: no protocol state.
* Two or more SCs with devices that run their own machine: `Site` has one SC; the
  elections of `MCElection` have devices as `SubnetController` stands for them (an
  assignment reaches a device when it is sent, only its acknowledge is delayed).
  Three SCs: their audits alone exceed a run of some minutes.

## 7. Plan

1. More of the election as theorems: what a step may never do, as action properties
   that TLC checks first.
2. A property for the hazards in PROJECT.json that have none yet, where an instance
   of some minutes shows it.
3. A site whose SC was replaced: an empty archive and devices that remember their
   type.
