--------------------------- MODULE LocalController ---------------------------
(***************************************************************************)
(* Local controllers (devices): the FIG. 12 machine of local_controller.py *)
(* with the node around it: the transmit queue, the tasks it schedules,    *)
(* and the JSON file that stands for NVM.  The process opens that file     *)
(* once per machine: the startup machine and its companion, the parameter- *)
(* change dialog of operations.py, each hold a copy of their own and write *)
(* all of it back.                                                         *)
(*                                                                         *)
(* A step is one event run to completion by one machine, one scheduled     *)
(* event, one frame put on the bus, or a loss of power, which may come in  *)
(* the middle of a handler that writes.  What the UI/G, a technician or a  *)
(* disturbed bus makes a device do is `Driven': no frame of the default    *)
(* message map carries those events.                                       *)
(***************************************************************************)
EXTENDS Naturals, Sequences, SequencesExt

CONSTANTS
  Dev,          \* the devices
  Request,      \* Request[d]: cfg.et_request
  OwnSubnet,    \* cfg.subnet
  Assignable,   \* the [et, subnet] an SC_ASSIGNMENT may carry; et may be 0
  MaxAttempt,   \* sends in a row before a device gives up: 255
  MaxOut,       \* frames waiting in a transmit queue
  MaxReplies,   \* delayed answers under way
  MaxDriven     \* driven events of one device

ASSUME LocalControllerAssumption ==
  /\ Request \in [Dev -> Nat \ {0}]
  /\ OwnSubnet \in Nat \ {0}
  /\ Assignable \subseteq [et : Nat, subnet : Nat]
  /\ {MaxAttempt, MaxOut, MaxReplies} \subseteq Nat \ {0}
  /\ MaxDriven \in Nat

VARIABLES
  mode,       \* the machine's leaf state, or off
  memory,     \* assigned_et, assigned_subnet, ram["assigned"], ram["attempts"]
  host,       \* the startup machine's copy of NVM
  dialog,     \* the dialog's state and its copy of NVM
  file,       \* the file itself
  soon,       \* events dispatched to itself, in order
  replies,    \* delayed answers to a coordinator not yet sent
  resends,    \* delayed resends, by the attempt they were scheduled at
  outbox,     \* the transmit queue
  told,       \* the last assignment the device acted on
  acked,      \* the et it has acknowledged of it, on the bus
  wanted,     \* what the UI/G last asked for
  spent       \* driven events so far, and parameter changes among them

machine    == <<mode, memory>>
images     == <<host, dialog, file>>
delayed    == <<replies, resends>>
ghosts     == <<told, acked, wanted>>
deviceVars == <<machine, images, soon, delayed, outbox, ghosts, spent>>

-----------------------------------------------------------------------------
(* Data *)

PreStartup == {"listen_only", "sending", "sent"}
Mode == PreStartup \cup {"wait_for_assignment", "assigned", "hard_disabled", "off"}

Image  == [et : Nat, subnet : Nat, hard_disabled : BOOLEAN, param : Nat]
Blank  == [et |-> 0, subnet |-> 0, hard_disabled |-> FALSE, param |-> 0]
Torn   == [torn |-> TRUE]   \* write_text truncates first: json.loads fails on it

DeviceFrame == [type : {"DEVICE_STARTUP", "DEVICE_DD", "DEVICE_ASSIGNMENT_ACK",
                        "DEVICE_STATUS", "DIAG_RESPONSE",
                        "DEVICE_UI_G_ENABLE_ACK"},
                et : Nat]
Out(t, et) == [type |-> t, et |-> et]

SelfEvent == {"ui_g_hard_disable", "hard_enable_apply"}

Unassigned == [et |-> 0, subnet |-> 0]

Up(d)    == mode[d] # "off"
Room(d)  == Len(outbox[d]) < MaxOut
\* Tasks ready now run before any timer of ten milliseconds and more expires.
Idle(d)  == soon[d] = <<>>
\* And the delayed ones before any state timer.
Still(d) == Idle(d) /\ replies[d] = 0 /\ resends[d] = {}

Put(d, fs) == outbox' = [outbox EXCEPT ![d] = @ \o fs]
Goto(d, s) == mode' = [mode EXCEPT ![d] = s]

\* Mutant: set keeps the value in memory until somebody flushes.
SetInMemory(d, image) ==
  /\ host' = [host EXCEPT ![d] = image]
  /\ UNCHANGED file

\* Persistence.set, flush: the startup machine's copy replaces the file.
Write(d, image) ==
  /\ host' = [host EXCEPT ![d] = image]
  /\ file' = [file EXCEPT ![d] = image]

\* The event that a driver outside the default message map raises.
Driven(d, changes) ==
  /\ spent[d].events < MaxDriven
  /\ spent' = [spent EXCEPT ![d] = [events  |-> @.events + 1,
                                    changes |-> @.changes + changes]]

-----------------------------------------------------------------------------
(* Entry behaviours *)

\* Mutant: the reset takes the device for a new one.
RestoredBlank(image) ==
  [et |-> 0, subnet |-> OwnSubnet, assigned |-> FALSE, attempts |-> 0]

\* What reset_entry restores from a copy of NVM.
Restored(image) ==
  [et       |-> image.et,
   subnet   |-> IF image.subnet # 0 THEN image.subnet ELSE OwnSubnet,
   assigned |-> image.et # 0,
   attempts |-> 0]

\* Mutant: nothing takes a hard-disabled device back to its state.
HopForgotten(image) == <<>>

\* The event reset_entry dispatches when the copy says hard-disabled.
Hop(image) == IF image.hard_disabled THEN <<"ui_g_hard_disable">> ELSE <<>>

\* reset_entry, which ends with a flush of the copy.
EnterPreStartup(d, image, events) ==
  /\ Goto(d, "listen_only")
  /\ memory' = [memory EXCEPT ![d] = Restored(image)]
  /\ soon' = [soon EXCEPT ![d] = events \o Hop(image)]
  /\ Write(d, image)

\* send_device_startup, the entry of sending and of wait_for_assignment
Startup(d) == Out("DEVICE_STARTUP",
                  IF memory[d].et # 0 THEN memory[d].et ELSE Request[d])

\* Mutant: every send is the first.
FirstAttempt(d) == memory' = [memory EXCEPT ![d].attempts = 1]

\* attempts is read in sending only, and is zero whenever sending is entered
\* from another state: the sends of other states are not counted.
OneMoreAttempt(d) == memory' = [memory EXCEPT ![d].attempts = @ + 1]

\* enter_hard_disabled
EnterHardDisabled(d) ==
  /\ Goto(d, "hard_disabled")
  /\ Write(d, [host[d] EXCEPT !.hard_disabled = TRUE])

-----------------------------------------------------------------------------
(* Power *)

\* The process starts: the startup machine loads the file and writes it back,
\* its companions load it after that.  A torn file ends the process at once.
DeviceBoot(d) ==
  /\ ~Up(d)
  /\ file[d] # Torn
  /\ EnterPreStartup(d, file[d], <<>>)
  /\ dialog' = [dialog EXCEPT ![d] = [state |-> "listening", data |-> file[d]]]
  /\ UNCHANGED <<delayed, outbox, ghosts, spent>>

\* Memory, tasks and the transmit queue are gone.
Dark(d) ==
  /\ Up(d)
  /\ Goto(d, "off")
  /\ memory' = [memory EXCEPT ![d] = Restored(Blank)]
  /\ host' = [host EXCEPT ![d] = Blank]
  /\ dialog' = [dialog EXCEPT ![d] = [state |-> "listening", data |-> Blank]]
  /\ soon' = [soon EXCEPT ![d] = <<>>]
  /\ replies' = [replies EXCEPT ![d] = 0]
  /\ resends' = [resends EXCEPT ![d] = {}]
  /\ outbox' = [outbox EXCEPT ![d] = <<>>]
  /\ UNCHANGED <<wanted, spent>>

\* Between two events.
PowerLoss(d) == Dark(d) /\ UNCHANGED <<file, told, acked>>

\* While the file is being rewritten, as any reset does.
PowerLossInWrite(d) ==
  /\ Dark(d)
  /\ file' = [file EXCEPT ![d] = Torn]
  /\ UNCHANGED <<told, acked>>

-----------------------------------------------------------------------------
(* Starting up *)

\* 5 s of listening are over.
ListenOnlyWindow(d) ==
  /\ mode[d] = "listen_only" /\ Still(d) /\ Room(d)
  /\ Goto(d, "sending")
  /\ Put(d, <<Startup(d)>>)
  /\ OneMoreAttempt(d)
  /\ UNCHANGED <<images, soon, delayed, ghosts, spent>>

\* handle_bit_error_resend, then the entry of sending: the delay of the resend
\* is shorter than the delivery window, so a loop once begun runs to the cap.
SendAgain(d) ==
  LET attempt == IF memory[d].attempts = 0 THEN 1 ELSE memory[d].attempts
  IN /\ Room(d)
     /\ memory' = [memory EXCEPT ![d].attempts = attempt + 1]
     /\ resends' = [resends EXCEPT ![d] = @ \cup {attempt}]
     /\ Put(d, <<Startup(d)>>)

BitErrorDetected(d) ==
  /\ mode[d] = "sending"
  /\ Driven(d, 0)
  /\ SendAgain(d)
  /\ UNCHANGED <<mode, images, soon, replies, ghosts>>

\* A resend falls due: attempt_send again, dropped outside sending.
NextResend(d, n) ==
  /\ n \in resends[d] /\ n < MaxAttempt /\ Idle(d)
  /\ IF mode[d] = "sending"
       THEN LET attempt == memory[d].attempts
            IN /\ Room(d)
               /\ OneMoreAttempt(d)
               /\ resends' = [resends EXCEPT ![d] = (@ \ {n}) \cup {attempt}]
               /\ Put(d, <<Startup(d)>>)
       ELSE /\ resends' = [resends EXCEPT ![d] = @ \ {n}]
            /\ UNCHANGED <<memory, outbox>>
  /\ UNCHANGED <<mode, images, soon, replies, ghosts, spent>>

\* Mutant: pre_startup is not left and entered, only started over.
RestartInPlace(d, n) ==
  /\ n \in resends[d] /\ n >= MaxAttempt /\ Idle(d)
  /\ resends' = [resends EXCEPT ![d] = @ \ {n}]
  /\ IF mode[d] \in PreStartup THEN Goto(d, "listen_only") ELSE UNCHANGED mode
  /\ UNCHANGED <<memory, images, soon, replies, outbox, ghosts, spent>>

\* The last one falls due: attempts starts over and, from pre_startup, so does
\* the device (restart_after_cap).
RestartAfterCap(d, n) ==
  /\ n \in resends[d] /\ n >= MaxAttempt /\ Idle(d)
  /\ resends' = [resends EXCEPT ![d] = @ \ {n}]
  /\ IF mode[d] \in PreStartup
       THEN EnterPreStartup(d, host[d], soon[d])
       ELSE /\ memory' = [memory EXCEPT ![d].attempts = 0]
            /\ UNCHANGED <<mode, host, file, soon>>
  /\ UNCHANGED <<dialog, replies, outbox, ghosts, spent>>

\* startup_delivered: to sent
Delivered(d) ==
  /\ mode[d] = "sending"
  /\ Goto(d, "sent")
  /\ memory' = [memory EXCEPT ![d].attempts = 0]

\* send_delivery_window: a send nobody objected to counts as delivered.
SendDelivered(d) ==
  /\ Delivered(d) /\ Still(d)
  /\ UNCHANGED <<images, soon, delayed, outbox, ghosts, spent>>

\* The event of that name, which no frame raises.
DeliveryReported(d) ==
  /\ Delivered(d) /\ Driven(d, 0)
  /\ UNCHANGED <<images, soon, delayed, outbox, ghosts>>

\* sent: to wait_for_assignment after the response window or at the first
\* coordinator; its entry sends the startup again, the effect answers later.
EnterWait(d) ==
  /\ mode[d] = "sent" /\ Room(d) /\ replies[d] < MaxReplies
  /\ Goto(d, "wait_for_assignment")
  /\ Put(d, <<Startup(d)>>)
  /\ replies' = [replies EXCEPT ![d] = @ + 1]
  /\ UNCHANGED <<memory, images, soon, resends, ghosts, spent>>

ResponseWindow(d) == Still(d) /\ EnterWait(d)

\* needs_repeat: every five minutes an unassigned device announces itself.
RepeatStartup(d) ==
  /\ mode[d] = "wait_for_assignment" /\ ~memory[d].assigned
  /\ Still(d) /\ outbox[d] = <<>>
  /\ Put(d, <<Startup(d)>>)
  /\ UNCHANGED <<machine, images, soon, delayed, ghosts, spent>>

\* respond_to_coordinator's task: what it says depends on now, not on then.
DelayedReply(d) ==
  /\ replies[d] > 0 /\ Idle(d) /\ Room(d)
  /\ replies' = [replies EXCEPT ![d] = @ - 1]
  /\ Put(d, <<Out(IF memory[d].assigned THEN "DEVICE_DD" ELSE "DEVICE_STARTUP", 0)>>)
  /\ UNCHANGED <<machine, images, soon, resends, ghosts, spent>>

-----------------------------------------------------------------------------
(* What the active SC sends *)

\* SC_COORDINATOR in wait_for_assignment and assigned; the latter is left and
\* entered again, which changes nothing.
HearCoordinator(d) ==
  /\ mode[d] \in {"wait_for_assignment", "assigned"}
  /\ replies[d] < MaxReplies
  /\ replies' = [replies EXCEPT ![d] = @ + 1]
  /\ UNCHANGED <<machine, images, soon, resends, outbox, ghosts, spent>>

\* assignment_for_us
ForUs(d, to, all) == all \/ to = d

Subnet(a) == IF a.subnet # 0 THEN a.subnet ELSE OwnSubnet

\* NVM after the first of record_assignment's two sets, and after the second
HalfAssigned(image, a) == [image EXCEPT !.et = a.et]
Assigned(image, a)     == [image EXCEPT !.et = a.et, !.subnet = Subnet(a)]

\* Mutant: an assignment of et 0 is taken as well.
HeedZero(d, to, all, a) ==
  /\ mode[d] = "wait_for_assignment"
  /\ ForUs(d, to, all)
  /\ told' = [told EXCEPT ![d] = [et |-> a.et, subnet |-> Subnet(a)]]
  /\ acked' = [acked EXCEPT ![d] = 0]

Heed(d, to, all, a) ==
  /\ mode[d] = "wait_for_assignment"
  /\ ForUs(d, to, all) /\ a.et # 0
  /\ told' = [told EXCEPT ![d] = [et |-> a.et, subnet |-> Subnet(a)]]
  /\ acked' = [acked EXCEPT ![d] = 0]

\* Mutant: the subnet is not stored with the et.
RecordAssignmentHalf(d, to, all, a) ==
  /\ Heed(d, to, all, a) /\ Room(d)
  /\ memory' = [memory EXCEPT ![d].et = a.et, ![d].subnet = Subnet(a),
                              ![d].assigned = TRUE]
  /\ Write(d, HalfAssigned(host[d], a))
  /\ Put(d, <<Out("DEVICE_ASSIGNMENT_ACK", a.et)>>)
  /\ UNCHANGED <<mode, dialog, soon, delayed, wanted, spent>>

\* record_assignment: an SC_ASSIGNMENT with an et, in wait_for_assignment only,
\* also from a device that has one already.  The state stays.
RecordAssignment(d, to, all, a) ==
  /\ Heed(d, to, all, a) /\ Room(d)
  /\ memory' = [memory EXCEPT ![d].et = a.et, ![d].subnet = Subnet(a),
                              ![d].assigned = TRUE]
  /\ Write(d, Assigned(host[d], a))
  /\ Put(d, <<Out("DEVICE_ASSIGNMENT_ACK", a.et)>>)
  /\ UNCHANGED <<mode, dialog, soon, delayed, wanted, spent>>

\* Power is lost between its two sets.
PowerLossInAssignment(d, to, all, a) ==
  /\ Heed(d, to, all, a)
  /\ Dark(d)
  /\ file' = [file EXCEPT ![d] = HalfAssigned(host[d], a)]

\* SC_CHANGE_STATE, assigned or not.
ChangeState(d) ==
  /\ mode[d] = "wait_for_assignment"
  /\ Goto(d, "assigned")
  /\ UNCHANGED <<memory, images, soon, delayed, outbox, ghosts, spent>>

\* answer_class6_diagnostics, in every state.
DiagQuery(d) ==
  /\ Up(d) /\ Room(d)
  /\ Put(d, <<Out("DIAG_RESPONSE", memory[d].et)>>)
  /\ UNCHANGED <<machine, images, soon, delayed, ghosts, spent>>

\* monitor_bus_while_assigned: no heartbeat is ever noted, so no alarm.
PublishStatus(d) ==
  /\ mode[d] = "assigned" /\ Still(d) /\ outbox[d] = <<>>
  /\ Put(d, <<Out("DEVICE_STATUS", 0)>>)
  /\ UNCHANGED <<machine, images, soon, delayed, ghosts, spent>>

-----------------------------------------------------------------------------
(* Hard disable, hard enable, reset *)

\* The edge to hard_disabled; in hard_disabled, through itself, with the
\* effect ack_enable_state.
TakeHardDisable(d) ==
  /\ IF mode[d] = "hard_disabled"
       THEN Room(d) /\ Put(d, <<Out("DEVICE_UI_G_ENABLE_ACK", memory[d].et)>>)
       ELSE UNCHANGED outbox
  /\ EnterHardDisabled(d)
  /\ UNCHANGED <<memory, dialog, delayed, told, acked>>

\* UI/G hard disable
HardDisable(d) ==
  /\ Up(d) /\ Driven(d, 0)
  /\ TakeHardDisable(d)
  /\ wanted' = [wanted EXCEPT ![d] = "disabled"]
  /\ UNCHANGED soon

\* UI/G hard enable: acknowledged now, applied by an event of its own; the
\* state is entered again, which sets the flag again.
HardEnable(d) ==
  /\ mode[d] = "hard_disabled" /\ Room(d) /\ Driven(d, 0)
  /\ EnterHardDisabled(d)
  /\ Put(d, <<Out("DEVICE_UI_G_ENABLE_ACK", memory[d].et)>>)
  /\ soon' = [soon EXCEPT ![d] = Append(@, "hard_enable_apply")]
  /\ wanted' = [wanted EXCEPT ![d] = "enabled"]
  /\ UNCHANGED <<memory, dialog, delayed, told, acked>>

\* RESET_COMMAND, in every state
Reset(d) ==
  /\ Up(d) /\ Driven(d, 0)
  /\ EnterPreStartup(d, host[d], soon[d])
  /\ UNCHANGED <<dialog, delayed, outbox, ghosts>>

Next1(d, e) == soon[d] # <<>> /\ Head(soon[d]) = e

\* The hop that reset_entry dispatched.
HopToHardDisabled(d) ==
  /\ Next1(d, "ui_g_hard_disable")
  /\ TakeHardDisable(d)
  /\ soon' = [soon EXCEPT ![d] = Tail(@)]
  /\ UNCHANGED <<wanted, spent>>

\* hard_enable_apply leaves hard_disabled; elsewhere it is dropped.
HardEnableApply(d) ==
  /\ Next1(d, "hard_enable_apply")
  /\ IF mode[d] = "hard_disabled"
       THEN EnterPreStartup(d, host[d], Tail(soon[d]))
       ELSE /\ soon' = [soon EXCEPT ![d] = Tail(@)]
            /\ UNCHANGED <<machine, host, file>>
  /\ UNCHANGED <<dialog, delayed, outbox, ghosts, spent>>

-----------------------------------------------------------------------------
(* The parameter-change dialog *)

\* The UI/G changes a parameter (parameter_in_allowed_range, which also takes one
\* of unknown limits): store_parameter_value writes the dialog's own copy of NVM
\* over the file.
ChangeParameter(d) ==
  /\ Up(d) /\ Driven(d, 1)
  /\ LET image == [dialog[d].data EXCEPT !.param = @ + 1]
     IN /\ dialog' = [dialog EXCEPT ![d] = [state |-> "updated", data |-> image]]
        /\ file' = [file EXCEPT ![d] = image]
  /\ UNCHANGED <<machine, host, soon, delayed, outbox, ghosts>>

\* keep_previous_parameter_value: an update out of range is only answered.
RefuseParameter(d) ==
  /\ Up(d) /\ Room(d) /\ Driven(d, 0)
  /\ Put(d, <<Out("DIAG_RESPONSE", 0)>>)
  /\ dialog' = [dialog EXCEPT ![d].state = "listening"]
  /\ UNCHANGED <<machine, host, file, soon, delayed, ghosts>>

\* asc_parameters_acked
ParametersAcked(d) ==
  /\ dialog[d].state = "updated" /\ Up(d)
  /\ dialog' = [dialog EXCEPT ![d].state = "listening"]
  /\ UNCHANGED <<machine, host, file, soon, delayed, outbox, ghosts, spent>>

-----------------------------------------------------------------------------
(* The bus *)

\* _drain_tx: the oldest frame goes out.
Pump(d) ==
  /\ outbox[d] # <<>>
  /\ outbox' = [outbox EXCEPT ![d] = Tail(@)]
  /\ acked' = [acked EXCEPT ![d] =
                 IF Head(outbox[d]).type = "DEVICE_ASSIGNMENT_ACK"
                   THEN Head(outbox[d]).et ELSE @]
  /\ UNCHANGED <<machine, images, soon, delayed, told, wanted, spent>>

-----------------------------------------------------------------------------
(* The specification *)

DeviceInit ==
  /\ mode = [d \in Dev |-> "off"]
  /\ memory = [d \in Dev |-> Restored(Blank)]
  /\ host = [d \in Dev |-> Blank]
  /\ dialog = [d \in Dev |-> [state |-> "listening", data |-> Blank]]
  /\ file = [d \in Dev |-> Blank]
  /\ soon = [d \in Dev |-> <<>>]
  /\ replies = [d \in Dev |-> 0]
  /\ resends = [d \in Dev |-> {}]
  /\ outbox = [d \in Dev |-> <<>>]
  /\ told = [d \in Dev |-> Unassigned]
  /\ acked = [d \in Dev |-> 0]
  /\ wanted = [d \in Dev |-> "enabled"]
  /\ spent = [d \in Dev |-> [events |-> 0, changes |-> 0]]

\* A state timer or a task of d.
Step(d) ==
  \/ ListenOnlyWindow(d) \/ SendDelivered(d) \/ ResponseWindow(d)
  \/ RepeatStartup(d) \/ DelayedReply(d) \/ PublishStatus(d)
  \/ HopToHardDisabled(d) \/ HardEnableApply(d)
  \/ \E n \in resends[d] : NextResend(d, n) \/ RestartAfterCap(d, n)

\* A frame from the active SC, other than an assignment.
HearSc(d) ==
  \/ EnterWait(d) \/ HearCoordinator(d) \/ ChangeState(d) \/ DiagQuery(d)

HearAssignment(d) ==
  \E to \in Dev, all \in BOOLEAN, a \in Assignable :
    \/ RecordAssignment(d, to, all, a)
    \/ PowerLossInAssignment(d, to, all, a)

Drive(d) ==
  \/ BitErrorDetected(d) \/ DeliveryReported(d) \/ Reset(d)
  \/ HardDisable(d) \/ HardEnable(d)
  \/ ChangeParameter(d) \/ RefuseParameter(d) \/ ParametersAcked(d)

DeviceNext ==
  \E d \in Dev :
    \/ DeviceBoot(d) \/ PowerLoss(d) \/ PowerLossInWrite(d)
    \/ Step(d) \/ HearSc(d) \/ HearAssignment(d) \/ Drive(d) \/ Pump(d)

DeviceSpec == DeviceInit /\ [][DeviceNext]_deviceVars

\* Timers expire, tasks resume and queued frames leave: the event loop runs.
DeviceFairness ==
  \A d \in Dev : /\ WF_deviceVars(Pump(d))
                 /\ SF_deviceVars(Step(d))

FairDeviceSpec == DeviceSpec /\ DeviceFairness

-----------------------------------------------------------------------------
(* Properties *)

\* Every variable keeps its type; a run of sends stays within its cap, one
\* more for each disturbance that met it.
DeviceTypeOK ==
  /\ mode \in [Dev -> Mode]
  /\ memory \in [Dev -> [et : Nat, subnet : Nat, assigned : BOOLEAN,
                         attempts : 0..(MaxAttempt + MaxDriven)]]
  /\ host \in [Dev -> Image]
  /\ dialog \in [Dev -> [state : {"listening", "updated"}, data : Image]]
  /\ \A d \in Dev : file[d] \in Image \/ file[d] = Torn
  /\ soon \in [Dev -> Seq(SelfEvent)]
  /\ replies \in [Dev -> 0..MaxReplies]
  /\ resends \in [Dev -> SUBSET Nat]
  /\ outbox \in [Dev -> Seq(DeviceFrame)]
  /\ told \in [Dev -> [et : Nat, subnet : Nat]]
  /\ acked \in [Dev -> Nat]
  /\ wanted \in [Dev -> {"enabled", "disabled"}]
  /\ spent \in [Dev -> [events : Nat, changes : Nat]]

\* Every change to NVM so far was the startup machine's own.
OneWriter(d) == spent[d].changes = 0 /\ file[d] # Torn

\* An assignment whose acknowledge reached the bus is in NVM, et and subnet,
\* whatever resets and power failures follow (record_assignment stores before
\* it queues the acknowledge).
AckedIsDurable ==
  \A d \in Dev : OneWriter(d) /\ acked[d] # 0 /\ acked[d] = told[d].et =>
    /\ file[d].et = told[d].et
    /\ file[d].subnet = told[d].subnet

\* What the device says of itself is what its NVM says: a device never speaks
\* under an et that a power failure would take from it.
SpeaksAsStored ==
  \A d \in Dev : Up(d) =>
    /\ memory[d].et = host[d].et
    /\ memory[d].assigned <=> memory[d].et # 0
    /\ OneWriter(d) => file[d] = host[d]

\* Hard disable outlives resets, caps, power failures and an enable that comes
\* before the disable and is applied after it: while the UI/G's last word is
\* disable, and only the startup machine wrote NVM, a device that runs is in
\* hard_disabled or hops there before anything else (reset_entry's hop).
DisabledStaysDisabled ==
  \A d \in Dev : Up(d) /\ OneWriter(d) /\ wanted[d] = "disabled" =>
    \/ mode[d] = "hard_disabled"
    \/ "ui_g_hard_disable" \in ToSet(soon[d])

\* On hard enable the device restarts the startup process from the top: it gets
\* to its first send, unless power fails or it is disabled again.
EnableIsObeyed ==
  \A d \in Dev : mode[d] = "hard_disabled" /\ wanted[d] = "enabled"
                  ~> mode[d] \in {"sending", "off"} \/ wanted[d] = "disabled"

\* Start-up ends, also on a bus that disturbs it: attempts run to their cap,
\* the device starts over, and leaves PRE STARTUP unless power fails.
StartupEnds ==
  \A d \in Dev : mode[d] \in PreStartup ~> mode[d] \notin PreStartup

\* Hard disable holds until an explicit enable (enter_hard_disabled): while the
\* UI/G's last word is disable, a device that has taken it, and runs, is in
\* hard_disabled or on its way.
DisableIsRemembered ==
  \A d \in Dev : Up(d) /\ wanted[d] = "disabled" =>
    host[d].hard_disabled
=============================================================================
