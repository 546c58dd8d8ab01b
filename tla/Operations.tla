------------------------------ MODULE Operations ------------------------------
(***************************************************************************)
(* The operations layer (operations.py), without the parameter dialog,     *)
(* which LocalController models: commissioning as the devices follow it    *)
(* (DeviceCommissioning, which the application starts) and as the active   *)
(* SC supervises it (SCCommissioning), and the replacement check           *)
(* (ReplacementCheck); the SC's two are started by tests only.             *)
(*                                                                         *)
(* The events are not names of frames, so a driver raises them.  A         *)
(* DEVICE_STATUS that travels on the bus loses its fields: messages.py     *)
(* gives it no payload, and the SC reads device 0, not busy.               *)
(***************************************************************************)
EXTENDS Naturals, Sequences, FiniteSets

CONSTANTS
  Unit,         \* the devices under commissioning
  OpsEt,        \* equipment types
  MaxStatus     \* statuses of one device on their way

ASSUME OperationsAssumption ==
  /\ 0 \notin Unit
  /\ OpsEt \subseteq Nat \ {0} /\ IsFiniteSet(OpsEt)
  /\ MaxStatus \in Nat

VARIABLES
  unit,         \* DeviceCommissioning of each device: its state, which also tells
                \* ram["commissioning"]: false in released only
  statuses,     \* the busy bits each device reported, on their way
  supervisor,   \* SCCommissioning's state
  ack,          \* ram["ack:.."]: the busy bit of each device, and of device 0
  witness,      \* history: the devices that reported themselves busy
  configured,   \* the SC's nvm holds something
  defaults,     \* subnet_reset_to_defaults is on its way
  check,        \* ReplacementCheck's state and the newcomer it judged
  backup,       \* the types in the archive
  present,      \* the types of the devices on the list, with their number
  enabled       \* the type the check assigned last, or 0

commissioning == <<unit, statuses, supervisor, ack, witness, configured, defaults>>
replacement   == <<check, backup, present, enabled>>
opsVars       == <<commissioning, replacement>>

-----------------------------------------------------------------------------
(* DeviceCommissioning *)

\* device_status_reply: the busy bit is the one the request expects.
StatusReply(u, busy) ==
  /\ Len(statuses[u]) < MaxStatus
  /\ statuses' = [statuses EXCEPT ![u] = Append(@, busy)]
  /\ witness' = IF busy THEN witness \cup {u} ELSE witness

\* asc_device_assignment, in in_commissioning and released
DeviceAssignment(u, busy) ==
  /\ unit[u] # "busy"
  /\ StatusReply(u, busy)
  /\ UNCHANGED <<unit, supervisor, ack, configured, defaults, replacement>>

\* asc_change_state: in_commissioning is released with a status; busy has an
\* edge of its own, which answers and stays; released is entered again.
ChangeUnitState(u, busy) ==
  /\ IF unit[u] = "released" THEN UNCHANGED <<statuses, witness>>
                            ELSE StatusReply(u, busy)
  /\ unit' = [unit EXCEPT ![u] = IF @ = "busy" THEN @ ELSE "released"]
  /\ UNCHANGED <<supervisor, ack, configured, defaults, replacement>>

\* control_busy_set, in every state
UnitBusy(u) ==
  /\ unit' = [unit EXCEPT ![u] = "busy"]
  /\ UNCHANGED <<statuses, supervisor, ack, witness, configured, defaults, replacement>>

\* control_busy_cleared: back to in_commissioning, from wherever it was busy
UnitReady(u, busy) ==
  /\ unit[u] = "busy"
  /\ unit' = [unit EXCEPT ![u] = "in_commissioning"]
  /\ StatusReply(u, busy)
  /\ UNCHANGED <<supervisor, ack, configured, defaults, replacement>>

-----------------------------------------------------------------------------
(* SCCommissioning *)

\* record_device_busy_state
RecordBusy(u, busy) == ack' = [ack EXCEPT ![u] = busy]

AnyControlBusy == \E u \in DOMAIN ack : ack[u]

\* device_status with its fields
HearStatus(u) ==
  /\ statuses[u] # <<>>
  /\ statuses' = [statuses EXCEPT ![u] = Tail(@)]
  /\ IF supervisor = "supervising"
       THEN RecordBusy(u, Head(statuses[u])) ELSE UNCHANGED ack
  /\ UNCHANGED <<unit, supervisor, witness, configured, defaults, replacement>>

\* Mutant: a status that does not say counts as busy.
HearBareStatusAsBusy(u) ==
  /\ statuses[u] # <<>>
  /\ statuses' = [statuses EXCEPT ![u] = Tail(@)]
  /\ IF supervisor = "supervising" THEN RecordBusy(0, TRUE) ELSE UNCHANGED ack
  /\ UNCHANGED <<unit, supervisor, witness, configured, defaults, replacement>>

\* device_status from the bus, or asc_change_state: device 0, not busy, whatever
\* the device reported.
HearBareStatus(u) ==
  /\ statuses[u] # <<>>
  /\ statuses' = [statuses EXCEPT ![u] = Tail(@)]
  /\ IF supervisor = "supervising" THEN RecordBusy(0, FALSE) ELSE UNCHANGED ack
  /\ UNCHANGED <<unit, supervisor, witness, configured, defaults, replacement>>

\* all_units_ready
AllUnitsReady ==
  /\ supervisor = "supervising" /\ ~AnyControlBusy
  /\ supervisor' = "done"
  /\ UNCHANGED <<unit, statuses, ack, witness, configured, defaults, replacement>>

\* installation_timed_out, and the entry of resetting (reset_subnet_to_defaults):
\* nvm is emptied, and the check's backup with it if both use one copy.
InstallationTimedOut ==
  /\ supervisor = "supervising" /\ AnyControlBusy
  /\ supervisor' = "resetting"
  /\ configured' = FALSE
  /\ backup' \in {backup, {}}
  /\ defaults' = TRUE
  /\ UNCHANGED <<unit, statuses, ack, witness, check, present, enabled>>

\* The event of the reset, which any machine of the node hears.
SubnetReset ==
  /\ defaults /\ defaults' = FALSE
  /\ supervisor' = IF supervisor = "resetting" THEN "done" ELSE supervisor
  /\ UNCHANGED <<unit, statuses, ack, witness, configured, replacement>>

-----------------------------------------------------------------------------
(* ReplacementCheck *)

Nobody == [et |-> 0, cf5 |-> FALSE, known |-> FALSE]
At(state, newcomer) == [state |-> state, newcomer |-> newcomer]

\* The archive has the type, and nobody on the list, the newcomer included.
Missing(et) == et \in backup /\ present[et] = 0

\* replacement_scenario, new_equipment_scenario, or neither.  A replacement
\* prompts the user; new equipment is soft-disabled.
Verdict6A(new) ==
  IF new.cf5 /\ Missing(new.et) THEN "commissioning_replacement"
  ELSE IF ~new.cf5 /\ ~new.known THEN "new_equipment"
  ELSE "manual"

\* device_startup
Newcomer(new) ==
  /\ check.state = "evaluating"
  /\ check' = At(Verdict6A(new), new)
  /\ UNCHANGED <<commissioning, backup, present, enabled>>

\* copy_backup_accepted: assign_missing_devices_et with what the answer carries,
\* which is taken to be the newcomer's
AcceptCopy ==
  /\ check.state = "commissioning_replacement"
  /\ check' = [check EXCEPT !.state = "copying"]
  /\ enabled' = check.newcomer.et
  /\ UNCHANGED <<commissioning, backup, present>>

\* copy_backup_declined
DeclineCopy ==
  /\ check.state = "commissioning_replacement"
  /\ check' = [check EXCEPT !.state = "manual"]
  /\ UNCHANGED <<commissioning, backup, present, enabled>>

\* copy_backup_complete: from copying when too_many_devices_of_same_type, from
\* new_equipment with an assignment; or too_many_devices_alarm.
CopyComplete ==
  /\ \/ /\ check.state = "copying"
        /\ present[check.newcomer.et] > 1
        /\ UNCHANGED enabled
     \/ /\ check.state = "new_equipment"
        /\ enabled' = check.newcomer.et
  /\ check' = [check EXCEPT !.state = "done"]
  /\ UNCHANGED <<commissioning, backup, present>>

TooManyDevices ==
  /\ check.state = "copying"
  /\ check' = [check EXCEPT !.state = "done"]
  /\ UNCHANGED <<commissioning, backup, present, enabled>>

\* The SC's list changes.
ListChanges(et, n) ==
  /\ present' = [present EXCEPT ![et] = n]
  /\ UNCHANGED <<commissioning, check, backup, enabled>>

-----------------------------------------------------------------------------
OpsInit ==
  /\ unit = [u \in Unit |-> "in_commissioning"]
  /\ statuses = [u \in Unit |-> <<>>]
  /\ supervisor = "supervising"
  /\ ack = [u \in Unit \cup {0} |-> FALSE]
  /\ witness = {}
  /\ configured = TRUE
  /\ defaults = FALSE
  /\ check = At("evaluating", Nobody)
  /\ backup \in SUBSET OpsEt
  /\ present \in [OpsEt -> 0..1]
  /\ enabled = 0

DeviceSide(u) ==
  \/ \E busy \in BOOLEAN :
       DeviceAssignment(u, busy) \/ ChangeUnitState(u, busy) \/ UnitReady(u, busy)
  \/ UnitBusy(u)

Supervision ==
  \/ \E u \in Unit : HearStatus(u) \/ HearBareStatus(u)
  \/ AllUnitsReady \/ InstallationTimedOut \/ SubnetReset

Replacement ==
  \/ \E et \in OpsEt, cf5, known \in BOOLEAN :
       Newcomer([et |-> et, cf5 |-> cf5, known |-> known])
  \/ AcceptCopy \/ DeclineCopy \/ CopyComplete \/ TooManyDevices
  \/ \E et \in OpsEt, n \in 0..2 : ListChanges(et, n)

OpsNext == (\E u \in Unit : DeviceSide(u)) \/ Supervision \/ Replacement

OpsSpec == OpsInit /\ [][OpsNext]_opsVars

-----------------------------------------------------------------------------
(* Properties *)

\* The subnet is reset to defaults on a device's word only: nvm is emptied
\* (reset_subnet_to_defaults) only if some device reported itself busy, however
\* statuses are delayed, cross the end of the supervision or come without fields.
\* The converse is not so: a busy device whose status comes bare is not waited for.
DefaultsHaveAWitness == ~configured => witness # {}
=============================================================================
