----------------------------- MODULE MCMachines -----------------------------
(***************************************************************************)
(* The machines of a node that share no state, each on its own bounds:     *)
(* every behaviour is a behaviour of one of them, with the others at rest. *)
(***************************************************************************)
EXTENDS LocalController, CanError, Alarms, EquipmentType, Operations, Wire

VARIABLE focus      \* the machine that runs

Machine == {"device", "can", "alarms", "types", "operations", "wire"}

MachinesInit ==
  /\ focus \in Machine
  /\ DeviceInit /\ CanInit /\ AlarmsInit /\ EtInit /\ OpsInit /\ WireInit
  /\ focus # "operations" => backup = {} /\ present = [e \in OpsEt |-> 0]

Steps(m) ==
  \/ m = "device"     /\ DeviceNext
  \/ m = "can"        /\ CanNext
  \/ m = "alarms"     /\ AlarmsNext
  \/ m = "types"      /\ EtNext
  \/ m = "operations" /\ OpsNext
  \/ m = "wire"       /\ WireNext

Rests(m) ==
  /\ m # "device"     => UNCHANGED deviceVars
  /\ m # "can"        => UNCHANGED canVars
  /\ m # "alarms"     => UNCHANGED alarmVars
  /\ m # "types"      => UNCHANGED etVars
  /\ m # "operations" => UNCHANGED opsVars
  /\ m # "wire"       => UNCHANGED wireVars

MachinesNext == Steps(focus) /\ Rests(focus) /\ UNCHANGED focus

MachinesSpec ==
  /\ MachinesInit
  /\ [][MachinesNext]_<<focus, deviceVars, canVars, alarmVars, etVars, opsVars, wireVars>>
  /\ DeviceFairness

-----------------------------------------------------------------------------
(* Values *)

OneDev     == {8}
OneRequest == [d \in OneDev |-> 64]
TwoEts     == {[et |-> 64, subnet |-> 1], [et |-> 65, subnet |-> 0],
               [et |-> 0, subnet |-> 1]}

\* A name moved to another's number, a new name, and a name moved away.
Overrides == {[name |-> "SC_QUERY", cls |-> 5, mid |-> 262],
              [name |-> "UI_G_HARD_DISABLE", cls |-> 1, mid |-> 1],
              [name |-> "aSC_HEARTBEAT", cls |-> 3, mid |-> 77]}
=============================================================================
