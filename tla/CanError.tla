------------------------------- MODULE CanError -------------------------------
(***************************************************************************)
(* CAN error confinement of one node (can_error.py).  A bus error is       *)
(* classified at once, from the counters as they are then; the task that   *)
(* the handler schedules writes the new value later, and that write is     *)
(* what the state's edges watch.  The application does not start this      *)
(* machine yet; its events are those of the bus-state watch it names.      *)
(***************************************************************************)
EXTENDS Naturals, Sequences

CONSTANTS
  MaxCount,     \* errors stop once a counter is this high
  MaxPush       \* scheduled writes under way

ASSUME CanErrorAssumption == {MaxCount, MaxPush} \subseteq Nat \ {0}

VARIABLES
  canState,     \* the machine's state
  txCount, rxCount,     \* its two attributes
  pushes,       \* writes scheduled and not yet done, in order
  alarmed,      \* the alarm has been sent since error_active was last entered
  burst         \* some error was classified while a write was under way

canVars == <<canState, txCount, rxCount, pushes, alarmed, burst>>

BusState == {"ERROR_ACTIVE", "ERROR_PASSIVE", "BUS_OFF"}

Push(count, value) == [count |-> count, value |-> value]

\* count_error: what the scheduled task will write
Counted(err) ==
  CASE err = "ERROR_PASSIVE" -> Push("rx", rxCount + 8)
    [] err = "BUS_OFF"       -> Push("tx", 256)
    [] err = "ERROR_ACTIVE"  -> Push("tx", txCount + 8)

CrossesPassiveLimit(tx, rx) == tx > 127 \/ rx > 127
CrossesBusOffLimit(tx)      == tx > 255

\* An edge back to the state itself: error_passive is entered again, and its
\* entry sends the alarm again (raise_comms_alarm).
BusError(err) ==
  /\ canState \in {"error_active", "error_passive"}
  /\ Len(pushes) < MaxPush /\ txCount < MaxCount /\ rxCount < MaxCount
  /\ pushes' = Append(pushes, Counted(err))
  /\ burst' = (burst \/ pushes # <<>>)
  /\ alarmed' = (alarmed \/ canState = "error_passive")
  /\ UNCHANGED <<canState, txCount, rxCount>>

\* Mutant: a counter above the upper limit takes the node off the bus at once.
OnSetAtOnce(count, tx, rx) ==
  CASE canState # "bus_off" /\ CrossesBusOffLimit(tx) -> "bus_off"
    [] canState = "error_active" /\ CrossesPassiveLimit(tx, rx) -> "error_passive"
    [] OTHER -> canState

\* Where an attribute that was set takes the machine.
OnSet(count, tx, rx) ==
  CASE canState = "error_active" /\ CrossesPassiveLimit(tx, rx) -> "error_passive"
    [] canState = "error_passive" /\ count = "tx" /\ CrossesBusOffLimit(tx) -> "bus_off"
    [] OTHER -> canState

\* hsm.Set by a task.  Whether a value set again is an event is the library's
\* affair: both are allowed.
PushDone ==
  /\ pushes # <<>>
  /\ LET p  == Head(pushes)
         tx == IF p.count = "tx" THEN p.value ELSE txCount
         rx == IF p.count = "rx" THEN p.value ELSE rxCount
     IN /\ txCount' = tx
        /\ rxCount' = rx
        /\ \/ canState' = OnSet(p.count, tx, rx)
           \/ tx = txCount /\ rx = rxCount /\ canState' = canState
  /\ pushes' = Tail(pushes)
  /\ alarmed' = (alarmed \/ canState' = "error_passive")
  /\ UNCHANGED burst

\* Mutant: the node starts again with the counters it left the bus with.
RebootUncleared ==
  /\ canState = "bus_off" /\ pushes = <<>>
  /\ canState' = "error_active"
  /\ alarmed' = FALSE
  /\ UNCHANGED <<txCount, rxCount, pushes, burst>>

\* bus_off_reset_timer: five minutes later; reboot_bus schedules the write that
\* clears the transmit counter and leaves the receive counter.
RebootBus ==
  /\ canState = "bus_off" /\ pushes = <<>>
  /\ canState' = "error_active"
  /\ pushes' = <<Push("tx", 0)>>
  /\ alarmed' = FALSE
  /\ UNCHANGED <<txCount, rxCount, burst>>

CanInit ==
  /\ canState = "error_active"
  /\ txCount = 0 /\ rxCount = 0
  /\ pushes = <<>>
  /\ alarmed = FALSE /\ burst = FALSE

CanNext == (\E err \in BusState : BusError(err)) \/ PushDone \/ RebootBus

CanSpec == CanInit /\ [][CanNext]_canVars

-----------------------------------------------------------------------------
(* Properties *)

\* With no write under way the state agrees with the counters: error_active
\* means both are within the lower limit, after a recovery too, where the
\* receive count persists; and the node is off the bus only for a transmit count
\* above the upper limit, unless errors overlapped, when one write may undo
\* another (count_error reads before its task writes).
CanStateFollowsCounts ==
  pushes = <<>> =>
    /\ canState = "error_active" => ~CrossesPassiveLimit(txCount, rxCount)
    /\ canState = "bus_off" /\ ~burst => CrossesBusOffLimit(txCount)

\* No node leaves the bus before it has alarmed the aSC of its trouble: every way to
\* bus_off goes through error_passive and its alarm.
TroubleIsTold == canState \in {"error_passive", "bus_off"} => alarmed
=============================================================================
