-------------------------------- MODULE Site --------------------------------
(***************************************************************************)
(* A subnet with one SC and its local controllers: SubnetController and    *)
(* LocalController on one bus.  The frames that either machine sends are   *)
(* the ones the other receives; the actions and variables by which         *)
(* SubnetController stands for the devices (DeviceWaits, DeviceLeaves,     *)
(* DeviceAnnounce, DeviceAck; waits, asked, holds) rest: the devices act.  *)
(*                                                                         *)
(* A device's transmit queue is its own; what the SC sends waits in the    *)
(* device's inbox, what a device puts on the bus waits in the SC's queue.  *)
(***************************************************************************)
EXTENDS SubnetController

CONSTANTS
  OwnSubnet,    \* the subnet's number
  MaxAttempt, MaxOut, MaxReplies, MaxDriven,     \* as in LocalController
  MaxInbox,     \* frames on their way to one device
  MaxOutage     \* power failures of the devices

\* The site is new: nobody has commissioned a device of it yet.
ASSUME SiteAssumption ==
  /\ \E n \in SC : SC = {n}
  /\ DOMAIN Installed = {}
  /\ Kind \in [Dev -> Nat \ {0}]
  /\ {OwnSubnet, MaxAttempt, MaxOut, MaxReplies} \subseteq Nat \ {0}
  /\ MaxInbox \in Nat \ {0, 1}
  /\ {MaxDriven, MaxOutage} \subseteq Nat

VARIABLES
  mode, memory, host, dialog, file, soon, replies, resends, outbox,
  told, acked, wanted, spent,     \* the devices: see LocalController
  inbox,                          \* frames each device has yet to receive
  outages                         \* power failures so far

D == INSTANCE LocalController
  WITH Request    <- Kind,
       Assignable <- {[et |-> Kind[d], subnet |-> OwnSubnet] : d \in Dev}

devices  == <<mode, memory, host, dialog, file, soon, replies, resends, outbox,
              told, acked, wanted, spent>>
scOthers == <<node, lists, tasks, nvm, asked, holds, env>>   \* all but its queue
siteVars == <<vars, devices, inbox, outages>>

-----------------------------------------------------------------------------
(* The SC's side *)

\* Every running device gets the frames fs.  A send of the SC waits for room.
ToDevices(n, fs) ==
  /\ \A d \in Dev : Len(inbox[d]) + Len(fs) <= MaxInbox
  /\ inbox' = [d \in Dev |-> IF linked[n] /\ D!Up(d) THEN inbox[d] \o fs
                                                    ELSE inbox[d]]

\* Of an arrival's or a visit's frames, the one a device has an edge for: there
\* is one SC_ASSIGNMENT among them at most.
Heeded(fs) ==
  LET at == {i \in DOMAIN fs : fs[i].type = "SC_ASSIGNMENT"}
  IN IF at = {} THEN <<>> ELSE <<fs[CHOOSE i \in at : TRUE]>>

Idle == UNCHANGED <<devices, outages>>

Coordinate(n) ==
  /\ ArbitrationWindow(n)
  /\ ToDevices(n, <<Credentials("SC_COORDINATOR", n)>>) /\ Idle

AnswerArrival(n) ==
  /\ AssignArrival(n)
  /\ ToDevices(n, Heeded(AssignFrames(n, Sender(n)))) /\ Idle

VisitDevice(n, d) ==
  /\ SweepVisit(n, d)
  /\ ToDevices(n, Heeded(AssignFrames(n, d))) /\ Idle

SeedAndAssign(n, c) ==
  /\ ChildSeeded(n, c)
  /\ ToDevices(n, IF HasRival(n, c) THEN <<>>
                  ELSE <<Assignment(c.dd, c.et, FALSE)>>) /\ Idle

\* assignment_phase_complete also sends the devices send_asc_change_state.
GoOperational(n) ==
  /\ AssignmentPhaseComplete(n)
  /\ ToDevices(n, <<Empty("SC_CHANGE_STATE")>>) /\ Idle

\* The SC's steps that send the devices nothing they have an edge for.
ScWorks(n) ==
  /\ \/ Boot(n) \/ StartupDelay(n) \/ AuditFinished(n) \/ TakeLead(n)
     \/ DeviceArrival(n) \/ IuResetDetected(n) \/ RecordAck(n)
     \/ DropFrame(n) \/ \E e \in SelfEvent : DropEvent(n, e)
  /\ UNCHANGED inbox /\ Idle

\* A device's announcement seeds a child, its own or another's.
SeedsChild(n, c) == StraySeed(n, c) /\ UNCHANGED inbox /\ Idle

\* The SC's power fails.
ScFails(n) == Crash(n) /\ UNCHANGED inbox /\ Idle

-----------------------------------------------------------------------------
(* The devices' side *)

\* What a frame of a device is to the SC.
AtSc(d, f) ==
  IF f.type \in {"DEVICE_STARTUP", "DEVICE_DD", "DEVICE_ASSIGNMENT_ACK"}
    THEN <<FromDevice(f.type, d, f.et)>>
    ELSE <<>>

\* A device's oldest frame reaches the SC, if it runs.
DeviceSends(d) ==
  /\ D!Pump(d)
  /\ \E n \in SC :
       /\ Len(queue[n]) < MaxQueue
       /\ queue' = [queue EXCEPT ![n] = IF up[n] THEN @ \o AtSc(d, Head(outbox[d]))
                                                 ELSE @]
  /\ UNCHANGED <<scOthers, inbox, outages>>

\* The machine's edge for the frame, or none.
Handles(d, f) ==
  \/ f.type = "SC_COORDINATOR" /\ (D!EnterWait(d) \/ D!HearCoordinator(d))
  \/ f.type = "SC_CHANGE_STATE" /\ D!ChangeState(d)
  \/ /\ f.type = "SC_ASSIGNMENT"
     /\ D!RecordAssignment(d, f.dd, FALSE, [et |-> f.et, subnet |-> OwnSubnet])

Ignores(d, f) ==
  /\ \/ f.type = "SC_COORDINATOR"
        /\ mode[d] \notin {"sent", "wait_for_assignment", "assigned"}
     \/ f.type # "SC_COORDINATOR" /\ mode[d] # "wait_for_assignment"
     \/ f.type = "SC_ASSIGNMENT" /\ (f.dd # d \/ f.et = 0)
  /\ UNCHANGED devices

DeviceReceives(d) ==
  /\ inbox[d] # <<>>
  /\ Handles(d, Head(inbox[d])) \/ Ignores(d, Head(inbox[d]))
  /\ inbox' = [inbox EXCEPT ![d] = Tail(@)]
  /\ UNCHANGED <<queue, scOthers, outages>>

\* Power fails, also in the middle of a write; frames on their way are lost.
DeviceFails(d) ==
  /\ outages < MaxOutage
  /\ \/ D!PowerLoss(d) \/ D!PowerLossInWrite(d)
     \/ /\ inbox[d] # <<>> /\ Head(inbox[d]).type = "SC_ASSIGNMENT"
        /\ D!PowerLossInAssignment(d, Head(inbox[d]).dd, FALSE,
             [et |-> Head(inbox[d]).et, subnet |-> OwnSubnet])
  /\ inbox' = [inbox EXCEPT ![d] = <<>>]
  /\ outages' = outages + 1
  /\ UNCHANGED <<queue, scOthers>>

DeviceWorks(d) ==
  /\ D!DeviceBoot(d) \/ D!Step(d)
  /\ UNCHANGED <<queue, scOthers, inbox, outages>>

-----------------------------------------------------------------------------
(* The specification *)

SiteInit ==
  /\ Init
  /\ D!DeviceInit
  /\ inbox = [d \in Dev |-> <<>>]
  /\ outages = 0

ScStep(n) ==
  \/ Coordinate(n) \/ AnswerArrival(n) \/ GoOperational(n)
  \/ \E d \in Dev : VisitDevice(n, d)
  \/ \E c \in children[n] : SeedAndAssign(n, c) \/ SeedsChild(n, c)
  \/ ScWorks(n) \/ ScFails(n)

DeviceStep(d) ==
  DeviceFails(d) \/ DeviceSends(d) \/ DeviceReceives(d) \/ DeviceWorks(d)

SiteNext ==
  \/ \E n \in SC : ScStep(n)
  \/ \E d \in Dev : DeviceStep(d)

SiteSpec == SiteInit /\ [][SiteNext]_siteVars

\* Both event loops run, what is off is switched on, frames are delivered; a
\* send that waits for room in a queue is strongly fair.
SiteFairness ==
  /\ \A n \in SC :
       /\ SF_siteVars(Coordinate(n)) /\ SF_siteVars(AnswerArrival(n))
       /\ SF_siteVars(GoOperational(n))
       /\ SF_siteVars(\E d \in Dev : VisitDevice(n, d))
       /\ SF_siteVars(\E c \in children[n] : SeedAndAssign(n, c))
       /\ SF_siteVars(ScWorks(n))
  /\ \A d \in Dev :
       /\ SF_siteVars(DeviceSends(d)) /\ SF_siteVars(DeviceReceives(d))
       /\ SF_siteVars(DeviceWorks(d))

FairSiteSpec == SiteSpec /\ SiteFairness

-----------------------------------------------------------------------------
(* Properties *)

\* A child of d's took another device's type from its announcement.
Mixed == {d \in Dev : Types(d) # {Kind[d]}}

\* The SC's archive never runs ahead of its devices: a device archived with an
\* et has stored that et in its own NVM, where it still is unless a power
\* failure tore the file, or the device is mixed up with another.
ArchivedIsHeld ==
  \A n \in SC, d \in Dev : nvm[n].devices[d].known =>
    \/ file[d] = D!Torn
    \/ file[d].et = nvm[n].devices[d].et
    \/ d \in Mixed

\* Nobody waits for ever: an unassigned device, which repeats its DEVICE_STARTUP
\* until assigned, gets the et it reports once an SC leads.
WaitingIsAssigned ==
  \A n \in SC, d \in Dev :
    Leader(n) /\ mode[d] = "wait_for_assignment" ~> memory[d].assigned

\* A site's devices are assigned as DeviceAssignment promises.
Promise == INSTANCE DeviceAssignment
  WITH held     <- [d \in Dev |-> told[d].et],
       broken   <- {d \in Dev : file[d] = D!Torn},
       mixed    <- Mixed,
       archived <- [d \in Dev |-> nvm[CHOOSE n \in SC : TRUE].devices[d].et]

KeepsPromise == Promise!ASpec
=============================================================================
