----------------------------- MODULE SiteProofs -----------------------------
(***************************************************************************)
(* Proofs about Site: one SC and any number of local controllers, of any   *)
(* types and with any bounds on the frames under way and the failures.     *)
(*                                                                         *)
(* The SC's steps are SubnetController's, so its type lemmas apply as they *)
(* are.  The devices' steps are LocalController's; Local instantiates the  *)
(* lemmas proved of that module with the site's devices.                   *)
(***************************************************************************)
EXTENDS Site, SubnetControllerProofs

Local == INSTANCE LocalControllerProofs
  WITH Request    <- Kind,
       Assignable <- {[et |-> Kind[d], subnet |-> OwnSubnet] : d \in Dev}

LEMMA SiteConstants ==
  /\ Local!LocalControllerAssumption
  /\ \A d \in Dev : Kind[d] \in Nat /\ Kind[d] # 0 /\ d \in Unit
  /\ OwnSubnet \in Nat /\ OwnSubnet # 0
  /\ \A n, m \in SC : n = m
  /\ \E n \in SC : SC = {n}
  /\ \A d \in Dev : d \notin DOMAIN Installed
<1>1. /\ Kind \in [Dev -> Nat \ {0}]
      /\ OwnSubnet \in Nat \ {0}
      /\ {MaxAttempt, MaxOut, MaxReplies} \subseteq Nat \ {0}
      /\ MaxDriven \in Nat
  BY SiteAssumption
<1>2. {[et |-> Kind[d], subnet |-> OwnSubnet] : d \in Dev}
        \subseteq [et : Nat, subnet : Nat]
  BY <1>1
<1>3. Local!LocalControllerAssumption
  BY <1>1, <1>2 DEF Local!LocalControllerAssumption
<1>4. QED
  BY <1>1, <1>3, SiteAssumption DEF Unit

-----------------------------------------------------------------------------
(* A device of the site is a LocalController *)

LEMMA StepIsLocal ==
  ASSUME NEW d \in Dev, D!Step(d)
  PROVE  Local!Step(d)
BY DEF D!Step, Local!Step, D!ListenOnlyWindow, Local!ListenOnlyWindow,
       D!SendDelivered, Local!SendDelivered, D!ResponseWindow,
       Local!ResponseWindow, D!RepeatStartup, Local!RepeatStartup,
       D!DelayedReply, Local!DelayedReply, D!PublishStatus,
       Local!PublishStatus, D!HopToHardDisabled, Local!HopToHardDisabled,
       D!HardEnableApply, Local!HardEnableApply, D!NextResend,
       Local!NextResend, D!RestartAfterCap, Local!RestartAfterCap,
       D!Put, Local!Put, D!Goto, Local!Goto, D!Write, Local!Write,
       D!Room, Local!Room, D!Still, Local!Still, D!Idle, Local!Idle,
       D!Startup, Local!Startup, D!Out, Local!Out, D!OneMoreAttempt,
       Local!OneMoreAttempt, D!Delivered, Local!Delivered, D!EnterWait,
       Local!EnterWait, D!EnterPreStartup, Local!EnterPreStartup,
       D!Restored, Local!Restored, D!Hop, Local!Hop, D!EnterHardDisabled,
       Local!EnterHardDisabled, D!TakeHardDisable, Local!TakeHardDisable,
       D!Next1, Local!Next1, D!PreStartup, Local!PreStartup,
       D!machine, Local!machine, D!images, Local!images, D!delayed,
       Local!delayed, D!ghosts, Local!ghosts

LEMMA PowerIsLocal ==
  ASSUME NEW d \in Dev
  PROVE  /\ D!DeviceBoot(d) => Local!DeviceBoot(d)
         /\ D!PowerLoss(d) => Local!PowerLoss(d)
         /\ D!PowerLossInWrite(d) => Local!PowerLossInWrite(d)
         /\ D!Pump(d) => Local!Pump(d)
BY DEF D!DeviceBoot, Local!DeviceBoot, D!PowerLoss, Local!PowerLoss,
       D!PowerLossInWrite, Local!PowerLossInWrite, D!Pump, Local!Pump,
       D!Dark, Local!Dark, D!Up, Local!Up, D!Torn, Local!Torn, D!Blank,
       Local!Blank, D!Goto, Local!Goto, D!Write, Local!Write,
       D!EnterPreStartup, Local!EnterPreStartup, D!Restored,
       Local!Restored, D!Hop, Local!Hop, D!machine, Local!machine,
       D!images, Local!images, D!delayed, Local!delayed, D!ghosts,
       Local!ghosts

LEMMA HearIsLocal ==
  ASSUME NEW d \in Dev
  PROVE  /\ D!EnterWait(d) => Local!EnterWait(d)
         /\ D!HearCoordinator(d) => Local!HearCoordinator(d)
         /\ D!ChangeState(d) => Local!ChangeState(d)
BY DEF D!EnterWait, Local!EnterWait, D!HearCoordinator,
       Local!HearCoordinator, D!ChangeState, Local!ChangeState,
       D!Goto, Local!Goto, D!Put, Local!Put, D!Room, Local!Room, D!Startup,
       Local!Startup, D!Out, Local!Out, D!machine, Local!machine,
       D!images, Local!images, D!delayed, Local!delayed, D!ghosts,
       Local!ghosts

LEMMA AssignmentIsLocal ==
  ASSUME NEW d \in Dev, NEW to, NEW a
  PROVE  /\ D!RecordAssignment(d, to, FALSE, a)
              => Local!RecordAssignment(d, to, FALSE, a)
         /\ D!PowerLossInAssignment(d, to, FALSE, a)
              => Local!PowerLossInAssignment(d, to, FALSE, a)
BY DEF D!RecordAssignment, Local!RecordAssignment, D!PowerLossInAssignment,
       Local!PowerLossInAssignment, D!Heed, Local!Heed, D!ForUs,
       Local!ForUs, D!Subnet, Local!Subnet, D!Assigned, Local!Assigned,
       D!HalfAssigned, Local!HalfAssigned, D!Dark, Local!Dark, D!Up,
       Local!Up, D!Blank, Local!Blank, D!Restored, Local!Restored,
       D!Goto, Local!Goto, D!Write, Local!Write, D!Put, Local!Put, D!Room,
       Local!Room, D!Out, Local!Out, D!machine, Local!machine, D!images,
       Local!images, D!delayed, Local!delayed, D!ghosts, Local!ghosts

LEMMA StartIsLocal ==
  /\ D!DeviceInit => Local!DeviceInit
  /\ UNCHANGED devices => UNCHANGED Local!deviceVars
BY DEF D!DeviceInit, Local!DeviceInit, D!Restored, Local!Restored, D!Blank,
       Local!Blank, D!Unassigned, Local!Unassigned, devices,
       Local!deviceVars, Local!machine, Local!images, Local!delayed,
       Local!ghosts

-----------------------------------------------------------------------------
(* The inductive invariant *)

\* What device d may ask for, and what it may be given.
Ets(d) == {0} \cup Types(d)

\* Whatever mixes devices up, a type is that of some device of the site.
TypesKnown == \A d \in Dev : Types(d) \subseteq {Kind[e] : e \in Dev}

\* A frame d may queue: its own et or none, and an acknowledge only of an
\* assignment that it acted on.
Said(d) ==
  {f \in Local!DeviceFrame :
     /\ f.et \in Ets(d)
     /\ f.type = "DEVICE_ASSIGNMENT_ACK" => f.et # 0 /\ told[d].et # 0}

\* The device holds no et but one it may have; it holds one for good once it acted
\* on an assignment, unless the file is torn.
OwnEt(d) ==
  /\ spent[d].changes = 0
  /\ told[d].et \in Ets(d)
  /\ file[d] # Local!Torn => file[d].et \in Ets(d)
  /\ told[d].et # 0 => file[d] = Local!Torn \/ file[d].et # 0
  /\ outbox[d] \in Seq(Said(d))

\* A frame of the SC under way to a device names an et the device may have.
Call ==
  {f \in [type : {"SC_COORDINATOR", "SC_CHANGE_STATE", "SC_ASSIGNMENT"},
          dd : Unit \cup {NoDD}, et : Nat, rank : Nat, soft : BOOLEAN] :
     f.type = "SC_ASSIGNMENT" /\ f.dd \in Dev => f.et \in Ets(f.dd)}

\* A frame under way to the SC is a device's, and an acknowledge says that the
\* device acted.
Report ==
  {f \in Frame :
     /\ f.type \in {"DEVICE_STARTUP", "DEVICE_DD", "DEVICE_ASSIGNMENT_ACK"}
     /\ f.dd \in Dev /\ f.et \in Ets(f.dd)
     /\ f.type = "DEVICE_ASSIGNMENT_ACK" => f.et # 0 /\ told[f.dd].et # 0}

\* The SC lists and offers each device such an et, and archives one only after
\* the device acted.
ScKnows(n) ==
  /\ queue[n] \in Seq(Report)
  /\ \A d \in Dev : devRam[n][d].et \in Ets(d)
  /\ \A c \in children[n] : c.dd \in Dev => c.et \in Ets(c.dd)
  /\ \A d \in Dev :
       IF nvm[n].devices[d].known
         THEN nvm[n].devices[d].et \in Types(d) /\ told[d].et # 0
         ELSE nvm[n].devices[d].et = 0

Inboxes == inbox \in [Dev -> Seq(Call)]

DevicesInv ==
  /\ Local!DeviceShape /\ Local!StoredInv /\ TypesKnown
  /\ \A d \in Dev : OwnEt(d)

SiteInv ==
  /\ TypeOK /\ DevicesInv /\ Inboxes
  /\ \A n \in SC : ScKnows(n)

-----------------------------------------------------------------------------
(* A device's types *)

\* A step takes no type from a device.
Grows == strays \subseteq strays'

LEMMA TypesHave ==
  ASSUME TypesKnown, NEW d \in Dev
  PROVE  /\ Kind[d] \in Types(d)
         /\ \A e \in Types(d) : e \in Nat /\ e # 0 /\ \E x \in Dev : e = Kind[x]
         /\ \A e \in Ets(d) : e \in Nat /\ (e # 0 => e \in Types(d))
         /\ 0 \in Ets(d) /\ Types(d) \subseteq Ets(d)
<1>1. \A e \in Types(d) : \E x \in Dev : e = Kind[x]
  BY DEF TypesKnown
<1>2. Kind[d] \in Types(d)
  BY DEF Types
<1>3. QED
  BY <1>1, <1>2, SiteConstants DEF Ets

LEMMA EtsGrow ==
  ASSUME Grows
  PROVE  /\ \A d : Types(d) \subseteq Types(d)'
         /\ \A d : Ets(d) \subseteq Ets(d)'
BY DEF Grows, Types, Ets

LEMMA TypesKept ==
  ASSUME UNCHANGED strays
  PROVE  \A d : Types(d)' = Types(d)
BY DEF Types

\* A device's assignment promises it no more than these.
LEMMA TypesAreDue ==
  ASSUME TypesKnown, NEW d \in Dev
  PROVE  Types(d) \subseteq Promise!Due(d) /\ (d \notin Mixed => Types(d) = {Kind[d]})
<1>1. d \notin Mixed => Types(d) = {Kind[d]}
  BY DEF Mixed
<1>2. QED
  BY <1>1 DEF TypesKnown, Promise!Due

-----------------------------------------------------------------------------
(* What a device holds *)

LEMMA RunningHolds ==
  ASSUME DevicesInv, NEW d \in Dev, Local!Up(d)
  PROVE  /\ file[d] = host[d] /\ file[d] # Local!Torn
         /\ host[d] \in Local!Image
         /\ host[d].et \in Ets(d) /\ memory[d].et = host[d].et
         /\ told[d].et # 0 => host[d].et # 0
<1>1. Local!Stored(d) /\ OwnEt(d)
  BY DEF DevicesInv, Local!StoredInv
<1>2. file[d] # Local!Torn /\ memory[d].et = host[d].et
  BY <1>1 DEF Local!Stored
<1>3. Local!OneWriter(d)
  BY <1>1, <1>2 DEF OwnEt, Local!OneWriter
<1>4. file[d] = host[d]
  BY <1>1, <1>3 DEF Local!Stored
<1>5. host[d] \in Local!Image
  BY DEF DevicesInv, Local!DeviceShape
<1>6. QED
  BY <1>1, <1>2, <1>4, <1>5 DEF OwnEt

LEMMA SaidFrames ==
  ASSUME TypesKnown, NEW d \in Dev, NEW e \in Ets(d),
         NEW t \in {"DEVICE_STARTUP", "DEVICE_DD", "DEVICE_STATUS",
                    "DEVICE_UI_G_ENABLE_ACK"}
  PROVE  Local!Out(t, e) \in Said(d)
<1>1. e \in Nat
  BY TypesHave
<1>2. QED
  BY <1>1 DEF Said, Local!Out, Local!DeviceFrame

LEMMA StartupSaid ==
  ASSUME DevicesInv, NEW d \in Dev, Local!Up(d)
  PROVE  Local!Startup(d) \in Said(d)
<1>1. TypesKnown /\ memory[d].et \in Ets(d) /\ Kind[d] \in Ets(d)
  BY RunningHolds, TypesHave DEF DevicesInv
<1>2. QED
  BY <1>1, SaidFrames DEF Local!Startup

LEMMA PutSaid ==
  ASSUME DevicesInv, NEW d \in Dev, NEW f \in Said(d), Local!Put(d, <<f>>)
  PROVE  outbox'[d] \in Seq(Said(d))
<1>1. outbox[d] \in Seq(Said(d)) /\ outbox \in [Dev -> Seq(Local!DeviceFrame)]
  BY DEF DevicesInv, OwnEt, Local!DeviceShape
<1>2. outbox'[d] = outbox[d] \o <<f>>
  BY <1>1 DEF Local!Put
<1>3. QED
  BY <1>1, <1>2

\* A step that leaves the stored et and the assignment alone.
LEMMA MildKeepsEt ==
  ASSUME NEW d \in Dev, OwnEt(d),
         told'[d] = told[d], spent'[d].changes = spent[d].changes,
         \/ file'[d] = file[d]
         \/ file'[d] = Local!Torn
         \/ file[d] # Local!Torn /\ file'[d].et = file[d].et,
         outbox'[d] \in Seq(Said(d)), Grows
  PROVE  OwnEt(d)'
<1>1. Ets(d) \subseteq Ets(d)'
  BY EtsGrow
<1>2. Said(d) \subseteq Said(d)'
  BY <1>1 DEF Said
<1>3. outbox'[d] \in Seq(Said(d)')
  BY <1>2
<1>4. QED
  BY <1>1, <1>3 DEF OwnEt

\* A step that writes nothing and may say something.
LEMMA SayingKeepsEt ==
  ASSUME DevicesInv, NEW d \in Dev,
         UNCHANGED <<file, told, spent>>, Grows,
         outbox' = outbox \/ \E f \in Said(d) : Local!Put(d, <<f>>)
  PROVE  OwnEt(d)'
<1>1. OwnEt(d)
  BY DEF DevicesInv
<1>2. outbox'[d] \in Seq(Said(d))
  BY <1>1, PutSaid DEF OwnEt
<1>3. QED
  BY <1>1, <1>2, MildKeepsEt

\* The startup machine starts over from its copy.
LEMMA ResetKeepsEt ==
  ASSUME DevicesInv, NEW d \in Dev, NEW events, Local!Up(d),
         Local!EnterPreStartup(d, host[d], events),
         UNCHANGED <<told, outbox, spent>>, Grows
  PROVE  OwnEt(d)'
<1>1. OwnEt(d)
  BY DEF DevicesInv
<1>2. file'[d] = host[d]
  BY DEF Local!EnterPreStartup, Local!Write, DevicesInv, Local!DeviceShape
<1>3. file'[d] = file[d]
  BY <1>2, RunningHolds
<1>4. QED
  BY <1>1, <1>3, MildKeepsEt DEF OwnEt

LEMMA StepKeepsEt ==
  ASSUME DevicesInv, NEW d \in Dev, Local!Step(d), Grows
  PROVE  OwnEt(d)'
<1> USE DEF Local!machine, Local!images, Local!delayed, Local!ghosts
<1>1. Local!Stored(d) /\ Local!DeviceShape /\ TypesKnown
  BY DEF DevicesInv, Local!StoredInv
<1>2. CASE Local!ListenOnlyWindow(d)
  <2>1. Local!Startup(d) \in Said(d)
    BY <1>2, StartupSaid DEF Local!ListenOnlyWindow, Local!Up
  <2>2. QED
    BY <1>2, <2>1, SayingKeepsEt DEF Local!ListenOnlyWindow
<1>3. CASE Local!SendDelivered(d)
  BY <1>3, SayingKeepsEt DEF Local!SendDelivered
<1>4. CASE Local!ResponseWindow(d)
  <2>1. Local!Startup(d) \in Said(d)
    BY <1>4, StartupSaid DEF Local!ResponseWindow, Local!EnterWait, Local!Up
  <2>2. QED
    BY <1>4, <2>1, SayingKeepsEt DEF Local!ResponseWindow, Local!EnterWait
<1>5. CASE Local!RepeatStartup(d)
  <2>1. Local!Startup(d) \in Said(d)
    BY <1>5, StartupSaid DEF Local!RepeatStartup, Local!Up
  <2>2. QED
    BY <1>5, <2>1, SayingKeepsEt DEF Local!RepeatStartup
<1>6. CASE Local!DelayedReply(d)
  <2>1. 0 \in Ets(d)
    BY DEF Ets
  <2>2. Local!Out(IF memory[d].assigned THEN "DEVICE_DD" ELSE "DEVICE_STARTUP", 0)
          \in Said(d)
    BY <1>1, <2>1, SaidFrames
  <2>3. QED
    BY <1>6, <2>2, SayingKeepsEt DEF Local!DelayedReply
<1>7. CASE Local!PublishStatus(d)
  <2>1. Local!Out("DEVICE_STATUS", 0) \in Said(d)
    BY <1>1, SaidFrames DEF Ets
  <2>2. QED
    BY <1>7, <2>1, SayingKeepsEt DEF Local!PublishStatus
<1>8. CASE Local!HopToHardDisabled(d)
  <2>1. Local!Up(d)
    BY <1>1, <1>8 DEF Local!HopToHardDisabled, Local!Next1, Local!Stored
  <2>2. /\ file'[d].et = host[d].et
        /\ told' = told /\ spent' = spent
        /\ \/ outbox' = outbox
           \/ Local!Put(d, <<Local!Out("DEVICE_UI_G_ENABLE_ACK", memory[d].et)>>)
    <3>1. /\ Local!EnterHardDisabled(d)
          /\ told' = told /\ spent' = spent
          /\ \/ outbox' = outbox
             \/ Local!Put(d, <<Local!Out("DEVICE_UI_G_ENABLE_ACK", memory[d].et)>>)
      BY <1>8 DEF Local!HopToHardDisabled, Local!TakeHardDisable
    <3>2. file'[d] = [host[d] EXCEPT !.hard_disabled = TRUE]
      BY <1>1, <3>1 DEF Local!EnterHardDisabled, Local!Write, Local!DeviceShape
    <3>3. file'[d].et = host[d].et
      BY <2>1, <3>2, RunningHolds DEF Local!Image
    <3>4. QED
      BY <3>1, <3>3
  <2>3. Local!Out("DEVICE_UI_G_ENABLE_ACK", memory[d].et) \in Said(d)
    BY <1>1, <2>1, RunningHolds, SaidFrames
  <2>4. OwnEt(d) /\ outbox'[d] \in Seq(Said(d))
    BY <2>2, <2>3, PutSaid DEF DevicesInv, OwnEt
  <2>5. QED
    BY <2>1, <2>2, <2>4, RunningHolds, MildKeepsEt
<1>9. CASE Local!HardEnableApply(d)
  <2>1. CASE mode[d] = "hard_disabled"
    BY <1>9, <2>1, ResetKeepsEt DEF Local!HardEnableApply, Local!Up
  <2>2. CASE mode[d] # "hard_disabled"
    BY <1>9, <2>2, SayingKeepsEt DEF Local!HardEnableApply
  <2>3. QED
    BY <2>1, <2>2
<1>10. ASSUME NEW k \in resends[d], Local!NextResend(d, k)
       PROVE  OwnEt(d)'
  <2>1. CASE mode[d] = "sending"
    <3>1. Local!Startup(d) \in Said(d)
      BY <2>1, StartupSaid DEF Local!Up
    <3>2. QED
      BY <1>10, <2>1, <3>1, SayingKeepsEt DEF Local!NextResend
  <2>2. CASE mode[d] # "sending"
    BY <1>10, <2>2, SayingKeepsEt DEF Local!NextResend
  <2>3. QED
    BY <2>1, <2>2
<1>11. ASSUME NEW k \in resends[d], Local!RestartAfterCap(d, k)
       PROVE  OwnEt(d)'
  <2>1. CASE mode[d] \in Local!PreStartup
    BY <1>11, <2>1, ResetKeepsEt
       DEF Local!RestartAfterCap, Local!Up, Local!PreStartup
  <2>2. CASE mode[d] \notin Local!PreStartup
    BY <1>11, <2>2, SayingKeepsEt DEF Local!RestartAfterCap
  <2>3. QED
    BY <2>1, <2>2
<1>12. QED
  BY <1>2, <1>3, <1>4, <1>5, <1>6, <1>7, <1>8, <1>9, <1>10, <1>11 DEF Local!Step

LEMMA HearKeepsEt ==
  ASSUME DevicesInv, NEW d \in Dev, Grows,
         Local!EnterWait(d) \/ Local!HearCoordinator(d) \/ Local!ChangeState(d)
  PROVE  OwnEt(d)'
<1> USE DEF Local!machine, Local!images, Local!delayed, Local!ghosts
<1>1. CASE Local!EnterWait(d)
  <2>1. Local!Startup(d) \in Said(d)
    BY <1>1, StartupSaid DEF Local!EnterWait, Local!Up
  <2>2. QED
    BY <1>1, <2>1, SayingKeepsEt DEF Local!EnterWait
<1>2. CASE Local!HearCoordinator(d)
  BY <1>2, SayingKeepsEt DEF Local!HearCoordinator
<1>3. CASE Local!ChangeState(d)
  BY <1>3, SayingKeepsEt DEF Local!ChangeState
<1>4. QED
  BY <1>1, <1>2, <1>3

LEMMA PowerKeepsEt ==
  ASSUME DevicesInv, NEW d \in Dev, Grows,
         \/ Local!DeviceBoot(d) \/ Local!PowerLoss(d)
         \/ Local!PowerLossInWrite(d) \/ Local!Pump(d)
  PROVE  OwnEt(d)'
<1> USE DEF Local!machine, Local!images, Local!delayed, Local!ghosts
<1>1. OwnEt(d) /\ Local!DeviceShape
  BY DEF DevicesInv
<1>2. CASE Local!DeviceBoot(d)
  <2>1. file'[d] = file[d]
    BY <1>1, <1>2 DEF Local!DeviceBoot, Local!EnterPreStartup, Local!Write,
                      Local!DeviceShape
  <2>2. outbox' = outbox /\ told' = told /\ spent' = spent
    BY <1>2 DEF Local!DeviceBoot
  <2>3. QED
    BY <1>1, <2>1, <2>2, MildKeepsEt DEF OwnEt
<1>3. CASE Local!PowerLoss(d) \/ Local!PowerLossInWrite(d)
  <2>1. /\ file'[d] = file[d] \/ file'[d] = Local!Torn
        /\ outbox'[d] = <<>> /\ told' = told /\ spent' = spent
    BY <1>1, <1>3 DEF Local!PowerLoss, Local!PowerLossInWrite, Local!Dark,
                      Local!DeviceShape
  <2>2. outbox'[d] \in Seq(Said(d))
    BY <2>1
  <2>3. QED
    BY <1>1, <2>1, <2>2, MildKeepsEt
<1>4. CASE Local!Pump(d)
  <2>1. outbox'[d] = Tail(outbox[d]) /\ outbox[d] # <<>>
    BY <1>1, <1>4 DEF Local!Pump, Local!DeviceShape
  <2>2. outbox'[d] \in Seq(Said(d))
    BY <1>1, <2>1 DEF OwnEt
  <2>3. UNCHANGED <<file, told, spent>>
    BY <1>4 DEF Local!Pump
  <2>4. QED
    BY <1>1, <2>2, <2>3, MildKeepsEt
<1>5. QED
  BY <1>2, <1>3, <1>4

\* The device stores the et it is given and says so, or loses power before.
LEMMA AssignmentKeepsEt ==
  ASSUME DevicesInv, NEW d \in Dev, NEW to, NEW e \in Types(d), NEW a,
         a = [et |-> e, subnet |-> OwnSubnet], Grows,
         \/ Local!RecordAssignment(d, to, FALSE, a)
         \/ Local!PowerLossInAssignment(d, to, FALSE, a)
  PROVE  /\ OwnEt(d)'
         /\ told'[d].et = e /\ file[d] # Local!Torn /\ file'[d] # Local!Torn
<1> USE DEF Local!images
<1>1. OwnEt(d) /\ Local!DeviceShape
  BY DEF DevicesInv
<1>2. /\ Local!Heed(d, to, FALSE, a) /\ Local!Up(d)
      /\ a.et = e /\ e \in Nat /\ e # 0 /\ e \in Ets(d) /\ Ets(d) \subseteq Ets(d)'
      /\ a.subnet = OwnSubnet /\ Local!Subnet(a) \in Nat
  BY SiteConstants, TypesHave, EtsGrow
     DEF DevicesInv, Local!RecordAssignment, Local!PowerLossInAssignment, Local!Heed,
         Local!Up, Local!Subnet
<1>3. told'[d].et = e
  BY <1>1, <1>2 DEF Local!Heed, Local!DeviceShape
<1>4. host[d] \in Local!Image /\ file[d] # Local!Torn
  BY <1>2, RunningHolds
<1>5. Said(d) \subseteq Said(d)'
  BY <1>2, <1>3 DEF Said
<1>6. CASE Local!RecordAssignment(d, to, FALSE, a)
  <2>1. /\ file'[d] = Local!Assigned(host[d], a)
        /\ outbox'[d] = outbox[d] \o <<Local!Out("DEVICE_ASSIGNMENT_ACK", e)>>
        /\ spent' = spent
    BY <1>1, <1>2, <1>6
       DEF Local!RecordAssignment, Local!Write, Local!Put, Local!DeviceShape
  <2>2. file'[d] \in Local!Image /\ file'[d].et = e
    BY <1>2, <1>4, <2>1 DEF Local!Assigned, Local!Image
  <2>3. Local!Out("DEVICE_ASSIGNMENT_ACK", e) \in Said(d)'
    BY <1>2, <1>3 DEF Said, Local!Out, Local!DeviceFrame
  <2>4. outbox[d] \in Seq(Said(d)')
    BY <1>1, <1>5 DEF OwnEt
  <2>5. outbox'[d] \in Seq(Said(d)')
    BY <2>1, <2>3, <2>4
  <2>6. file'[d] # Local!Torn
    BY <2>2 DEF Local!Image, Local!Torn
  <2>7. OwnEt(d)'
    BY <1>1, <1>2, <1>3, <2>1, <2>2, <2>5, <2>6 DEF OwnEt
  <2>8. QED
    BY <1>3, <1>4, <2>6, <2>7
<1>7. CASE Local!PowerLossInAssignment(d, to, FALSE, a)
  <2>1. /\ file'[d] = Local!HalfAssigned(host[d], a)
        /\ outbox'[d] = <<>> /\ spent' = spent
    BY <1>1, <1>2, <1>7
       DEF Local!PowerLossInAssignment, Local!Dark, Local!DeviceShape
  <2>2. file'[d] \in Local!Image /\ file'[d].et = e
    BY <1>2, <1>4, <2>1 DEF Local!HalfAssigned, Local!Image
  <2>3. outbox'[d] \in Seq(Said(d)')
    BY <2>1
  <2>4. file'[d] # Local!Torn
    BY <2>2 DEF Local!Image, Local!Torn
  <2>5. OwnEt(d)'
    BY <1>1, <1>2, <1>3, <2>1, <2>2, <2>3, <2>4 DEF OwnEt
  <2>6. QED
    BY <1>3, <1>4, <2>4, <2>5
<1>8. QED
  BY <1>6, <1>7

-----------------------------------------------------------------------------
(* A step of a device *)

\* A device that acted on an assignment has acted on one.
StillTold == \A e \in Dev : told[e].et # 0 => told'[e].et # 0

\* What the site's steps do to the devices, as LocalController has it.
DevicesMove ==
  \/ UNCHANGED devices
  \/ \E d \in Dev : Local!DeviceAction(d) /\ OwnEt(d)'

LEMMA DevicesKeepInv ==
  ASSUME DevicesInv, DevicesMove, Grows, TypesKnown'
  PROVE  DevicesInv'
<1>1. [Local!DeviceNext]_Local!deviceVars
  BY StartIsLocal DEF DevicesMove, Local!DeviceNext, Local!DeviceAction
<1>2. Local!DeviceShape'
  BY <1>1, SiteConstants, Local!NextShape DEF DevicesInv
<1>3. Local!StoredInv'
  BY <1>1, <1>2, SiteConstants, Local!NextKeepsStored DEF DevicesInv
<1>4. ASSUME NEW e \in Dev
      PROVE  OwnEt(e)'
  <2>1. OwnEt(e)
    BY DEF DevicesInv
  <2>2. ASSUME /\ told'[e] = told[e] /\ spent'[e] = spent[e]
               /\ file'[e] = file[e] /\ outbox'[e] = outbox[e]
        PROVE  OwnEt(e)'
    BY <2>1, <2>2, MildKeepsEt DEF OwnEt
  <2>3. CASE UNCHANGED devices
    BY <2>2, <2>3 DEF devices
  <2>4. ASSUME NEW d \in Dev, Local!DeviceAction(d), OwnEt(d)'
        PROVE  OwnEt(e)'
    <3>1. CASE e = d
      BY <2>4, <3>1
    <3>2. CASE e # d
      <4>1. Local!Same(e)
        BY <2>4, <3>2, SiteConstants, Local!OthersAreSame DEF DevicesInv
      <4>2. QED
        BY <2>2, <4>1 DEF Local!Same
    <3>3. QED
      BY <3>1, <3>2
  <2>5. QED
    BY <2>3, <2>4 DEF DevicesMove
<1>5. QED
  BY <1>2, <1>3, <1>4 DEF DevicesInv

LEMMA CallHead ==
  ASSUME Inboxes, NEW d \in Dev, inbox[d] # <<>>
  PROVE  Head(inbox[d]) \in Call /\ Tail(inbox[d]) \in Seq(Call)
BY DEF Inboxes

\* The assignment at the head of a device's inbox is for that device.
LEMMA AssignmentIsOwn ==
  ASSUME TypesKnown,
         NEW d \in Dev, NEW f \in Call, f.type = "SC_ASSIGNMENT", NEW a,
         a = [et |-> f.et, subnet |-> OwnSubnet],
         \/ D!RecordAssignment(d, f.dd, FALSE, a)
         \/ D!PowerLossInAssignment(d, f.dd, FALSE, a)
  PROVE  f.et \in Types(d) /\ Local!HearAssignment(d)
<1>1. f.dd = d /\ f.et # 0
  BY DEF D!RecordAssignment, D!PowerLossInAssignment, D!Heed, D!ForUs
<1>2. f.et \in Types(d)
  BY <1>1 DEF Call, Ets
<1>3. \E e \in Dev : f.et = Kind[e]
  BY <1>2, TypesHave
<1>4. a \in {[et |-> Kind[e], subnet |-> OwnSubnet] : e \in Dev}
  BY <1>3
<1>5. \/ Local!RecordAssignment(d, f.dd, FALSE, a)
      \/ Local!PowerLossInAssignment(d, f.dd, FALSE, a)
  BY AssignmentIsLocal
<1>6. QED
  BY <1>1, <1>2, <1>4, <1>5 DEF Local!HearAssignment

\* What a device does but act on an assignment.
Otherwise(d) ==
  \/ Local!DeviceBoot(d) \/ Local!PowerLoss(d) \/ Local!PowerLossInWrite(d)
  \/ Local!Step(d) \/ Local!Pump(d)
  \/ Local!EnterWait(d) \/ Local!HearCoordinator(d) \/ Local!ChangeState(d)

LEMMA OtherwiseIsSilent ==
  ASSUME NEW d \in Dev, Otherwise(d)
  PROVE  told' = told
BY DEF Otherwise, Local!DeviceBoot, Local!PowerLoss, Local!PowerLossInWrite,
       Local!Pump, Local!EnterWait, Local!HearCoordinator, Local!ChangeState,
       Local!Step, Local!ListenOnlyWindow, Local!SendDelivered,
       Local!ResponseWindow, Local!RepeatStartup, Local!DelayedReply,
       Local!PublishStatus, Local!HopToHardDisabled, Local!TakeHardDisable,
       Local!HardEnableApply, Local!NextResend, Local!RestartAfterCap,
       Local!ghosts

\* A device whose file is torn is off: it neither starts nor writes.
LEMMA TornStays ==
  ASSUME DevicesInv, NEW d \in Dev, Otherwise(d), file[d] = Local!Torn
  PROVE  file'[d] = Local!Torn
<1> USE DEF Local!images
<1>1. mode[d] = "off" /\ ~Local!Up(d)
  BY RunningHolds DEF Local!Up
<1>2. soon[d] = <<>>
  BY <1>1 DEF DevicesInv, Local!StoredInv, Local!Stored
<1>3. CASE Local!PowerLossInWrite(d)
  BY <1>3 DEF Local!PowerLossInWrite, DevicesInv, Local!DeviceShape
<1>4. CASE Local!Step(d)
  BY <1>1, <1>2, <1>4
     DEF Local!Step, Local!ListenOnlyWindow, Local!SendDelivered,
         Local!ResponseWindow, Local!RepeatStartup, Local!DelayedReply,
         Local!PublishStatus, Local!HopToHardDisabled, Local!Next1,
         Local!HardEnableApply, Local!NextResend, Local!RestartAfterCap,
         Local!PreStartup, Local!EnterWait
<1>5. CASE Local!DeviceBoot(d)
  BY <1>5 DEF Local!DeviceBoot
<1>6. CASE \/ Local!PowerLoss(d) \/ Local!Pump(d) \/ Local!EnterWait(d)
           \/ Local!HearCoordinator(d) \/ Local!ChangeState(d)
  BY <1>6 DEF Local!PowerLoss, Local!Pump, Local!EnterWait,
              Local!HearCoordinator, Local!ChangeState
<1>7. QED
  BY <1>3, <1>4, <1>5, <1>6 DEF Otherwise

LEMMA OtherwiseKeepsEt ==
  ASSUME DevicesInv, NEW d \in Dev, Otherwise(d), Grows
  PROVE  OwnEt(d)' /\ Local!DeviceAction(d)
BY StepKeepsEt, HearKeepsEt, PowerKeepsEt
   DEF Otherwise, Local!DeviceAction, Local!HearSc

\* d acts on an assignment of an et that it may have, or loses power while at it.
Acts(d) ==
  /\ Local!HearAssignment(d)
  /\ \E to \in Unit \cup {NoDD}, e \in Types(d) :
       LET a == [et |-> e, subnet |-> OwnSubnet]
       IN \/ Local!RecordAssignment(d, to, FALSE, a)
          \/ Local!PowerLossInAssignment(d, to, FALSE, a)

LEMMA ActingKeepsEt ==
  ASSUME DevicesInv, NEW d \in Dev, Acts(d), Grows
  PROVE  /\ OwnEt(d)' /\ Local!DeviceAction(d)
         /\ told'[d].et \in Types(d) /\ file[d] # Local!Torn /\ file'[d] # Local!Torn
BY AssignmentKeepsEt DEF Acts, Local!DeviceAction

\* Each step of a device is one of LocalController's.
LEMMA DeviceStepIs ==
  ASSUME SiteInv, NEW d \in Dev, DeviceStep(d)
  PROVE  UNCHANGED devices \/ Otherwise(d) \/ Acts(d)
<1> DEFINE f == Head(inbox[d])
           a == [et |-> f.et, subnet |-> OwnSubnet]
<1>1. CASE DeviceSends(d) \/ DeviceWorks(d)
  BY <1>1, PowerIsLocal, StepIsLocal DEF DeviceSends, DeviceWorks, Otherwise
<1>2. ASSUME inbox[d] # <<>>, f.type = "SC_ASSIGNMENT",
             \/ D!RecordAssignment(d, f.dd, FALSE, a)
             \/ D!PowerLossInAssignment(d, f.dd, FALSE, a)
      PROVE  Acts(d)
  <2>1. f \in Call /\ TypesKnown
    BY <1>2, CallHead DEF SiteInv, DevicesInv
  <2>2. f.et \in Types(d) /\ Local!HearAssignment(d)
    BY <1>2, <2>1, AssignmentIsOwn
  <2>3. \/ Local!RecordAssignment(d, f.dd, FALSE, a)
        \/ Local!PowerLossInAssignment(d, f.dd, FALSE, a)
    BY <1>2, AssignmentIsLocal
  <2>4. f.dd \in Unit \cup {NoDD}
    BY <2>1 DEF Call
  <2> HIDE DEF f
  <2>5. QED
    BY <2>2, <2>3, <2>4 DEF Acts
<1>3. CASE DeviceReceives(d)
  <2>1. inbox[d] # <<>> /\ (Handles(d, f) \/ Ignores(d, f))
    BY <1>3 DEF DeviceReceives
  <2>2. CASE D!EnterWait(d) \/ D!HearCoordinator(d) \/ D!ChangeState(d)
    BY <2>2, HearIsLocal DEF Otherwise
  <2>3. CASE f.type = "SC_ASSIGNMENT" /\ D!RecordAssignment(d, f.dd, FALSE, a)
    BY <1>2, <2>1, <2>3
  <2>4. CASE Ignores(d, f)
    BY <2>4 DEF Ignores
  <2>5. QED
    BY <2>1, <2>2, <2>3, <2>4 DEF Handles
<1>4. CASE DeviceFails(d)
  BY <1>2, <1>4, PowerIsLocal DEF DeviceFails, Otherwise
<1>5. QED
  BY <1>1, <1>3, <1>4 DEF DeviceStep

\* A step of a device keeps its et its own, and no other device is touched.
LEMMA DeviceStepMoves ==
  ASSUME SiteInv, NEW d \in Dev, DeviceStep(d)
  PROVE  DevicesMove /\ StillTold /\ UNCHANGED strays
<1>0. UNCHANGED strays
  BY DEF DeviceStep, DeviceFails, DeviceSends, DeviceReceives, DeviceWorks,
         scOthers, env, devs
<1>1. DevicesInv /\ Local!DeviceShape /\ TypesKnown /\ Grows
  BY <1>0 DEF SiteInv, DevicesInv, Grows
<1>2. ASSUME Local!DeviceAction(d), OwnEt(d)',
             told[d].et # 0 => told'[d].et # 0
      PROVE  DevicesMove /\ StillTold
  <2>1. \A e \in Dev \ {d} : told'[e] = told[e]
    BY <1>1, <1>2, SiteConstants, Local!OthersAreSame DEF Local!Same
  <2>2. QED
    BY <1>2, <2>1 DEF DevicesMove, StillTold
<1>3. CASE UNCHANGED devices
  BY <1>0, <1>3 DEF DevicesMove, StillTold, devices
<1>4. CASE Otherwise(d)
  BY <1>0, <1>1, <1>2, <1>4, OtherwiseIsSilent, OtherwiseKeepsEt
<1>5. CASE Acts(d)
  BY <1>0, <1>1, <1>2, <1>5, ActingKeepsEt, TypesHave
<1>6. QED
  BY <1>0, <1>3, <1>4, <1>5, DeviceStepIs

-----------------------------------------------------------------------------
(* A step of the SC *)

\* With one SC on the bus, what it sends reaches no SC.
LEMMA AloneOnBus ==
  ASSUME TypeOK, NEW n \in SC, NEW fs
  PROVE  /\ Send(n, fs) => queue' = queue
         /\ Reply(n, fs) => queue' = [queue EXCEPT ![n] = Tail(@)]
<1>1. ASSUME NEW q, q = [m \in SC |-> q[m]]
      PROVE  OnBus(n, fs, q) = q
  <2>1. OnBus(n, fs, q) = [m \in SC |-> q[m]]
    BY SiteConstants DEF OnBus
  <2>2. QED
    BY <1>1, <2>1
<1>2. queue = [m \in SC |-> queue[m]]
  BY DEF TypeOK
<1>3. [queue EXCEPT ![n] = Tail(@)]
        = [m \in SC |-> [queue EXCEPT ![n] = Tail(@)][m]]
  BY <1>2
<1>4. QED
  BY <1>1, <1>2, <1>3 DEF Send, Reply

LEMMA TypeScStep ==
  ASSUME TypeOK, NEW n \in SC, ScStep(n)
  PROVE  TypeOK'
<1>1. CASE Coordinate(n)
  BY <1>1, TypeTimer DEF Coordinate, Timer
<1>2. CASE AnswerArrival(n)
  BY <1>2, TypeReceive DEF AnswerArrival, Receive
<1>3. CASE GoOperational(n)
  BY <1>3, TypeScheduled DEF GoOperational, Scheduled
<1>4. ASSUME NEW d \in Dev, VisitDevice(n, d)
      PROVE  TypeOK'
  <2>1. d \in Unit /\ SweepVisit(n, d)
    BY <1>4 DEF VisitDevice, Unit
  <2>2. QED
    BY <2>1, TypeTask DEF Task
<1>5. ASSUME NEW c \in children[n], SeedAndAssign(n, c)
      PROVE  TypeOK'
  BY <1>5, TypeTask DEF SeedAndAssign, Task, SeedChild
<1>6. CASE ScWorks(n)
  <2>1. CASE Boot(n)
    BY <2>1, TypeStep DEF Next
  <2>2. CASE StartupDelay(n)
    BY <2>2, TypeTimer DEF Timer
  <2>3. CASE AuditFinished(n)
    BY <2>3, TypeTask DEF Task, AuditStep
  <2>4. CASE \/ TakeLead(n) \/ IuResetDetected(n)
             \/ \E e \in SelfEvent : DropEvent(n, e)
    BY <2>4, TypeScheduled DEF Scheduled
  <2>5. CASE DeviceArrival(n) \/ RecordAck(n) \/ DropFrame(n)
    BY <2>5, TypeReceive DEF Receive
  <2>6. QED
    BY <1>6, <2>1, <2>2, <2>3, <2>4, <2>5 DEF ScWorks
<1>7. CASE ScFails(n)
  BY <1>7, TypeEnvironment DEF ScFails, Environment
<1>8. ASSUME NEW c \in children[n], SeedsChild(n, c)
      PROVE  TypeOK'
  BY <1>8, TypeTask DEF SeedsChild, Task
<1>9. QED
  BY <1>1, <1>2, <1>3, <1>4, <1>5, <1>6, <1>7, <1>8 DEF ScStep

LEMMA ScStepIsIdle ==
  ASSUME NEW n \in SC, ScStep(n)
  PROVE  UNCHANGED <<devices, outages>>
BY DEF ScStep, Coordinate, AnswerArrival, GoOperational, VisitDevice,
       SeedAndAssign, SeedsChild, ScWorks, ScFails, Idle

\* Only another device's announcement gives a device one more type.
LEMMA ScStepMixes ==
  ASSUME NEW n \in SC, ScStep(n)
  PROVE  /\ Grows
         /\ UNCHANGED strays \/ \E c \in children[n] : SeedsChild(n, c)
<1>1. ASSUME NEW c \in children[n], SeedsChild(n, c)
      PROVE  Grows
  BY <1>1 DEF SeedsChild, StraySeed, Grows
<1>2. CASE \/ Coordinate(n) \/ AnswerArrival(n) \/ GoOperational(n)
           \/ \E d \in Dev : VisitDevice(n, d)
           \/ \E c \in children[n] : SeedAndAssign(n, c)
           \/ ScFails(n)
  <2>1. UNCHANGED strays
    BY <1>2
       DEF Coordinate, ArbitrationWindow, AnswerArrival, AssignArrival,
           GoOperational, AssignmentPhaseComplete, VisitDevice, SweepVisit,
           SeedAndAssign, ChildSeeded, ScFails, Crash, env, devs
  <2>2. QED
    BY <2>1 DEF Grows
<1>3. CASE ScWorks(n)
  <2>1. UNCHANGED strays
    BY <1>3
       DEF ScWorks, Boot, StartupDelay, AuditFinished, TakeLead,
           DeviceArrival, IuResetDetected, RecordAck, DropFrame, DropEvent,
           env, devs
  <2>2. QED
    BY <2>1 DEF Grows
<1>4. QED
  BY <1>1, <1>2, <1>3 DEF ScStep

\* The frame at the head of the queue is a device's own.
LEMMA ReportHead ==
  ASSUME NEW n \in SC, ScKnows(n), queue[n] # <<>>
  PROVE  /\ Head(queue[n]) \in Report /\ Tail(queue[n]) \in Seq(Report)
         /\ Sender(n) \in Dev /\ Sender(n) \in Unit
         /\ Head(queue[n]).et \in Ets(Sender(n))
<1>1. Head(queue[n]) \in Report /\ Tail(queue[n]) \in Seq(Report)
  BY DEF ScKnows
<1>2. QED
  BY <1>1 DEF Report, Sender, Unit

\* Handling a frame, or sending, leaves a queue of reports.
LEMMA QueueKeeps ==
  ASSUME TypeOK, NEW n \in SC, ScKnows(n), UNCHANGED told, Grows,
         \/ queue' = queue
         \/ queue' = [queue EXCEPT ![n] = <<>>]
         \/ \E fs : Send(n, fs)
         \/ queue[n] # <<>> /\ \E fs : Reply(n, fs)
  PROVE  queue'[n] \in Seq(Report)'
<1>1. Report \subseteq Report'
  BY EtsGrow DEF Report
<1>2. queue[n] \in Seq(Report) /\ queue \in [SC -> Seq(Frame)]
  BY DEF ScKnows, TypeOK
<1>3. \/ queue'[n] = queue[n] \/ queue'[n] = <<>>
      \/ queue[n] # <<>> /\ queue'[n] = Tail(queue[n])
  BY <1>2, AloneOnBus
<1>4. queue'[n] \in Seq(Report)
  <2>1. CASE queue'[n] = queue[n]
    BY <1>2, <2>1, Zenon
  <2>2. CASE queue'[n] = <<>>
    BY <2>2
  <2>3. CASE queue[n] # <<>> /\ queue'[n] = Tail(queue[n])
    BY <2>3, ReportHead
  <2>4. QED
    BY <1>3, <2>1, <2>2, <2>3
<1>5. QED
  BY <1>1, <1>4

\* A step that learns nothing of a device.
LEMMA LearnsNothing ==
  ASSUME NEW n \in SC, ScKnows(n), UNCHANGED told,
         queue'[n] \in Seq(Report)',
         devRam'[n] = devRam[n], children'[n] \subseteq children[n],
         nvm'[n].devices = nvm[n].devices, Grows
  PROVE  ScKnows(n)'
BY EtsGrow DEF ScKnows

\* assign_et_si_for_device: a device new to the list enters with its own et.
LEMMA AssignLearns ==
  ASSUME TypeOK, NEW n \in SC, NEW d \in Dev, NEW e \in Ets(d), ScKnows(n),
         AssignEtSi(n, d, e), UNCHANGED <<told, nvm>>, Grows,
         queue'[n] \in Seq(Report)'
  PROVE  ScKnows(n)'
<1> DEFINE entry == IF d \in Known(n) THEN devRam[n][d] ELSE Announced(NoDevice, e)
<1>1. d \in Unit /\ devRam \in [SC -> [Unit -> DeviceEntry]]
      /\ children \in [SC -> SUBSET [dd : Unit, et : Nat]]
      /\ Dev \subseteq Unit
  BY SiteConstants DEF TypeOK
<1>2. entry.et \in Ets(d)
  <2>1. devRam[n][d].et \in Ets(d)
    BY DEF ScKnows
  <2>2. Announced(NoDevice, e).et \in Ets(d)
    BY DEF Announced, NoDevice, Ets
  <2>3. QED
    BY <2>1, <2>2
<1>3. /\ devRam' = [devRam EXCEPT ![n][d] = entry]
      /\ children'[n] \subseteq children[n] \cup {[dd |-> d, et |-> entry.et]}
  BY <1>1 DEF AssignEtSi
<1> HIDE DEF entry
<1>4. \A x \in Dev : devRam'[n][x].et \in Ets(x)
  <2>1. \A x \in Dev : devRam'[n][x] = IF x = d THEN entry ELSE devRam[n][x]
    BY <1>1, <1>3
  <2>2. QED
    BY <1>2, <2>1 DEF ScKnows
<1>5. \A c \in children'[n] : c.dd \in Dev => c.et \in Ets(c.dd)
  BY <1>2, <1>3 DEF ScKnows
<1>6. QED
  BY <1>4, <1>5, EtsGrow DEF ScKnows

LEMMA ArrivalLearns ==
  ASSUME TypeOK, NEW n \in SC, ScKnows(n), DeviceArrival(n), UNCHANGED told,
         Grows
  PROVE  ScKnows(n)'
<1> DEFINE d == Sender(n)
           entry == Announced(devRam[n][d], Head(queue[n]).et)
<1>1. queue[n] # <<>> /\ Take(n)
  BY DEF DeviceArrival, Hears
<1>2. d \in Dev /\ d \in Unit /\ Head(queue[n]).et \in Ets(d) /\ Dev \subseteq Unit
  BY <1>1, ReportHead, SiteConstants
<1>3. devRam \in [SC -> [Unit -> DeviceEntry]] /\ devRam[n][d].et \in Ets(d)
  BY <1>2 DEF TypeOK, ScKnows
<1>4. entry.et \in Ets(d)
  BY <1>2, <1>3 DEF Announced
<1>5. devRam' = [devRam EXCEPT ![n][d] = entry] /\ UNCHANGED <<children, nvm>>
  BY <1>2, <1>3 DEF DeviceArrival
<1>6. queue'[n] \in Seq(Report)'
  BY <1>1, QueueKeeps DEF Take
<1> HIDE DEF d, entry
<1>7. \A x \in Dev : devRam'[n][x] = IF x = d THEN entry ELSE devRam[n][x]
  BY <1>2, <1>3, <1>5
<1>8. \A x \in Dev : devRam'[n][x].et \in Ets(x)
  BY <1>4, <1>7 DEF ScKnows
<1>9. QED
  BY <1>5, <1>6, <1>8, EtsGrow DEF ScKnows

\* record_assignment_ack archives a device with the et it acted on.
LEMMA AckArchives ==
  ASSUME TypeOK, NEW n \in SC, ScKnows(n), RecordAck(n), UNCHANGED told,
         TypesKnown, Grows
  PROVE  /\ ScKnows(n)'
         /\ \/ nvm' = nvm
            \/ /\ Sender(n) \in Dev /\ told[Sender(n)].et # 0
               /\ \E e \in Types(Sender(n)) :
                    nvm' = [nvm EXCEPT ![n].devices[Sender(n)] =
                                         [known |-> TRUE, et |-> e]]
<1> DEFINE d == Sender(n)
           e == Head(queue[n]).et
           entry == Recorded(devRam[n][d], e)
<1>1. /\ queue[n] # <<>> /\ Take(n)
      /\ Head(queue[n]).type = "DEVICE_ASSIGNMENT_ACK"
  BY DEF RecordAck, Hears
<1>2. /\ d \in Dev /\ d \in Unit /\ Dev \subseteq Unit
      /\ e \in Types(d) /\ told[d].et # 0
      /\ e # 0 /\ e \in Ets(d)
  <2>1. Head(queue[n]) \in Report
    BY <1>1, ReportHead
  <2>2. QED
    BY <1>1, <2>1, SiteConstants, TypesHave DEF Report, Sender
<1>3. /\ devRam \in [SC -> [Unit -> DeviceEntry]] /\ nvm \in [SC -> NvmType]
      /\ devRam[n][d] \in DeviceEntry
  BY <1>2 DEF TypeOK
<1>4. entry.et = e
  BY <1>2, <1>3 DEF Recorded, Announced, DeviceEntry
<1>5. queue'[n] \in Seq(Report)'
  BY <1>1, QueueKeeps DEF Take
<1>6. UNCHANGED children
  BY DEF RecordAck
<1>7. CASE d \in Known(n)
  <2>1. /\ devRam' = [devRam EXCEPT ![n][d] = entry]
        /\ nvm' = [nvm EXCEPT ![n].devices[d] = [known |-> TRUE, et |-> e]]
    BY <1>4, <1>7 DEF RecordAck
  <2> HIDE DEF d, e, entry
  <2>2. \A x \in Dev : devRam'[n][x] = IF x = d THEN entry ELSE devRam[n][x]
    BY <1>2, <1>3, <2>1
  <2>3. \A x \in Dev : devRam'[n][x].et \in Ets(x)
    BY <1>2, <1>4, <2>2 DEF ScKnows
  <2>4. \A x \in Dev : nvm'[n].devices[x] =
          IF x = d THEN [known |-> TRUE, et |-> e] ELSE nvm[n].devices[x]
    BY <1>2, <1>3, <2>1 DEF NvmType
  <2>5. \A x \in Dev : IF nvm'[n].devices[x].known
          THEN nvm'[n].devices[x].et \in Types(x) /\ told[x].et # 0
          ELSE nvm'[n].devices[x].et = 0
    BY <1>2, <2>4 DEF ScKnows
  <2>6. ScKnows(n)'
    BY <1>5, <1>6, <2>3, <2>5, EtsGrow DEF ScKnows
  <2>7. QED
    BY <1>2, <2>1, <2>6 DEF d
<1>8. CASE d \notin Known(n)
  <2>1. UNCHANGED <<devRam, nvm>>
    BY <1>8 DEF RecordAck
  <2>2. QED
    BY <1>5, <1>6, <2>1, LearnsNothing
<1>9. QED
  BY <1>7, <1>8

-----------------------------------------------------------------------------
(* What the SC sends its devices *)

\* A frame that, if it is an assignment, is a Call.
Sent == {f \in Frame : f.type = "SC_ASSIGNMENT" => f \in Call}

LEMMA CallFrames ==
  ASSUME NEW n \in SC
  PROVE  /\ Credentials("SC_COORDINATOR", n) \in Call
         /\ Empty("SC_CHANGE_STATE") \in Call
         /\ \A d \in Unit, e \in Nat, s \in BOOLEAN :
              (d \in Dev => e \in Ets(d)) => Assignment(d, e, s) \in Call
<1>1. Rank[n] \in Nat /\ n \in Unit
  BY DesignatorType DEF Unit
<1>2. Credentials("SC_COORDINATOR", n) \in Call
  BY <1>1 DEF Call, Credentials, From, Empty
<1>3. Empty("SC_CHANGE_STATE") \in Call
  BY DEF Call, Empty
<1>4. ASSUME NEW d \in Unit, NEW e \in Nat, NEW s \in BOOLEAN,
             d \in Dev => e \in Ets(d)
      PROVE  Assignment(d, e, s) \in Call
  BY <1>4 DEF Call, Assignment, FromDevice, From, Empty
<1>5. QED
  BY <1>2, <1>3, <1>4

LEMMA AssignFramesSent ==
  ASSUME TypeOK, NEW n \in SC, NEW d \in Dev, ScKnows(n)
  PROVE  AssignFrames(n, d) \in Seq(Sent)
<1>1. d \in Unit /\ nvm[n].devices[d].et \in Nat /\ soft[n] \in BOOLEAN
  BY SiteConstants DEF TypeOK, NvmType, Archive
<1>2. nvm[n].devices[d].et \in Ets(d) /\ 0 \in Ets(d)
  BY DEF ScKnows, Ets
<1>3. From("aSC_HEARTBEAT", n) \in Sent
  <2>1. From("aSC_HEARTBEAT", n) \in Frame
    BY ScFrameType DEF FromSc
  <2>2. From("aSC_HEARTBEAT", n).type # "SC_ASSIGNMENT"
    BY DEF From, Empty
  <2>3. QED
    BY <2>1, <2>2 DEF Sent
<1>4. Assignment(d, 0, FALSE) \in Sent
  BY <1>1, <1>2, CallFrames, UnitFrameType DEF Sent
<1>5. Assignment(d, nvm[n].devices[d].et, soft[n]) \in Sent
  BY <1>1, <1>2, CallFrames, UnitFrameType DEF Sent
<1>6. Empty("DEVICE_SOFT_DISABLE_ALARM") \in Sent
  <2>1. Empty("DEVICE_SOFT_DISABLE_ALARM") \in Frame
    BY EmptyType DEF Anonymous
  <2>2. Empty("DEVICE_SOFT_DISABLE_ALARM").type # "SC_ASSIGNMENT"
    BY DEF Empty
  <2>3. QED
    BY <2>1, <2>2 DEF Sent
<1>7. ASSUME NEW f \in Sent, NEW g \in Sent
      PROVE  <<f>> \in Seq(Sent) /\ <<f, g>> \in Seq(Sent)
  OBVIOUS
<1>8. /\ <<From("aSC_HEARTBEAT", n)>> \in Seq(Sent)
      /\ <<Assignment(d, 0, FALSE), Empty("DEVICE_SOFT_DISABLE_ALARM")>> \in Seq(Sent)
      /\ <<Assignment(d, nvm[n].devices[d].et, soft[n])>> \in Seq(Sent)
      /\ <<>> \in Seq(Sent)
  <2>1. <<>> \in Seq(Sent)
    OBVIOUS
  <2>2. QED
    BY <1>3, <1>4, <1>5, <1>6, <1>7, <2>1
<1>9. ASSUME NEW fs \in Seq(Sent)
      PROVE  <<From("aSC_HEARTBEAT", n)>> \o fs \in Seq(Sent)
  BY <1>8
<1>10. CASE Stranger(n, d)
  BY <1>8, <1>9, <1>10 DEF AssignFrames
<1>11. CASE ~Stranger(n, d) /\ Archived(n, d)
  BY <1>8, <1>9, <1>11 DEF AssignFrames
<1>12. CASE ~Stranger(n, d) /\ ~Archived(n, d)
  BY <1>8, <1>9, <1>12 DEF AssignFrames
<1>13. QED
  BY <1>10, <1>11, <1>12

LEMMA HeededCalls ==
  ASSUME NEW fs \in Seq(Sent)
  PROVE  Heeded(fs) \in Seq(Call)
<1> DEFINE at == {i \in DOMAIN fs : fs[i].type = "SC_ASSIGNMENT"}
<1>1. \A i \in at : fs[i] \in Call
  BY DEF Sent
<1>2. CASE at = {}
  BY <1>2 DEF Heeded
<1>3. CASE at # {}
  <2>1. (CHOOSE i \in at : TRUE) \in at
    BY <1>3
  <2>2. Heeded(fs) = <<fs[CHOOSE i \in at : TRUE]>>
    BY <1>3 DEF Heeded
  <2> HIDE DEF at
  <2>3. QED
    BY <1>1, <2>1, <2>2
<1>4. QED
  BY <1>2, <1>3

LEMMA SendingKeepsInboxes ==
  ASSUME Inboxes, NEW n \in SC, NEW fs \in Seq(Call), ToDevices(n, fs), Grows
  PROVE  Inboxes'
<1>1. Call \subseteq Call'
  BY EtsGrow DEF Call
<1>2. \A d \in Dev : inbox'[d] \in Seq(Call)
  BY DEF Inboxes, ToDevices
<1>3. \A d \in Dev : inbox'[d] \in Seq(Call')
  BY <1>1, <1>2
<1>4. inbox' = [d \in Dev |-> inbox'[d]]
  BY DEF ToDevices
<1>5. QED
  BY <1>3, <1>4 DEF Inboxes

LEMMA InboxesStay ==
  ASSUME Inboxes, UNCHANGED inbox, Grows
  PROVE  Inboxes'
<1>1. Call \subseteq Call'
  BY EtsGrow DEF Call
<1>2. \A d \in Dev : inbox[d] \in Seq(Call')
  BY <1>1 DEF Inboxes
<1>3. QED
  BY <1>2 DEF Inboxes

\* A child that takes an announcement for its seed offers the type announced.
LEMMA SeedMixes ==
  ASSUME SiteInv, NEW n \in SC, NEW c \in children[n], SeedsChild(n, c), Grows,
         UNCHANGED told
  PROVE  ScKnows(n)' /\ Inboxes' /\ TypesKnown'
<1> DEFINE f == Head(queue[n])
<1>1. /\ TypeOK /\ ScKnows(n) /\ Inboxes /\ TypesKnown
      /\ queue[n] # <<>> /\ f \in Report
  BY ReportHead DEF SiteInv, DevicesInv, SeedsChild, StraySeed, Hears
<1>2. PICK taken : /\ taken = [c EXCEPT !.et = f.et]
                   /\ children' = [children EXCEPT ![n] = (@ \ {c}) \cup {taken}]
                   /\ strays' = IF f.dd = c.dd THEN strays ELSE strays \cup {taken}
  BY DEF SeedsChild, StraySeed
<1>3. UNCHANGED <<queue, devRam, nvm, inbox>>
  BY DEF SeedsChild, StraySeed, Quiet, lists
<1>4. taken.dd = c.dd /\ taken.et = f.et
  BY <1>1, <1>2 DEF TypeOK
<1>5. f.dd \in Dev /\ f.et \in Ets(f.dd)
  BY <1>1 DEF Report
<1>6. f.et # 0 => \E x \in Dev : f.et = Kind[x]
  BY <1>1, <1>5, TypesHave
<1> HIDE DEF f
<1>7. taken.dd \in Dev => taken.et \in Ets(taken.dd)'
  <2>1. CASE f.dd = c.dd
    BY <1>4, <1>5, <2>1, EtsGrow
  <2>2. CASE f.dd # c.dd
    BY <1>2, <2>2 DEF Ets, Types
  <2>3. QED
    BY <2>1, <2>2
<1>8. ScKnows(n)'
  <2>1. queue'[n] \in Seq(Report)'
    BY <1>1, <1>3, QueueKeeps
  <2>2. \A k \in children'[n] : k \in children[n] \/ k = taken
    BY <1>1, <1>2 DEF TypeOK
  <2>3. \A k \in children'[n] : k.dd \in Dev => k.et \in Ets(k.dd)'
    BY <1>1, <1>7, <2>2, EtsGrow DEF ScKnows
  <2>4. QED
    BY <1>1, <1>3, <2>1, <2>3, EtsGrow DEF ScKnows
<1>9. TypesKnown'
  <2>1. \A d, e : e \in Types(d)' =>
          \/ e \in Types(d)
          \/ e # 0 /\ e = taken.et
    <3>1. strays' \subseteq strays \cup {taken}
      BY <1>2
    <3>2. QED
      BY <3>1 DEF Types
  <2>2. \A d \in Dev : \A e \in Types(d)' : \E x \in Dev : e = Kind[x]
    BY <1>1, <1>4, <1>6, <2>1, TypesHave
  <2>3. QED
    BY <2>2 DEF TypesKnown
<1>10. QED
  BY <1>1, <1>3, <1>8, <1>9, InboxesStay

\* Each step of the SC offers every device its own et, and records no other.
LEMMA ScStepKeeps ==
  ASSUME SiteInv, NEW n \in SC, ScStep(n)
  PROVE  ScKnows(n)' /\ Inboxes'
<1>1. TypeOK /\ ScKnows(n) /\ Inboxes /\ TypesKnown
  BY DEF SiteInv, DevicesInv
<1>2. UNCHANGED told /\ Grows
  BY ScStepIsIdle, ScStepMixes DEF devices
<1>3. children \in [SC -> SUBSET [dd : Unit, et : Nat]] /\ nvm \in [SC -> NvmType]
  BY <1>1 DEF TypeOK
<1>4. CASE Coordinate(n)
  <2>1. /\ Send(n, <<Credentials("SC_COORDINATOR", n)>>)
        /\ UNCHANGED <<devRam, children, nvm>>
        /\ ToDevices(n, <<Credentials("SC_COORDINATOR", n)>>)
    BY <1>4 DEF Coordinate, ArbitrationWindow, lists
  <2>2. <<Credentials("SC_COORDINATOR", n)>> \in Seq(Call)
    BY CallFrames
  <2>3. QED
    BY <1>1, <1>2, <2>1, <2>2, QueueKeeps, LearnsNothing, SendingKeepsInboxes
<1>5. CASE AnswerArrival(n)
  <2>1. /\ AssignEtSi(n, Sender(n), Head(queue[n]).et) /\ UNCHANGED nvm
        /\ Reply(n, AssignFrames(n, Sender(n))) /\ queue[n] # <<>>
        /\ ToDevices(n, Heeded(AssignFrames(n, Sender(n))))
    BY <1>5 DEF AnswerArrival, AssignArrival, Hears
  <2>2. Sender(n) \in Dev /\ Head(queue[n]).et \in Ets(Sender(n))
    BY <1>1, <2>1, ReportHead
  <2>3. queue'[n] \in Seq(Report)'
    BY <1>1, <1>2, <2>1, QueueKeeps
  <2>4. Heeded(AssignFrames(n, Sender(n))) \in Seq(Call)
    BY <1>1, <2>2, AssignFramesSent, HeededCalls
  <2>5. ScKnows(n)'
    BY <1>1, <1>2, <2>1, <2>2, <2>3, AssignLearns
  <2>6. QED
    BY <1>1, <1>2, <2>1, <2>4, <2>5, SendingKeepsInboxes
<1>6. ASSUME NEW d \in Dev, VisitDevice(n, d)
      PROVE  ScKnows(n)' /\ Inboxes'
  <2>1. /\ AssignEtSi(n, d, devRam[n][d].et) /\ UNCHANGED nvm
        /\ Send(n, AssignFrames(n, d))
        /\ ToDevices(n, Heeded(AssignFrames(n, d)))
    BY <1>6 DEF VisitDevice, SweepVisit
  <2>2. devRam[n][d].et \in Ets(d)
    BY <1>1 DEF ScKnows
  <2>3. queue'[n] \in Seq(Report)'
    BY <1>1, <1>2, <2>1, QueueKeeps
  <2>4. Heeded(AssignFrames(n, d)) \in Seq(Call)
    BY <1>1, AssignFramesSent, HeededCalls
  <2>5. ScKnows(n)'
    BY <1>1, <1>2, <2>1, <2>2, <2>3, AssignLearns
  <2>6. QED
    BY <1>1, <1>2, <2>1, <2>4, <2>5, SendingKeepsInboxes
<1>7. ASSUME NEW c \in children[n], SeedAndAssign(n, c)
      PROVE  ScKnows(n)' /\ Inboxes'
  <2> DEFINE fs == IF HasRival(n, c) THEN <<>>
                   ELSE <<Assignment(c.dd, c.et, FALSE)>>
  <2>1. /\ Send(n, fs) /\ ToDevices(n, fs) /\ UNCHANGED <<devRam, nvm>>
        /\ children' = [children EXCEPT ![n] = @ \ {c}]
    BY <1>7 DEF SeedAndAssign, ChildSeeded, lists
  <2>2. children'[n] \subseteq children[n]
    BY <1>3, <2>1
  <2>3. c.dd \in Unit /\ c.et \in Nat /\ (c.dd \in Dev => c.et \in Ets(c.dd))
    BY <1>1, <1>3 DEF ScKnows
  <2>4. Assignment(c.dd, c.et, FALSE) \in Call
    BY <2>3, CallFrames
  <2>5. fs \in Seq(Call)
    <3>1. <<>> \in Seq(Call) /\ <<Assignment(c.dd, c.et, FALSE)>> \in Seq(Call)
      <4> DEFINE g == Assignment(c.dd, c.et, FALSE)
      <4>1. g \in Call
        BY <2>4
      <4> HIDE DEF g
      <4>2. <<>> \in Seq(Call) /\ <<g>> \in Seq(Call)
        BY <4>1
      <4>3. QED
        BY <4>2, Zenon DEF g
    <3>2. CASE HasRival(n, c)
      <4>1. fs = <<>>
        BY <3>2
      <4> HIDE DEF fs
      <4>2. QED
        BY <3>1, <4>1
    <3>3. CASE ~HasRival(n, c)
      <4>1. fs = <<Assignment(c.dd, c.et, FALSE)>>
        BY <3>3
      <4> HIDE DEF fs
      <4>2. QED
        BY <3>1, <4>1
    <3>4. QED
      BY <3>2, <3>3
  <2> HIDE DEF fs
  <2>6. QED
    BY <1>1, <1>2, <2>1, <2>2, <2>5, QueueKeeps, LearnsNothing,
       SendingKeepsInboxes
<1>8. CASE GoOperational(n)
  <2>1. /\ Send(n, <<Empty("SC_CONFIGURATION_FINISHED")>>)
        /\ UNCHANGED <<devRam, children>>
        /\ nvm' = [nvm EXCEPT ![n].configured = TRUE]
        /\ ToDevices(n, <<Empty("SC_CHANGE_STATE")>>)
    BY <1>8 DEF GoOperational, AssignmentPhaseComplete, lists
  <2>2. nvm'[n].devices = nvm[n].devices
    BY <1>3, <2>1 DEF NvmType
  <2>3. <<Empty("SC_CHANGE_STATE")>> \in Seq(Call)
    BY CallFrames
  <2>4. QED
    BY <1>1, <1>2, <2>1, <2>2, <2>3, QueueKeeps, LearnsNothing,
       SendingKeepsInboxes
<1>9. CASE ScWorks(n)
  <2>1. Inboxes'
    BY <1>1, <1>2, <1>9, InboxesStay DEF ScWorks
  <2>2. CASE DeviceArrival(n)
    BY <1>1, <1>2, <2>1, <2>2, ArrivalLearns
  <2>3. CASE RecordAck(n)
    BY <1>1, <1>2, <2>1, <2>3, AckArchives
  <2>4. CASE Boot(n)
    BY <1>1, <1>2, <2>1, <2>4, QueueKeeps, LearnsNothing DEF Boot, lists
  <2>5. CASE StartupDelay(n)
    BY <1>1, <1>2, <2>1, <2>5, QueueKeeps, LearnsNothing
       DEF StartupDelay, lists, tasks
  <2>6. CASE AuditFinished(n)
    BY <1>1, <1>2, <2>1, <2>6, QueueKeeps, LearnsNothing
       DEF AuditFinished, Quiet, lists
  <2>7. CASE TakeLead(n)
    BY <1>1, <1>2, <2>1, <2>7, QueueKeeps, LearnsNothing DEF TakeLead, lists
  <2>8. CASE IuResetDetected(n)
    BY <1>1, <1>2, <2>1, <2>8, QueueKeeps, LearnsNothing
       DEF IuResetDetected, Quiet, lists
  <2>9. CASE DropFrame(n)
    BY <1>1, <1>2, <2>1, <2>9, QueueKeeps, LearnsNothing
       DEF DropFrame, Take, lists, tasks
  <2>10. ASSUME NEW e \in SelfEvent, DropEvent(n, e)
         PROVE  ScKnows(n)' /\ Inboxes'
    BY <1>1, <1>2, <2>1, <2>10, QueueKeeps, LearnsNothing
       DEF DropEvent, Quiet, lists
  <2>11. QED
    BY <1>9, <2>2, <2>3, <2>4, <2>5, <2>6, <2>7, <2>8, <2>9, <2>10 DEF ScWorks
<1>10. CASE ScFails(n)
  <2>1. /\ queue' = [queue EXCEPT ![n] = <<>>]
        /\ devRam' = [devRam EXCEPT ![n] = [d \in Unit |-> NoDevice]]
        /\ children' = [children EXCEPT ![n] = {}]
        /\ UNCHANGED <<nvm, inbox>>
    BY <1>10 DEF ScFails, Crash
  <2>2. queue'[n] \in Seq(Report)'
    BY <1>1, <1>2, <2>1, QueueKeeps
  <2>3. children'[n] = {}
    BY <1>3, <2>1
  <2>4. \A d \in Dev : devRam'[n][d].et \in Ets(d)
    BY <1>1, <2>1, SiteConstants DEF TypeOK, NoDevice, Ets
  <2>5. QED
    BY <1>1, <1>2, <2>1, <2>2, <2>3, <2>4, EtsGrow, InboxesStay DEF ScKnows
<1>11. ASSUME NEW c \in children[n], SeedsChild(n, c)
       PROVE  ScKnows(n)' /\ Inboxes'
  BY <1>2, <1>11, SeedMixes
<1>12. QED
  BY <1>4, <1>5, <1>6, <1>7, <1>8, <1>9, <1>10, <1>11 DEF ScStep

LEMMA ScStepTypes ==
  ASSUME SiteInv, NEW n \in SC, ScStep(n)
  PROVE  TypesKnown'
<1>1. TypesKnown /\ Grows /\ UNCHANGED told
  BY ScStepIsIdle, ScStepMixes DEF SiteInv, DevicesInv, devices
<1>2. CASE UNCHANGED strays
  BY <1>1, <1>2, TypesKept DEF TypesKnown
<1>3. ASSUME NEW c \in children[n], SeedsChild(n, c)
      PROVE  TypesKnown'
  BY <1>1, <1>3, SeedMixes
<1>4. QED
  BY <1>2, <1>3, ScStepMixes

-----------------------------------------------------------------------------
(* What a device's step does to the SC *)

LEMMA CallStays ==
  ASSUME Grows
  PROVE  \A q : q \in Seq(Call) => q \in Seq(Call')
<1>1. Call \subseteq Call'
  BY EtsGrow DEF Call
<1>2. QED
  BY <1>1

LEMMA DeviceStepReports ==
  ASSUME SiteInv, NEW d \in Dev, DeviceStep(d)
  PROVE  /\ UNCHANGED scOthers /\ Inboxes'
         /\ \A n \in SC : queue'[n] \in Seq(Report')
<1>1. /\ DevicesMove /\ StillTold /\ DevicesInv /\ Inboxes /\ TypesKnown
      /\ Grows /\ Ets(d)' = Ets(d)
  BY DeviceStepMoves, TypesKept DEF SiteInv, DevicesInv, Grows, Ets
<1>2. Report \subseteq Report'
  BY <1>1, EtsGrow DEF Report, StillTold
<1>3. \A n \in SC : queue[n] \in Seq(Report')
  <2>1. ASSUME NEW n \in SC
        PROVE  queue[n] \in Seq(Report')
    <3>1. queue[n] \in Seq(Report)
      BY DEF SiteInv, ScKnows
    <3>2. QED
      BY <1>2, <3>1
  <2>2. QED
    BY <2>1
<1>4. CASE DeviceSends(d)
  <2>1. told' = told
    BY <1>4 DEF DeviceSends, D!Pump
  <2>2. outbox[d] # <<>>
    BY <1>4 DEF DeviceSends, D!Pump
  <2>3. Head(outbox[d]) \in Said(d)
    <3>1. outbox[d] \in Seq(Said(d))
      BY <1>1 DEF DevicesInv, OwnEt
    <3>2. QED
      BY <2>2, <3>1
  <2>4. AtSc(d, Head(outbox[d])) \in Seq(Report')
    <3> DEFINE f == Head(outbox[d])
    <3>1. /\ f.et \in Ets(d) /\ f.et \in Nat /\ d \in Unit
          /\ f.type = "DEVICE_ASSIGNMENT_ACK" => f.et # 0 /\ told'[d].et # 0
      BY <1>1, <2>1, <2>3, SiteConstants, TypesHave DEF Said
    <3> HIDE DEF f
    <3>2. CASE f.type \in {"DEVICE_STARTUP", "DEVICE_DD", "DEVICE_ASSIGNMENT_ACK"}
      <4>1. FromDevice(f.type, d, f.et) \in Report'
        BY <1>1, <3>1, <3>2
           DEF Report, FromDevice, From, Empty, Frame, FrameType, Designators,
               Anonymous, FromSc, Unit
      <4>2. AtSc(d, f) = <<FromDevice(f.type, d, f.et)>>
        BY <3>2, Zenon DEF AtSc
      <4>3. AtSc(d, f) \in Seq(Report')
        BY <4>1, <4>2
      <4>4. QED
        BY <4>3, Zenon DEF f
    <3>3. CASE f.type \notin {"DEVICE_STARTUP", "DEVICE_DD", "DEVICE_ASSIGNMENT_ACK"}
      <4>1. AtSc(d, f) = <<>>
        BY <3>3, Zenon DEF AtSc
      <4>2. AtSc(d, f) \in Seq(Report')
        BY <4>1
      <4>3. QED
        BY <4>2, Zenon DEF f
    <3>4. QED
      BY <3>2, <3>3
  <2>5. ASSUME NEW m \in SC
        PROVE  queue'[m] \in Seq(Report')
    <3>1. PICK n \in SC :
            queue' = [queue EXCEPT ![n] =
                        IF up[n] THEN queue[n] \o AtSc(d, Head(outbox[d]))
                                 ELSE queue[n]]
      BY <1>4, Zenon DEF DeviceSends
    <3>2. \/ queue'[m] = queue[m]
          \/ queue'[m] = queue[m] \o AtSc(d, Head(outbox[d]))
      BY <3>1 DEF SiteInv, TypeOK
    <3> DEFINE fs == AtSc(d, Head(outbox[d]))
    <3>3. queue[m] \in Seq(Report') /\ fs \in Seq(Report')
      BY <1>3, <2>4
    <3>4. queue'[m] = queue[m] \/ queue'[m] = queue[m] \o fs
      BY <3>2
    <3> HIDE DEF fs
    <3>5. \A R, a, b : a \in Seq(R) /\ b \in Seq(R) => a \o b \in Seq(R)
      OBVIOUS
    <3>6. CASE queue'[m] = queue[m]
      BY <3>3, <3>6, Zenon
    <3>7. CASE queue'[m] = queue[m] \o fs
      BY <3>3, <3>5, <3>7, Zenon
    <3>8. QED
      BY <3>4, <3>6, <3>7
  <2>6. UNCHANGED <<scOthers, inbox>>
    BY <1>4 DEF DeviceSends
  <2>7. Inboxes'
    BY <1>1, <2>6, InboxesStay
  <2>8. QED
    BY <2>5, <2>6, <2>7
<1>5. CASE DeviceReceives(d)
  <2>1. Tail(inbox[d]) \in Seq(Call)
    BY <1>1, <1>5, CallHead DEF DeviceReceives
  <2>2. Inboxes'
    BY <1>1, <1>5, <2>1, CallStays DEF DeviceReceives, Inboxes
  <2>3. UNCHANGED <<queue, scOthers>>
    BY <1>5 DEF DeviceReceives
  <2>4. QED
    BY <1>3, <2>2, <2>3
<1>6. CASE DeviceFails(d)
  <2>1. Inboxes'
    BY <1>1, <1>6, CallStays DEF DeviceFails, Inboxes
  <2>2. UNCHANGED <<queue, scOthers>>
    BY <1>6 DEF DeviceFails
  <2>3. QED
    BY <1>3, <2>1, <2>2
<1>7. CASE DeviceWorks(d)
  <2>1. UNCHANGED <<queue, scOthers, inbox>>
    BY <1>7 DEF DeviceWorks
  <2>2. Inboxes'
    BY <1>1, <2>1, InboxesStay
  <2>3. QED
    BY <1>3, <2>1, <2>2
<1>8. QED
  BY <1>4, <1>5, <1>6, <1>7 DEF DeviceStep

LEMMA DeviceStepKeeps ==
  ASSUME SiteInv, NEW d \in Dev, DeviceStep(d)
  PROVE  SiteInv'
<1>1. DevicesInv' /\ Grows
  <2>1. DevicesMove /\ UNCHANGED strays /\ DevicesInv /\ TypesKnown
    BY DeviceStepMoves DEF SiteInv, DevicesInv
  <2>2. TypesKnown' /\ Grows
    BY <2>1, TypesKept DEF TypesKnown, Grows
  <2>3. QED
    BY <2>1, <2>2, DevicesKeepInv
<1>2. /\ UNCHANGED scOthers /\ Inboxes'
      /\ \A n \in SC : queue'[n] \in Seq(Report')
  BY DeviceStepReports
<1>3. TypeOK'
  <2>1. queue' \in [SC -> Seq(Frame)]
    <3>1. \A n \in SC : queue'[n] \in Seq(Frame)
      <4>1. Report' \subseteq Frame
        BY DEF Report
      <4>2. ASSUME NEW n \in SC
            PROVE  queue'[n] \in Seq(Frame)
        BY <1>2, <4>1
      <4>3. QED
        BY <4>2
    <3>2. queue' = [n \in SC |-> queue'[n]]
      <4>1. queue = [n \in SC |-> queue[n]]
        BY DEF SiteInv, TypeOK
      <4>2. CASE queue' = queue
        BY <4>1, <4>2
      <4>3. CASE DeviceSends(d)
        BY <4>1, <4>3 DEF DeviceSends
      <4>4. QED
        BY <4>2, <4>3 DEF DeviceStep, DeviceReceives, DeviceFails, DeviceWorks
    <3>3. QED
      BY <3>1, <3>2
  <2>2. QED
    BY <1>2, <2>1 DEF SiteInv, TypeOK, scOthers, node, lists, tasks, env, devs
<1>4. ASSUME NEW n \in SC
      PROVE  ScKnows(n)'
  <2>1. StillTold
    BY DeviceStepMoves
  <2>2. UNCHANGED <<devRam, children, nvm>>
    BY <1>2 DEF scOthers, lists, tasks
  <2>3. ScKnows(n) /\ queue'[n] \in Seq(Report')
    BY <1>2 DEF SiteInv
  <2>4. QED
    BY <1>1, <2>1, <2>2, <2>3, EtsGrow DEF ScKnows, StillTold
<1>5. QED
  BY <1>1, <1>2, <1>3, <1>4 DEF SiteInv

LEMMA ScStepKeepsInv ==
  ASSUME SiteInv, NEW n \in SC, ScStep(n)
  PROVE  SiteInv'
<1>1. TypeOK'
  BY TypeScStep DEF SiteInv
<1>2. Inboxes' /\ ScKnows(n)' /\ TypesKnown'
  BY ScStepKeeps, ScStepTypes
<1>3. DevicesInv'
  BY <1>2, ScStepIsIdle, ScStepMixes, DevicesKeepInv DEF SiteInv, DevicesMove
<1>4. \A m \in SC : ScKnows(m)'
  BY <1>2, SiteConstants
<1>5. QED
  BY <1>1, <1>2, <1>3, <1>4 DEF SiteInv

LEMMA SiteStep == SiteInv /\ [SiteNext]_siteVars => SiteInv'
<1> SUFFICES ASSUME SiteInv, [SiteNext]_siteVars
             PROVE  SiteInv'
  OBVIOUS
<1>1. CASE UNCHANGED siteVars
  <2>1. UNCHANGED <<vars, devices, inbox>> /\ UNCHANGED strays
    BY <1>1 DEF siteVars, vars, env, devs
  <2>2. TypeOK' /\ TypesKnown' /\ Grows
    BY <2>1, TypeStep, TypesKept DEF SiteInv, DevicesInv, TypesKnown, Grows
  <2>3. DevicesInv'
    BY <2>1, <2>2, DevicesKeepInv DEF SiteInv, DevicesMove
  <2>4. Inboxes'
    BY <2>1, <2>2, InboxesStay DEF SiteInv
  <2>5. ASSUME NEW n \in SC
        PROVE  ScKnows(n)'
    <3>1. ScKnows(n) /\ TypeOK
      BY DEF SiteInv
    <3>2. UNCHANGED <<queue, devRam, children, nvm, told>>
      BY <2>1 DEF vars, lists, tasks, devices
    <3>3. queue'[n] \in Seq(Report)'
      BY <2>2, <3>1, <3>2, QueueKeeps
    <3>4. QED
      BY <2>2, <3>1, <3>2, <3>3, LearnsNothing
  <2>6. QED
    BY <2>2, <2>3, <2>4, <2>5 DEF SiteInv
<1>2. QED
  BY <1>1, ScStepKeepsInv, DeviceStepKeeps DEF SiteNext

LEMMA SiteStart == SiteInit => SiteInv
<1> SUFFICES ASSUME SiteInit
             PROVE  SiteInv
  OBVIOUS
<1>1. TypeOK
  BY TypeInit DEF SiteInit
<1>2. Local!DeviceInit
  BY StartIsLocal DEF SiteInit
<1>3. Local!DeviceShape /\ Local!StoredInv
  BY <1>2, SiteConstants, Local!InitShape, Local!InitStored
<1>4. ASSUME NEW d \in Dev
      PROVE  OwnEt(d)
  <2>1. /\ spent[d].changes = 0 /\ told[d].et = 0 /\ outbox[d] = <<>>
        /\ file[d] = Local!Blank
    BY <1>2 DEF Local!DeviceInit, Local!Unassigned
  <2>2. file[d].et = 0
    BY <2>1 DEF Local!Blank
  <2>3. outbox[d] \in Seq(Said(d))
    BY <2>1
  <2>4. QED
    BY <2>1, <2>2, <2>3 DEF OwnEt, Ets
<1>5. Inboxes
  BY DEF SiteInit, Inboxes
<1>6. ASSUME NEW n \in SC
      PROVE  ScKnows(n)
  <2>1. /\ queue[n] = <<>> /\ children[n] = {}
        /\ \A d \in Dev : devRam[n][d] = NoDevice /\ nvm[n].devices[d] = NoArchive
    BY SiteConstants DEF SiteInit, Init
  <2>2. queue[n] \in Seq(Report)
    BY <2>1
  <2>3. QED
    BY <2>1, <2>2 DEF ScKnows, NoDevice, NoArchive, Ets
<1>7. TypesKnown
  BY SiteConstants DEF SiteInit, Init, TypesKnown, Types
<1>8. QED
  BY <1>1, <1>3, <1>4, <1>5, <1>6, <1>7 DEF SiteInv, DevicesInv

LEMMA SiteInvHolds == SiteSpec => []SiteInv
BY SiteStart, SiteStep, PTL DEF SiteSpec

-----------------------------------------------------------------------------
(* The theorems *)

\* The SC's archive never runs ahead of its devices, whatever is lost or delayed
\* on the way and whoever loses power when: record_assignment_ack archives a
\* device only on an acknowledge that the device queued after it had stored its et,
\* and the device rewrites its file only with an et it may have, which is that one
\* unless a child took another device's announcement for its seed.
THEOREM ArchiveIsHeld == SiteSpec => []ArchivedIsHeld
<1>1. SiteInv => ArchivedIsHeld
  <2> SUFFICES ASSUME SiteInv, NEW n \in SC, NEW d \in Dev, d \notin Mixed,
                      nvm[n].devices[d].known, file[d] # D!Torn
               PROVE  file[d].et = nvm[n].devices[d].et
    BY DEF ArchivedIsHeld
  <2>1. Types(d) = {Kind[d]}
    BY DEF Mixed
  <2>2. file[d] # Local!Torn
    BY DEF D!Torn, Local!Torn
  <2>3. file[d].et # 0 /\ file[d].et \in Ets(d)
    <3>1. told[d].et # 0
      BY DEF SiteInv, ScKnows
    <3>2. QED
      BY <2>2, <3>1 DEF SiteInv, DevicesInv, OwnEt
  <2>4. nvm[n].devices[d].et = Kind[d]
    BY <2>1 DEF SiteInv, ScKnows
  <2>5. QED
    BY <2>1, <2>3, <2>4 DEF Ets
<1>2. QED
  BY <1>1, SiteInvHolds, PTL

-----------------------------------------------------------------------------
(* The site implements DeviceAssignment *)

\* What a step of the SC does to its archive.
LEMMA ScStepArchives ==
  ASSUME SiteInv, NEW n \in SC, ScStep(n)
  PROVE  \/ \A d \in Dev : nvm'[n].devices[d] = nvm[n].devices[d]
         \/ /\ UNCHANGED strays
            /\ \E d \in Dev : \E k \in Types(d) :
                 /\ told[d].et \in Types(d)
                 /\ \A e \in Dev : nvm'[n].devices[e].et =
                      IF e = d THEN k ELSE nvm[n].devices[e].et
<1>1. /\ TypeOK /\ ScKnows(n) /\ nvm[n] \in NvmType /\ nvm \in [SC -> NvmType]
      /\ UNCHANGED told /\ TypesKnown /\ Grows
  BY ScStepIsIdle, ScStepMixes DEF SiteInv, DevicesInv, TypeOK, devices
<1>2. CASE RecordAck(n) /\ nvm' # nvm
  <2>1. PICK d \in Dev : \E k \in Types(d) :
          /\ told[d].et # 0
          /\ nvm' = [nvm EXCEPT ![n].devices[d] = [known |-> TRUE, et |-> k]]
    BY <1>1, <1>2, AckArchives
  <2>2. PICK k \in Types(d) :
          /\ told[d].et # 0
          /\ nvm' = [nvm EXCEPT ![n].devices[d] = [known |-> TRUE, et |-> k]]
    BY <2>1
  <2>3. told[d].et \in Types(d)
    BY <2>2 DEF SiteInv, DevicesInv, OwnEt, Ets
  <2>4. \A e \in Dev : nvm'[n].devices[e].et =
          IF e = d THEN k ELSE nvm[n].devices[e].et
    BY <1>1, <2>2, SiteConstants DEF NvmType
  <2>5. UNCHANGED strays
    BY <1>2 DEF RecordAck, env, devs
  <2>6. QED
    BY <2>2, <2>3, <2>4, <2>5
<1>3. CASE GoOperational(n)
  <2>1. nvm' = [nvm EXCEPT ![n].configured = TRUE]
    BY <1>3 DEF GoOperational, AssignmentPhaseComplete
  <2>2. QED
    BY <1>1, <2>1 DEF NvmType
<1>4. CASE \/ Coordinate(n) \/ AnswerArrival(n) \/ ScFails(n)
           \/ \E d \in Dev : VisitDevice(n, d)
           \/ \E c \in children[n] : SeedAndAssign(n, c) \/ SeedsChild(n, c)
  <2>1. nvm' = nvm
    BY <1>4
       DEF Coordinate, ArbitrationWindow, AnswerArrival, AssignArrival,
           ScFails, Crash, VisitDevice, SweepVisit, SeedAndAssign, ChildSeeded,
           SeedsChild, StraySeed
  <2>2. QED
    BY <2>1
<1>5. CASE ScWorks(n) /\ nvm' = nvm
  BY <1>5
<1>6. CASE ScWorks(n) /\ ~RecordAck(n)
  <2>1. nvm' = nvm
    BY <1>6
       DEF ScWorks, Boot, StartupDelay, AuditFinished, TakeLead,
           DeviceArrival, IuResetDetected, DropFrame, DropEvent, Quiet, Take
  <2>2. QED
    BY <2>1
<1>7. QED
  BY <1>2, <1>3, <1>4, <1>5, <1>6 DEF ScStep

\* What a step of a device does to what it holds.
LEMMA DeviceStepHolds ==
  ASSUME SiteInv, NEW d \in Dev, DeviceStep(d)
  PROVE  /\ UNCHANGED <<nvm, strays>>
         /\ told' = [e \in Dev |-> told'[e]]
         /\ \A e \in Dev \ {d} : told'[e] = told[e] /\ file'[e] = file[e]
         /\ \/ /\ told'[d] = told[d]
               /\ file[d] = Local!Torn => file'[d] = Local!Torn
            \/ /\ told'[d].et \in Types(d)
               /\ file[d] # Local!Torn /\ file'[d] # Local!Torn
<1>1. DevicesInv /\ Local!DeviceShape /\ DevicesInv' /\ Grows
  BY DeviceStepMoves, DeviceStepKeeps DEF SiteInv, DevicesInv, Grows
<1>2. UNCHANGED <<nvm, strays>>
  BY DeviceStepReports DEF scOthers, env, devs
<1>3. told' = [e \in Dev |-> told'[e]]
  BY <1>1 DEF DevicesInv, Local!DeviceShape
<1>4. ASSUME Local!DeviceAction(d)
      PROVE  \A e \in Dev \ {d} : told'[e] = told[e] /\ file'[e] = file[e]
  BY <1>1, <1>4, SiteConstants, Local!OthersAreSame DEF Local!Same
<1>5. CASE UNCHANGED devices
  BY <1>2, <1>3, <1>5 DEF devices
<1>6. CASE Otherwise(d)
  BY <1>1, <1>2, <1>3, <1>4, <1>6, OtherwiseIsSilent, OtherwiseKeepsEt, TornStays
<1>7. CASE Acts(d)
  BY <1>1, <1>2, <1>3, <1>4, <1>7, ActingKeepsEt
<1>8. QED
  BY <1>5, <1>6, <1>7, DeviceStepIs

\* The one SC.
TheSc == CHOOSE n \in SC : TRUE

\* A child that takes another's announcement mixes up its own device at most.
LEMMA SeedMixesOne ==
  ASSUME SiteInv, NEW n \in SC, NEW c \in children[n], SeedsChild(n, c),
         Mixed' # Mixed
  PROVE  c.dd \in Dev /\ Mixed' = Mixed \cup {c.dd}
<1>1. PICK taken : /\ taken = [c EXCEPT !.et = Head(queue[n]).et]
                   /\ strays' = strays \/ strays' = strays \cup {taken}
  BY DEF SeedsChild, StraySeed
<1>2. taken.dd = c.dd
  BY <1>1 DEF SiteInv, TypeOK
<1>3. \A d : d # c.dd => Types(d)' = Types(d)
  BY <1>1, <1>2 DEF Types
<1>4. \A d \in Dev : Types(d) \subseteq Types(d)' /\ Kind[d] \in Types(d)
  BY <1>1 DEF Types
<1>5. \A d \in Dev \ {c.dd} : d \in Mixed' <=> d \in Mixed
  BY <1>3 DEF Mixed
<1>6. \A d \in Dev : d \in Mixed => d \in Mixed'
  BY <1>4 DEF Mixed
<1>7. Mixed \subseteq Dev /\ Mixed' \subseteq Dev
  BY DEF Mixed
<1>8. QED
  BY <1>5, <1>6, <1>7

LEMMA ScPromise ==
  ASSUME SiteInv, NEW n \in SC, ScStep(n)
  PROVE  [Promise!ANext]_Promise!assignment
<1>1. n = TheSc
  BY SiteConstants DEF TheSc
<1>2. UNCHANGED <<told, file>> /\ TypesKnown
  BY ScStepIsIdle DEF devices, SiteInv, DevicesInv
<1>3. CASE \A d \in Dev : nvm'[n].devices[d] = nvm[n].devices[d]
  <2>1. CASE Mixed' = Mixed
    BY <1>1, <1>2, <1>3, <2>1 DEF Promise!assignment, TheSc
  <2>2. CASE UNCHANGED strays
    BY <2>1, <2>2, TypesKept DEF Mixed
  <2>3. ASSUME NEW c \in children[n], SeedsChild(n, c), Mixed' # Mixed
        PROVE  \E d \in Dev : Promise!MixUp(d)
    <3>1. c.dd \in Dev /\ Mixed' = Mixed \cup {c.dd}
      BY <2>3, SeedMixesOne
    <3>2. QED
      BY <1>1, <1>2, <1>3, <3>1 DEF Promise!MixUp, TheSc
  <2>4. QED
    BY <2>1, <2>2, <2>3, ScStepMixes DEF Promise!ANext
<1>4. ASSUME UNCHANGED strays,
             NEW d \in Dev, NEW k \in Types(d), told[d].et \in Types(d),
             \A e \in Dev : nvm'[n].devices[e].et =
               IF e = d THEN k ELSE nvm[n].devices[e].et
      PROVE  Promise!Archive(d)
  <2> DEFINE was == [e \in Dev |-> nvm[TheSc].devices[e].et]
             is == [e \in Dev |-> nvm'[TheSc].devices[e].et]
  <2>1. is = [was EXCEPT ![d] = k]
    BY <1>1, <1>4
  <2>2. /\ k \in Promise!Due(d) /\ (k = told[d].et \/ d \in Mixed)
        /\ told[d].et # 0
    BY <1>2, <1>4, TypesAreDue, TypesHave
  <2>3. Mixed' = Mixed
    BY <1>4, TypesKept DEF Mixed
  <2>4. QED
    BY <1>2, <1>4, <2>1, <2>2, <2>3 DEF Promise!Archive, TheSc
<1>5. QED
  BY <1>3, <1>4, ScStepArchives DEF Promise!ANext

LEMMA DevicePromise ==
  ASSUME SiteInv, NEW d \in Dev, DeviceStep(d)
  PROVE  [Promise!ANext]_Promise!assignment
<1> DEFINE held == [e \in Dev |-> told[e].et]
           broken == {e \in Dev : file[e] = D!Torn}
<1>1. /\ UNCHANGED nvm /\ D!Torn = Local!Torn
      /\ \A e \in Dev \ {d} : told'[e] = told[e] /\ file'[e] = file[e]
      /\ Mixed' = Mixed
  BY DeviceStepHolds, TypesKept DEF D!Torn, Local!Torn, Mixed
<1>2. CASE told'[d] = told[d] /\ file[d] # Local!Torn /\ file'[d] = Local!Torn
  <2>1. held' = held /\ broken' = broken \cup {d}
    BY <1>1, <1>2
  <2>2. QED
    BY <1>1, <2>1 DEF Promise!ANext, Promise!Break
<1>3. CASE told'[d] = told[d] /\ (file'[d] = Local!Torn <=> file[d] = Local!Torn)
  <2>1. held' = held /\ broken' = broken
    BY <1>1, <1>3
  <2>2. QED
    BY <1>1, <2>1 DEF Promise!assignment
<1>4. CASE /\ told'[d].et \in Types(d)
           /\ file[d] # Local!Torn /\ file'[d] # Local!Torn
  <2>1. PICK k \in Types(d) : k = told'[d].et
    BY <1>4
  <2>2. k \in Promise!Due(d)
    BY <2>1, TypesAreDue DEF SiteInv, DevicesInv
  <2>3. held' = [held EXCEPT ![d] = k] /\ d \notin broken
    BY <1>1, <1>4, <2>1
  <2>4. UNCHANGED <<broken, Mixed,
                    [x \in Dev |-> nvm[CHOOSE n \in SC : TRUE].devices[x].et]>>
    BY <1>1, <1>4
  <2> HIDE DEF held, broken
  <2>5. Promise!Hold(d)
    BY <2>2, <2>3, <2>4, Zenon DEF Promise!Hold, held, broken
  <2>6. QED
    BY <2>5 DEF Promise!ANext
<1>5. QED
  BY <1>2, <1>3, <1>4, DeviceStepHolds

LEMMA PromiseStep ==
  SiteInv /\ [SiteNext]_siteVars => [Promise!ANext]_Promise!assignment
<1>1. UNCHANGED siteVars => UNCHANGED Promise!assignment
  <2>1. SUFFICES ASSUME UNCHANGED siteVars
                 PROVE  UNCHANGED Promise!assignment
    OBVIOUS
  <2>2. UNCHANGED <<told, file, nvm, strays>>
    BY <2>1 DEF siteVars, vars, devices, env, devs
  <2>3. Mixed' = Mixed
    BY <2>2, TypesKept DEF Mixed
  <2>4. QED
    BY <2>2, <2>3 DEF Promise!assignment
<1>2. QED
  BY <1>1, ScPromise, DevicePromise DEF SiteNext

LEMMA PromiseStart == SiteInit => Promise!AInit
<1> SUFFICES ASSUME SiteInit
             PROVE  Promise!AInit
  OBVIOUS
<1>1. TheSc \in SC
  BY SiteConstants DEF TheSc
<1>2. \A d \in Dev : nvm[TheSc].devices[d] = NoArchive
  BY <1>1, SiteConstants DEF SiteInit, Init
<1>3. \A d \in Dev : told[d].et = 0 /\ file[d] # D!Torn
  BY DEF SiteInit, D!DeviceInit, D!Unassigned, D!Blank, D!Torn
<1>4. [d \in Dev |-> nvm[TheSc].devices[d].et] = [d \in Dev |-> 0]
  BY <1>2 DEF NoArchive
<1>5. /\ [d \in Dev |-> told[d].et] = [d \in Dev |-> 0]
      /\ {d \in Dev : file[d] = D!Torn} = {}
  BY <1>3
<1>6. Mixed = {}
  BY SiteConstants DEF SiteInit, Init, Mixed, Types
<1>7. QED
  BY <1>4, <1>5, <1>6, Zenon DEF Promise!AInit, TheSc

\* A site's devices are assigned as DeviceAssignment promises: a device comes to
\* hold the et it asked for, only then is it archived, with that et, and a torn
\* file is for good (record_assignment on the device, record_assignment_ack on the
\* SC, with every loss and delay between them).  A device whose child took another
\* device's announcement for its seed may hold, and be archived with, any type of
\* the site; no other device is affected by that.
THEOREM SiteKeepsPromise == SiteSpec => KeepsPromise
<1>1. SiteInit => Promise!AInit
  BY PromiseStart
<1>2. SiteInv /\ [SiteNext]_siteVars => [Promise!ANext]_Promise!assignment
  BY PromiseStep
<1>3. QED
  BY <1>1, <1>2, SiteInvHolds, PTL DEF SiteSpec, KeepsPromise, Promise!ASpec

-----------------------------------------------------------------------------
(* The site implements LocalController *)

LEMMA DevicesRun ==
  SiteInv /\ [SiteNext]_siteVars => [Local!DeviceNext]_Local!deviceVars
<1>1. UNCHANGED siteVars => UNCHANGED devices
  BY DEF siteVars
<1>2. ASSUME NEW n \in SC, ScStep(n)
      PROVE  UNCHANGED devices
  BY <1>2, ScStepIsIdle
<1>3. ASSUME SiteInv, NEW d \in Dev, DeviceStep(d)
      PROVE  UNCHANGED devices \/ Local!DeviceNext
  BY <1>3, DeviceStepMoves DEF DevicesMove, Local!DeviceNext, Local!DeviceAction
<1>4. QED
  BY <1>1, <1>2, <1>3, StartIsLocal DEF SiteNext

\* The devices of a site behave as LocalController's, with the assignments they
\* are sent there, so what is proved of it holds of them: what a device has
\* acknowledged on the bus outlives every reset and power failure, whatever the
\* SC sends it and when.
THEOREM SiteRunsDevices ==
  SiteSpec => Local!DeviceSpec /\ []Local!AckedIsDurable /\ []Local!SpeaksAsStored
<1>1. SiteInit => Local!DeviceInit
  BY StartIsLocal DEF SiteInit
<1>2. SiteInv /\ [SiteNext]_siteVars => [Local!DeviceNext]_Local!deviceVars
  BY DevicesRun
<1>3. SiteSpec => Local!DeviceSpec
  BY <1>1, <1>2, SiteInvHolds, PTL DEF SiteSpec, Local!DeviceSpec
<1>4. Local!DeviceSpec => []Local!AckedIsDurable
  BY SiteConstants, Local!AckedStaysDurable
<1>5. Local!DeviceSpec => []Local!SpeaksAsStored
  BY SiteConstants, Local!DeviceSpeaksAsStored
<1>6. QED
  BY <1>3, <1>4, <1>5, PTL
=============================================================================
