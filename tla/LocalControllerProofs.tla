------------------------ MODULE LocalControllerProofs ------------------------
(***************************************************************************)
(* Proofs about LocalController, for any number of devices, any types they *)
(* ask for, any assignments and any bounds.                                *)
(***************************************************************************)
EXTENDS LocalController, FiniteSetTheorems, TLAPS

-----------------------------------------------------------------------------
(* The shape of the state *)

Memory == [et : Nat, subnet : Nat, assigned : BOOLEAN, attempts : Nat]

\* DeviceTypeOK without the cap on attempts, which needs a count.
DeviceShape ==
  /\ mode \in [Dev -> Mode]
  /\ memory \in [Dev -> Memory]
  /\ host \in [Dev -> Image]
  /\ dialog \in [Dev -> [state : {"listening", "updated"}, data : Image]]
  /\ file \in [Dev -> Image \cup {Torn}]
  /\ soon \in [Dev -> Seq(SelfEvent)]
  /\ replies \in [Dev -> 0..MaxReplies]
  /\ resends \in [Dev -> SUBSET Nat]
  /\ outbox \in [Dev -> Seq(DeviceFrame)]
  /\ told \in [Dev -> [et : Nat, subnet : Nat]]
  /\ acked \in [Dev -> Nat]
  /\ wanted \in [Dev -> {"enabled", "disabled"}]
  /\ spent \in [Dev -> [events : Nat, changes : Nat]]

LEMMA ConstantShape ==
  /\ \A d \in Dev : Request[d] \in Nat
  /\ OwnSubnet \in Nat
  /\ \A a \in Assignable : a.et \in Nat /\ a.subnet \in Nat
  /\ MaxReplies \in Nat /\ 0 \in 0..MaxReplies
  /\ MaxAttempt \in Nat \ {0} /\ MaxDriven \in Nat
BY LocalControllerAssumption

LEMMA FrameShape ==
  ASSUME NEW e \in Nat,
         NEW t \in {"DEVICE_STARTUP", "DEVICE_DD", "DEVICE_ASSIGNMENT_ACK",
                    "DEVICE_STATUS", "DIAG_RESPONSE", "DEVICE_UI_G_ENABLE_ACK"}
  PROVE  Out(t, e) \in DeviceFrame
BY DEF Out, DeviceFrame

LEMMA StartupShape ==
  ASSUME DeviceShape, NEW d \in Dev
  PROVE  Startup(d) \in DeviceFrame
<1>1. memory[d].et \in Nat /\ Request[d] \in Nat
  BY ConstantShape DEF DeviceShape, Memory
<1>2. QED
  BY <1>1, FrameShape DEF Startup

LEMMA PutShape ==
  ASSUME DeviceShape, NEW d \in Dev, NEW f \in DeviceFrame, Put(d, <<f>>)
  PROVE  outbox' \in [Dev -> Seq(DeviceFrame)]
<1>1. outbox \in [Dev -> Seq(DeviceFrame)] /\ <<f>> \in Seq(DeviceFrame)
  BY DEF DeviceShape
<1>2. outbox[d] \o <<f>> \in Seq(DeviceFrame)
  BY <1>1
<1>3. QED
  BY <1>1, <1>2 DEF Put

LEMMA GotoShape ==
  ASSUME DeviceShape, NEW d \in Dev, NEW s \in Mode, Goto(d, s)
  PROVE  mode' \in [Dev -> Mode]
BY DEF DeviceShape, Goto

LEMMA ModeNames ==
  {"listen_only", "sending", "sent", "wait_for_assignment", "assigned",
   "hard_disabled", "off"} \subseteq Mode
BY DEF Mode, PreStartup

LEMMA AttemptShape ==
  ASSUME DeviceShape, NEW d \in Dev
  PROVE  /\ memory[d].attempts \in Nat
         /\ \A k \in Nat : [memory EXCEPT ![d].attempts = k] \in [Dev -> Memory]
<1>1. memory \in [Dev -> Memory]
  BY DEF DeviceShape
<1>2. memory[d] \in Memory
  BY <1>1
<1>3. \A k \in Nat : [memory[d] EXCEPT !.attempts = k] \in Memory
  BY <1>2 DEF Memory
<1>4. QED
  BY <1>1, <1>2, <1>3 DEF Memory

LEMMA ImageShape ==
  ASSUME NEW image \in Image
  PROVE  /\ Restored(image) \in Memory
         /\ Hop(image) \in Seq(SelfEvent)
<1>1. Restored(image) \in Memory
  BY LocalControllerAssumption DEF Restored, Image, Memory
<1>2. "ui_g_hard_disable" \in SelfEvent
  BY DEF SelfEvent
<1>3. Hop(image) \in Seq(SelfEvent)
  BY <1>2 DEF Hop
<1>4. QED
  BY <1>1, <1>3

LEMMA BlankShape == Blank \in Image /\ Restored(Blank) \in Memory
<1>1. Blank \in Image
  BY DEF Blank, Image
<1>2. QED
  BY <1>1, ImageShape

LEMMA AssignedShape ==
  ASSUME NEW image \in Image, NEW a \in Assignable
  PROVE  /\ a.et \in Nat
         /\ Subnet(a) \in Nat
         /\ HalfAssigned(image, a) \in Image
         /\ Assigned(image, a) \in Image
<1>1. a.et \in Nat /\ Subnet(a) \in Nat
  BY ConstantShape DEF Subnet
<1>2. QED
  BY <1>1 DEF HalfAssigned, Assigned, Image

LEMMA WriteShape ==
  ASSUME DeviceShape, NEW d \in Dev, NEW image \in Image, Write(d, image)
  PROVE  host' \in [Dev -> Image] /\ file' \in [Dev -> Image \cup {Torn}]
BY DEF DeviceShape, Write

LEMMA EnterPreStartupShape ==
  ASSUME DeviceShape, NEW d \in Dev, NEW image \in Image,
         NEW events \in Seq(SelfEvent), EnterPreStartup(d, image, events)
  PROVE  /\ mode' \in [Dev -> Mode]
         /\ memory' \in [Dev -> Memory]
         /\ soon' \in [Dev -> Seq(SelfEvent)]
         /\ host' \in [Dev -> Image]
         /\ file' \in [Dev -> Image \cup {Torn}]
<1>1. "listen_only" \in Mode
  BY ModeNames
<1>2. events \o Hop(image) \in Seq(SelfEvent) /\ Restored(image) \in Memory
  BY ImageShape
<1>3. mode' \in [Dev -> Mode]
  BY <1>1, GotoShape DEF EnterPreStartup
<1>4. memory' \in [Dev -> Memory] /\ soon' \in [Dev -> Seq(SelfEvent)]
  BY <1>2 DEF EnterPreStartup, DeviceShape
<1>5. QED
  BY <1>3, <1>4, WriteShape DEF EnterPreStartup

LEMMA EnterHardDisabledShape ==
  ASSUME DeviceShape, NEW d \in Dev, EnterHardDisabled(d)
  PROVE  /\ mode' \in [Dev -> Mode]
         /\ host' \in [Dev -> Image]
         /\ file' \in [Dev -> Image \cup {Torn}]
<1>1. host[d] \in Image
  BY DEF DeviceShape
<1>2. [host[d] EXCEPT !.hard_disabled = TRUE] \in Image
  BY <1>1 DEF Image
<1>3. QED
  BY <1>2, ModeNames, WriteShape, GotoShape DEF EnterHardDisabled

LEMMA DarkShape ==
  ASSUME DeviceShape, NEW d \in Dev, Dark(d),
         file' \in [Dev -> Image \cup {Torn}],
         told' \in [Dev -> [et : Nat, subnet : Nat]], acked' \in [Dev -> Nat]
  PROVE  DeviceShape'
<1>1. "off" \in Mode
  BY ModeNames
<1>2. mode' \in [Dev -> Mode]
  BY <1>1, GotoShape DEF Dark
<1>3. [state |-> "listening", data |-> Blank]
        \in [state : {"listening", "updated"}, data : Image]
  BY BlankShape
<1>4. memory' \in [Dev -> Memory] /\ host' \in [Dev -> Image]
  BY BlankShape DEF Dark, DeviceShape
<1>5. dialog' \in [Dev -> [state : {"listening", "updated"}, data : Image]]
  BY <1>3 DEF Dark, DeviceShape
<1>6. /\ soon' \in [Dev -> Seq(SelfEvent)] /\ replies' \in [Dev -> 0..MaxReplies]
      /\ resends' \in [Dev -> SUBSET Nat] /\ outbox' \in [Dev -> Seq(DeviceFrame)]
  BY ConstantShape DEF Dark, DeviceShape
<1>7. UNCHANGED <<wanted, spent>>
  BY DEF Dark
<1>8. QED
  BY <1>2, <1>4, <1>5, <1>6, <1>7 DEF DeviceShape

LEMMA EnterWaitShape ==
  ASSUME DeviceShape, NEW d \in Dev, EnterWait(d)
  PROVE  DeviceShape'
<1>1. mode' \in [Dev -> Mode] /\ outbox' \in [Dev -> Seq(DeviceFrame)]
  BY ModeNames, GotoShape, StartupShape, PutShape DEF EnterWait
<1>2. replies' \in [Dev -> 0..MaxReplies]
  BY ConstantShape DEF EnterWait, DeviceShape
<1>3. UNCHANGED <<memory, images, soon, resends, ghosts, spent>>
  BY DEF EnterWait
<1>4. QED
  BY <1>1, <1>2, <1>3 DEF DeviceShape, images, ghosts

LEMMA HeedShape ==
  ASSUME DeviceShape, NEW d \in Dev, NEW to, NEW all, NEW a \in Assignable,
         Heed(d, to, all, a)
  PROVE  /\ told' \in [Dev -> [et : Nat, subnet : Nat]]
         /\ acked' \in [Dev -> Nat]
<1>1. a.et \in Nat /\ Subnet(a) \in Nat
  BY ConstantShape DEF Subnet
<1>2. QED
  BY <1>1 DEF Heed, DeviceShape

LEMMA TakeHardDisableShape ==
  ASSUME DeviceShape, NEW d \in Dev, TakeHardDisable(d),
         soon' \in [Dev -> Seq(SelfEvent)],
         wanted' \in [Dev -> {"enabled", "disabled"}],
         spent' \in [Dev -> [events : Nat, changes : Nat]]
  PROVE  DeviceShape'
<1>1. outbox' \in [Dev -> Seq(DeviceFrame)]
  <2>1. memory[d].et \in Nat /\ outbox \in [Dev -> Seq(DeviceFrame)]
    BY DEF DeviceShape, Memory
  <2>2. QED
    BY <2>1, FrameShape, PutShape DEF TakeHardDisable
<1>2. EnterHardDisabled(d) /\ UNCHANGED <<memory, dialog, delayed, told, acked>>
  BY DEF TakeHardDisable
<1>3. QED
  BY <1>1, <1>2, EnterHardDisabledShape DEF DeviceShape, delayed

LEMMA DrivenShape ==
  ASSUME DeviceShape, NEW d \in Dev, NEW k \in {0, 1}, Driven(d, k)
  PROVE  spent' \in [Dev -> [events : Nat, changes : Nat]]
BY DEF Driven, DeviceShape

LEMMA StepShape ==
  ASSUME DeviceShape, NEW d \in Dev, Step(d)
  PROVE  DeviceShape'
<1> USE DEF machine, images, delayed, ghosts
<1>1. CASE ListenOnlyWindow(d)
  <2>1. mode' \in [Dev -> Mode] /\ outbox' \in [Dev -> Seq(DeviceFrame)]
    BY <1>1, ModeNames, GotoShape, StartupShape, PutShape DEF ListenOnlyWindow
  <2>2. memory' \in [Dev -> Memory]
    BY <1>1, AttemptShape DEF ListenOnlyWindow, OneMoreAttempt
  <2>3. UNCHANGED <<images, soon, delayed, ghosts, spent>>
    BY <1>1 DEF ListenOnlyWindow
  <2>4. QED
    BY <2>1, <2>2, <2>3 DEF DeviceShape
<1>2. CASE SendDelivered(d)
  <2>1. mode' \in [Dev -> Mode] /\ memory' \in [Dev -> Memory]
    BY <1>2, ModeNames, GotoShape, AttemptShape DEF SendDelivered, Delivered
  <2>2. UNCHANGED <<images, soon, delayed, outbox, ghosts, spent>>
    BY <1>2 DEF SendDelivered
  <2>3. QED
    BY <2>1, <2>2 DEF DeviceShape
<1>3. CASE ResponseWindow(d)
  BY <1>3, EnterWaitShape DEF ResponseWindow
<1>4. CASE RepeatStartup(d)
  <2>1. outbox' \in [Dev -> Seq(DeviceFrame)]
    BY <1>4, StartupShape, PutShape DEF RepeatStartup
  <2>2. UNCHANGED <<machine, images, soon, delayed, ghosts, spent>>
    BY <1>4 DEF RepeatStartup
  <2>3. QED
    BY <2>1, <2>2 DEF DeviceShape
<1>5. CASE DelayedReply(d)
  <2>1. outbox' \in [Dev -> Seq(DeviceFrame)]
    BY <1>5, FrameShape, PutShape DEF DelayedReply
  <2>2. replies' \in [Dev -> 0..MaxReplies]
    BY <1>5, ConstantShape DEF DelayedReply, DeviceShape
  <2>3. UNCHANGED <<machine, images, soon, resends, ghosts, spent>>
    BY <1>5 DEF DelayedReply
  <2>4. QED
    BY <2>1, <2>2, <2>3 DEF DeviceShape
<1>6. CASE PublishStatus(d)
  <2>1. outbox' \in [Dev -> Seq(DeviceFrame)]
    BY <1>6, FrameShape, PutShape DEF PublishStatus
  <2>2. UNCHANGED <<machine, images, soon, delayed, ghosts, spent>>
    BY <1>6 DEF PublishStatus
  <2>3. QED
    BY <2>1, <2>2 DEF DeviceShape
<1>7. CASE HopToHardDisabled(d)
  <2>1. TakeHardDisable(d)
    BY <1>7 DEF HopToHardDisabled
  <2>2. soon' \in [Dev -> Seq(SelfEvent)]
    BY <1>7 DEF HopToHardDisabled, Next1, DeviceShape
  <2>3. /\ wanted' \in [Dev -> {"enabled", "disabled"}]
        /\ spent' \in [Dev -> [events : Nat, changes : Nat]]
    BY <1>7 DEF HopToHardDisabled, DeviceShape
  <2>4. QED
    BY <2>1, <2>2, <2>3, TakeHardDisableShape
<1>8. CASE HardEnableApply(d)
  <2>1. host[d] \in Image /\ Tail(soon[d]) \in Seq(SelfEvent)
    BY <1>8 DEF HardEnableApply, Next1, DeviceShape
  <2>2. UNCHANGED <<dialog, delayed, outbox, ghosts, spent>>
    BY <1>8 DEF HardEnableApply
  <2>3. CASE mode[d] = "hard_disabled"
    <3>1. EnterPreStartup(d, host[d], Tail(soon[d]))
      BY <1>8, <2>3 DEF HardEnableApply
    <3>2. QED
      BY <2>1, <2>2, <3>1, EnterPreStartupShape DEF DeviceShape
  <2>4. CASE mode[d] # "hard_disabled"
    <3>1. /\ soon' = [soon EXCEPT ![d] = Tail(@)]
          /\ UNCHANGED <<machine, host, file>>
      BY <1>8, <2>4 DEF HardEnableApply
    <3>2. soon' \in [Dev -> Seq(SelfEvent)]
      BY <2>1, <3>1 DEF DeviceShape
    <3>3. QED
      BY <2>2, <3>1, <3>2 DEF DeviceShape
  <2>5. QED
    BY <2>3, <2>4
<1>9. ASSUME NEW n \in resends[d], NextResend(d, n)
      PROVE  DeviceShape'
  <2>1. UNCHANGED <<mode, images, soon, replies, ghosts, spent>>
    BY <1>9 DEF NextResend
  <2>2. CASE mode[d] = "sending"
    <3>1. outbox' \in [Dev -> Seq(DeviceFrame)]
      BY <1>9, <2>2, StartupShape, PutShape DEF NextResend
    <3>2. memory' \in [Dev -> Memory]
      <4>1. OneMoreAttempt(d)
        BY <1>9, <2>2 DEF NextResend
      <4>2. QED
        <5>1. memory[d].attempts \in Nat /\ memory[d].attempts + 1 \in Nat
          BY AttemptShape
        <5>2. memory' = [memory EXCEPT ![d].attempts = memory[d].attempts + 1]
          BY <4>1 DEF OneMoreAttempt
        <5>3. QED
          BY <5>1, <5>2, AttemptShape
    <3>3. resends' = [resends EXCEPT ![d] = (@ \ {n}) \cup {memory[d].attempts}]
      BY <1>9, <2>2 DEF NextResend
    <3>4. resends' \in [Dev -> SUBSET Nat]
      BY <3>3, AttemptShape DEF DeviceShape
    <3>5. QED
      BY <2>1, <3>1, <3>2, <3>4 DEF DeviceShape
  <2>3. CASE mode[d] # "sending"
    <3>1. /\ resends' = [resends EXCEPT ![d] = @ \ {n}]
          /\ UNCHANGED <<memory, outbox>>
      BY <1>9, <2>3 DEF NextResend
    <3>2. resends' \in [Dev -> SUBSET Nat]
      BY <3>1 DEF DeviceShape
    <3>3. QED
      BY <2>1, <3>1, <3>2 DEF DeviceShape
  <2>4. QED
    BY <2>2, <2>3
<1>10. ASSUME NEW n \in resends[d], RestartAfterCap(d, n)
       PROVE  DeviceShape'
  <2>1. /\ resends' = [resends EXCEPT ![d] = @ \ {n}]
        /\ UNCHANGED <<dialog, replies, outbox, ghosts, spent>>
    BY <1>10 DEF RestartAfterCap
  <2>2. resends' \in [Dev -> SUBSET Nat]
    BY <2>1 DEF DeviceShape
  <2>3. CASE mode[d] \in PreStartup
    <3>1. host[d] \in Image /\ soon[d] \in Seq(SelfEvent)
      BY DEF DeviceShape
    <3>2. EnterPreStartup(d, host[d], soon[d])
      BY <1>10, <2>3 DEF RestartAfterCap
    <3>3. QED
      BY <2>1, <2>2, <3>1, <3>2, EnterPreStartupShape DEF DeviceShape
  <2>4. CASE mode[d] \notin PreStartup
    <3>1. /\ memory' = [memory EXCEPT ![d].attempts = 0]
          /\ UNCHANGED <<mode, host, file, soon>>
      BY <1>10, <2>4 DEF RestartAfterCap
    <3>2. memory' \in [Dev -> Memory]
      BY <3>1, AttemptShape
    <3>3. QED
      BY <2>1, <2>2, <3>1, <3>2 DEF DeviceShape
  <2>5. QED
    BY <2>3, <2>4
<1>11. QED
  BY <1>1, <1>2, <1>3, <1>4, <1>5, <1>6, <1>7, <1>8, <1>9, <1>10 DEF Step

LEMMA HearShape ==
  ASSUME DeviceShape, NEW d \in Dev, HearSc(d) \/ HearAssignment(d)
  PROVE  DeviceShape'
<1> USE DEF machine, images, delayed, ghosts
<1>1. CASE EnterWait(d)
  BY <1>1, EnterWaitShape
<1>2. CASE HearCoordinator(d)
  <2>1. replies' \in [Dev -> 0..MaxReplies]
    BY <1>2, ConstantShape DEF HearCoordinator, DeviceShape
  <2>2. UNCHANGED <<machine, images, soon, resends, outbox, ghosts, spent>>
    BY <1>2 DEF HearCoordinator
  <2>3. QED
    BY <2>1, <2>2 DEF DeviceShape
<1>3. CASE ChangeState(d)
  <2>1. mode' \in [Dev -> Mode]
    BY <1>3, ModeNames, GotoShape DEF ChangeState
  <2>2. UNCHANGED <<memory, images, soon, delayed, outbox, ghosts, spent>>
    BY <1>3 DEF ChangeState
  <2>3. QED
    BY <2>1, <2>2 DEF DeviceShape
<1>4. CASE DiagQuery(d)
  <2>1. memory[d].et \in Nat
    BY DEF DeviceShape, Memory
  <2>2. outbox' \in [Dev -> Seq(DeviceFrame)]
    BY <1>4, <2>1, FrameShape, PutShape DEF DiagQuery
  <2>3. UNCHANGED <<machine, images, soon, delayed, ghosts, spent>>
    BY <1>4 DEF DiagQuery
  <2>4. QED
    BY <2>2, <2>3 DEF DeviceShape
<1>5. ASSUME NEW to \in Dev, NEW all \in BOOLEAN, NEW a \in Assignable,
             RecordAssignment(d, to, all, a)
      PROVE  DeviceShape'
  <2>1. host[d] \in Image /\ memory[d] \in Memory /\ memory \in [Dev -> Memory]
    BY DEF DeviceShape
  <2>2. a.et \in Nat /\ Subnet(a) \in Nat /\ Assigned(host[d], a) \in Image
    BY <2>1, AssignedShape
  <2>3. outbox' \in [Dev -> Seq(DeviceFrame)]
    BY <1>5, <2>2, FrameShape, PutShape DEF RecordAssignment
  <2>4. host' \in [Dev -> Image] /\ file' \in [Dev -> Image \cup {Torn}]
    BY <1>5, <2>2, WriteShape DEF RecordAssignment
  <2>5. [memory[d] EXCEPT !.et = a.et, !.subnet = Subnet(a), !.assigned = TRUE]
          \in Memory
    BY <2>1, <2>2 DEF Memory
  <2>6. memory' = [memory EXCEPT ![d] =
          [memory[d] EXCEPT !.et = a.et, !.subnet = Subnet(a), !.assigned = TRUE]]
    BY <1>5, <2>1 DEF RecordAssignment, Memory
  <2>7. memory' \in [Dev -> Memory]
    BY <2>1, <2>5, <2>6
  <2>8. UNCHANGED <<mode, dialog, soon, delayed, wanted, spent>>
    BY <1>5 DEF RecordAssignment
  <2>9. QED
    BY <1>5, <2>2, <2>3, <2>4, <2>7, <2>8, HeedShape
       DEF RecordAssignment, DeviceShape
<1>6. ASSUME NEW to \in Dev, NEW all \in BOOLEAN, NEW a \in Assignable,
             PowerLossInAssignment(d, to, all, a)
      PROVE  DeviceShape'
  <2>1. host[d] \in Image
    BY DEF DeviceShape
  <2>2. HalfAssigned(host[d], a) \in Image
    BY <2>1, AssignedShape
  <2>3. file' \in [Dev -> Image \cup {Torn}]
    BY <1>6, <2>2 DEF PowerLossInAssignment, DeviceShape
  <2>4. QED
    BY <1>6, <2>3, HeedShape, DarkShape DEF PowerLossInAssignment
<1>7. QED
  BY <1>1, <1>2, <1>3, <1>4, <1>5, <1>6 DEF HearSc, HearAssignment

LEMMA DriveShape ==
  ASSUME DeviceShape, NEW d \in Dev, Drive(d)
  PROVE  DeviceShape'
<1> USE DEF machine, images, delayed, ghosts
<1>1. CASE BitErrorDetected(d)
  <2> DEFINE attempt == IF memory[d].attempts = 0 THEN 1 ELSE memory[d].attempts
  <2>1. /\ memory' = [memory EXCEPT ![d].attempts = attempt + 1]
        /\ resends' = [resends EXCEPT ![d] = @ \cup {attempt}]
        /\ Put(d, <<Startup(d)>>)
        /\ UNCHANGED <<mode, images, soon, replies, ghosts>>
    BY <1>1 DEF BitErrorDetected, SendAgain
  <2>2. attempt \in Nat /\ attempt + 1 \in Nat
    BY AttemptShape
  <2>3. memory' \in [Dev -> Memory] /\ resends' \in [Dev -> SUBSET Nat]
    BY <2>1, <2>2, AttemptShape DEF DeviceShape
  <2>4. outbox' \in [Dev -> Seq(DeviceFrame)]
    BY <2>1, StartupShape, PutShape
  <2>5. spent' \in [Dev -> [events : Nat, changes : Nat]]
    BY <1>1, DrivenShape DEF BitErrorDetected
  <2>6. QED
    BY <2>1, <2>3, <2>4, <2>5 DEF DeviceShape
<1>2. CASE DeliveryReported(d)
  <2>1. mode' \in [Dev -> Mode] /\ memory' \in [Dev -> Memory]
    BY <1>2, ModeNames, GotoShape, AttemptShape DEF DeliveryReported, Delivered
  <2>2. UNCHANGED <<images, soon, delayed, outbox, ghosts>>
    BY <1>2 DEF DeliveryReported
  <2>3. QED
    BY <1>2, <2>1, <2>2, DrivenShape DEF DeliveryReported, DeviceShape
<1>3. CASE Reset(d)
  <2>1. host[d] \in Image /\ soon[d] \in Seq(SelfEvent)
    BY DEF DeviceShape
  <2>2. /\ EnterPreStartup(d, host[d], soon[d]) /\ Driven(d, 0)
        /\ UNCHANGED <<dialog, delayed, outbox, ghosts>>
    BY <1>3 DEF Reset
  <2>3. QED
    BY <2>1, <2>2, EnterPreStartupShape, DrivenShape DEF DeviceShape
<1>4. CASE HardDisable(d)
  <2>1. TakeHardDisable(d) /\ UNCHANGED soon /\ soon \in [Dev -> Seq(SelfEvent)]
    BY <1>4 DEF HardDisable, DeviceShape
  <2>2. wanted' \in [Dev -> {"enabled", "disabled"}]
    BY <1>4 DEF HardDisable, DeviceShape
  <2>3. spent' \in [Dev -> [events : Nat, changes : Nat]]
    BY <1>4, DrivenShape DEF HardDisable
  <2>4. QED
    BY <2>1, <2>2, <2>3, TakeHardDisableShape
<1>5. CASE HardEnable(d)
  <2>1. outbox' \in [Dev -> Seq(DeviceFrame)]
    <3>1. memory[d].et \in Nat
      BY DEF DeviceShape, Memory
    <3>2. QED
      BY <1>5, <3>1, FrameShape, PutShape DEF HardEnable
  <2>2. soon' \in [Dev -> Seq(SelfEvent)]
    <3>1. "hard_enable_apply" \in SelfEvent
      BY DEF SelfEvent
    <3>2. QED
      BY <1>5, <3>1 DEF HardEnable, DeviceShape
  <2>3. wanted' \in [Dev -> {"enabled", "disabled"}]
    BY <1>5 DEF HardEnable, DeviceShape
  <2>4. EnterHardDisabled(d) /\ UNCHANGED <<memory, dialog, delayed, told, acked>>
    BY <1>5 DEF HardEnable
  <2>5. spent' \in [Dev -> [events : Nat, changes : Nat]]
    BY <1>5, DrivenShape DEF HardEnable
  <2>6. QED
    BY <2>1, <2>2, <2>3, <2>4, <2>5, EnterHardDisabledShape DEF DeviceShape
<1>6. CASE ChangeParameter(d)
  <2> DEFINE image == [dialog[d].data EXCEPT !.param = @ + 1]
  <2>1. dialog[d].data \in Image
    BY DEF DeviceShape
  <2>2. image \in Image
    BY <2>1 DEF Image
  <2>3. /\ dialog' = [dialog EXCEPT ![d] = [state |-> "updated", data |-> image]]
        /\ file' = [file EXCEPT ![d] = image]
        /\ Driven(d, 1)
        /\ UNCHANGED <<machine, host, soon, delayed, outbox, ghosts>>
    BY <1>6 DEF ChangeParameter
  <2>4. [state |-> "updated", data |-> image]
          \in [state : {"listening", "updated"}, data : Image]
    BY <2>2
  <2> HIDE DEF image
  <2>5. /\ dialog' \in [Dev -> [state : {"listening", "updated"}, data : Image]]
        /\ file' \in [Dev -> Image \cup {Torn}]
    BY <2>2, <2>3, <2>4 DEF DeviceShape
  <2>6. QED
    BY <2>3, <2>5, DrivenShape DEF DeviceShape
<1>7. CASE RefuseParameter(d)
  <2>1. outbox' \in [Dev -> Seq(DeviceFrame)]
    BY <1>7, FrameShape, PutShape DEF RefuseParameter
  <2>2. dialog' \in [Dev -> [state : {"listening", "updated"}, data : Image]]
    <3>1. /\ dialog' = [dialog EXCEPT ![d].state = "listening"]
          /\ dialog \in [Dev -> [state : {"listening", "updated"}, data : Image]]
      BY <1>7 DEF RefuseParameter, DeviceShape
    <3>2. QED
      BY <3>1
  <2>3. Driven(d, 0) /\ UNCHANGED <<machine, host, file, soon, delayed, ghosts>>
    BY <1>7 DEF RefuseParameter
  <2>4. QED
    BY <2>1, <2>2, <2>3, DrivenShape DEF DeviceShape
<1>8. CASE ParametersAcked(d)
  <2>1. dialog' \in [Dev -> [state : {"listening", "updated"}, data : Image]]
    <3>1. /\ dialog' = [dialog EXCEPT ![d].state = "listening"]
          /\ dialog \in [Dev -> [state : {"listening", "updated"}, data : Image]]
      BY <1>8 DEF ParametersAcked, DeviceShape
    <3>2. QED
      BY <3>1
  <2>2. UNCHANGED <<machine, host, file, soon, delayed, outbox, ghosts, spent>>
    BY <1>8 DEF ParametersAcked
  <2>3. QED
    BY <2>1, <2>2 DEF DeviceShape
<1>9. QED
  BY <1>1, <1>2, <1>3, <1>4, <1>5, <1>6, <1>7, <1>8 DEF Drive

LEMMA PowerShape ==
  ASSUME DeviceShape, NEW d \in Dev,
         DeviceBoot(d) \/ PowerLoss(d) \/ PowerLossInWrite(d) \/ Pump(d)
  PROVE  DeviceShape'
<1> USE DEF machine, images, delayed, ghosts
<1>1. CASE DeviceBoot(d)
  <2>1. file[d] \in Image /\ <<>> \in Seq(SelfEvent)
    BY <1>1 DEF DeviceBoot, DeviceShape
  <2>2. /\ EnterPreStartup(d, file[d], <<>>)
        /\ dialog' = [dialog EXCEPT ![d] = [state |-> "listening", data |-> file[d]]]
        /\ UNCHANGED <<delayed, outbox, ghosts, spent>>
    BY <1>1 DEF DeviceBoot
  <2>3. dialog' \in [Dev -> [state : {"listening", "updated"}, data : Image]]
    BY <2>1, <2>2 DEF DeviceShape
  <2>4. QED
    BY <2>1, <2>2, <2>3, EnterPreStartupShape DEF DeviceShape
<1>2. CASE PowerLoss(d)
  BY <1>2, DarkShape DEF PowerLoss, DeviceShape
<1>3. CASE PowerLossInWrite(d)
  <2>1. file' \in [Dev -> Image \cup {Torn}]
    BY <1>3 DEF PowerLossInWrite, DeviceShape
  <2>2. QED
    BY <1>3, <2>1, DarkShape DEF PowerLossInWrite, DeviceShape
<1>4. CASE Pump(d)
  <2>1. /\ Head(outbox[d]) \in DeviceFrame
        /\ Tail(outbox[d]) \in Seq(DeviceFrame)
    BY <1>4 DEF Pump, DeviceShape
  <2>2. Head(outbox[d]).et \in Nat
    BY <2>1 DEF DeviceFrame
  <2>3. acked' \in [Dev -> Nat] /\ outbox' \in [Dev -> Seq(DeviceFrame)]
    BY <1>4, <2>1, <2>2 DEF Pump, DeviceShape
  <2>4. UNCHANGED <<machine, images, soon, delayed, told, wanted, spent>>
    BY <1>4 DEF Pump
  <2>5. QED
    BY <2>3, <2>4 DEF DeviceShape
<1>5. QED
  BY <1>1, <1>2, <1>3, <1>4

LEMMA NextShape == DeviceShape /\ [DeviceNext]_deviceVars => DeviceShape'
<1>1. ASSUME DeviceShape, UNCHANGED deviceVars
      PROVE  DeviceShape'
  BY <1>1 DEF deviceVars, machine, images, delayed, ghosts, DeviceShape
<1>2. ASSUME DeviceShape, DeviceNext
      PROVE  DeviceShape'
  BY <1>2, StepShape, HearShape, DriveShape, PowerShape DEF DeviceNext
<1>3. QED
  BY <1>1, <1>2

LEMMA InitShape == DeviceInit => DeviceShape
<1> SUFFICES ASSUME DeviceInit
             PROVE  DeviceShape
  OBVIOUS
<1>1. mode \in [Dev -> Mode]
  BY ModeNames DEF DeviceInit
<1>2. /\ memory \in [Dev -> Memory] /\ host \in [Dev -> Image]
      /\ file \in [Dev -> Image \cup {Torn}]
      /\ dialog \in [Dev -> [state : {"listening", "updated"}, data : Image]]
  BY BlankShape DEF DeviceInit
<1>3. replies \in [Dev -> 0..MaxReplies]
  BY ConstantShape DEF DeviceInit
<1>4. QED
  BY <1>1, <1>2, <1>3 DEF DeviceInit, DeviceShape, Unassigned

LEMMA ShapeHolds == DeviceSpec => []DeviceShape
BY InitShape, NextShape, PTL DEF DeviceSpec

-----------------------------------------------------------------------------
(* A device's step is its own *)

\* Nothing of device e changes that the invariants below read.
Same(e) ==
  /\ mode'[e] = mode[e] /\ memory'[e] = memory[e]
  /\ host'[e] = host[e] /\ file'[e] = file[e]
  /\ resends'[e] = resends[e] /\ outbox'[e] = outbox[e]
  /\ told'[e] = told[e] /\ acked'[e] = acked[e]
  /\ spent'[e] = spent[e] /\ soon'[e] = soon[e] /\ wanted'[e] = wanted[e]

DeviceAction(d) ==
  \/ DeviceBoot(d) \/ PowerLoss(d) \/ PowerLossInWrite(d)
  \/ Step(d) \/ HearSc(d) \/ HearAssignment(d) \/ Drive(d) \/ Pump(d)

LEMMA OthersAreSame ==
  ASSUME DeviceShape, NEW d \in Dev, DeviceAction(d), NEW e \in Dev \ {d}
  PROVE  Same(e)
<1> USE DEF machine, images, delayed, ghosts, DeviceShape, Same
<1>1. CASE DeviceBoot(d) \/ PowerLoss(d) \/ PowerLossInWrite(d) \/ Pump(d)
  BY <1>1 DEF DeviceBoot, PowerLoss, PowerLossInWrite, Pump, Dark, Goto,
              EnterPreStartup, Write
<1>2. CASE Step(d)
  <2>1. CASE ListenOnlyWindow(d) \/ SendDelivered(d) \/ ResponseWindow(d)
    BY <2>1 DEF ListenOnlyWindow, SendDelivered, Delivered, ResponseWindow,
                EnterWait, Goto, Put, OneMoreAttempt
  <2>2. CASE RepeatStartup(d) \/ DelayedReply(d) \/ PublishStatus(d)
    BY <2>2 DEF RepeatStartup, DelayedReply, PublishStatus, Put
  <2>3. CASE HopToHardDisabled(d)
    BY <2>3 DEF HopToHardDisabled, TakeHardDisable, EnterHardDisabled, Goto, Write, Put
  <2>4. CASE HardEnableApply(d)
    BY <2>4 DEF HardEnableApply, EnterPreStartup, Goto, Write
  <2>5. ASSUME NEW n \in resends[d], NextResend(d, n)
        PROVE  Same(e)
    BY <2>5 DEF NextResend, OneMoreAttempt, Put
  <2>6. ASSUME NEW n \in resends[d], RestartAfterCap(d, n)
        PROVE  Same(e)
    BY <2>6 DEF RestartAfterCap, EnterPreStartup, Goto, Write
  <2>7. QED
    BY <1>2, <2>1, <2>2, <2>3, <2>4, <2>5, <2>6 DEF Step
<1>3. CASE HearSc(d)
  <2>1. CASE EnterWait(d) \/ ChangeState(d)
    BY <2>1 DEF EnterWait, ChangeState, Goto, Put
  <2>2. CASE HearCoordinator(d) \/ DiagQuery(d)
    BY <2>2 DEF HearCoordinator, DiagQuery, Put
  <2>3. QED
    BY <1>3, <2>1, <2>2 DEF HearSc
<1>4. CASE HearAssignment(d)
  <2>1. ASSUME NEW to \in Dev, NEW all \in BOOLEAN, NEW a \in Assignable,
               RecordAssignment(d, to, all, a)
        PROVE  Same(e)
    BY <2>1 DEF RecordAssignment, Heed, Write, Put
  <2>2. ASSUME NEW to \in Dev, NEW all \in BOOLEAN, NEW a \in Assignable,
               PowerLossInAssignment(d, to, all, a)
        PROVE  Same(e)
    BY <2>2 DEF PowerLossInAssignment, Heed, Dark, Goto
  <2>3. QED
    BY <1>4, <2>1, <2>2 DEF HearAssignment
<1>5. CASE Drive(d)
  <2>1. CASE BitErrorDetected(d) \/ DeliveryReported(d) \/ Reset(d)
    BY <2>1 DEF BitErrorDetected, SendAgain, DeliveryReported, Delivered, Reset,
                Driven, EnterPreStartup, Goto, Write, Put
  <2>2. CASE HardDisable(d) \/ HardEnable(d)
    BY <2>2 DEF HardDisable, TakeHardDisable, HardEnable, EnterHardDisabled,
                Driven, Goto, Write, Put
  <2>3. CASE ChangeParameter(d) \/ RefuseParameter(d) \/ ParametersAcked(d)
    BY <2>3 DEF ChangeParameter, RefuseParameter, ParametersAcked, Driven, Put
  <2>4. QED
    BY <1>5, <2>1, <2>2, <2>3 DEF Drive
<1>6. QED
  BY <1>1, <1>2, <1>3, <1>4, <1>5 DEF DeviceAction

-----------------------------------------------------------------------------
(* The cap on attempts *)

\* The resends under way that will still send.
Due(d) == {n \in resends[d] : n < MaxAttempt}

\* A run of sends that passes its cap has a resend or a past disturbance for
\* each send beyond it.
InCap(d) ==
  /\ IsFiniteSet(resends[d])
  /\ spent[d].events <= MaxDriven
  /\ mode[d] = "listen_only" => memory[d].attempts = 0
  /\ Cardinality(Due(d)) <= spent[d].events
  /\ memory[d].attempts >= MaxAttempt =>
       memory[d].attempts + Cardinality(Due(d)) <= MaxAttempt + spent[d].events

CapInv == \A d \in Dev : InCap(d)

LEMMA DueShape ==
  ASSUME DeviceShape, NEW d \in Dev, InCap(d)
  PROVE  /\ IsFiniteSet(Due(d)) /\ Cardinality(Due(d)) \in Nat
         /\ memory[d].attempts \in Nat /\ spent[d].events \in Nat
<1>1. Due(d) \subseteq resends[d]
  BY DEF Due
<1>2. IsFiniteSet(Due(d)) /\ Cardinality(Due(d)) \in Nat
  BY <1>1, FS_Subset, FS_CardinalityType DEF InCap
<1>3. spent[d].events \in Nat
  BY DEF DeviceShape
<1>4. QED
  BY <1>2, <1>3, AttemptShape

LEMMA OneMore ==
  ASSUME NEW S, IsFiniteSet(S), NEW x
  PROVE  /\ IsFiniteSet(S \cup {x})
         /\ Cardinality(S) \in Nat /\ Cardinality(S \cup {x}) \in Nat
         /\ Cardinality(S \cup {x}) <= Cardinality(S) + 1
<1>1. IsFiniteSet(S \cup {x}) /\ Cardinality(S) \in Nat
  BY FS_AddElement, FS_CardinalityType
<1>2. Cardinality(S \cup {x}) \in Nat
  BY <1>1, FS_CardinalityType
<1>3. QED
  BY <1>1, <1>2, FS_AddElement

\* A step that adds no resend and does not raise the count.
Calm(d) ==
  /\ resends'[d] \subseteq resends[d]
  /\ memory'[d].attempts \in {0, memory[d].attempts}
  /\ mode'[d] = "listen_only" => memory'[d].attempts = 0
  /\ spent[d].events <= spent'[d].events /\ spent'[d].events <= MaxDriven

LEMMA CalmKeepsCap ==
  ASSUME DeviceShape, DeviceShape', NEW d \in Dev, InCap(d), Calm(d)
  PROVE  InCap(d)'
<1>1. /\ IsFiniteSet(Due(d)) /\ Cardinality(Due(d)) \in Nat
      /\ memory[d].attempts \in Nat /\ spent[d].events \in Nat
  BY DueShape
<1>2. spent'[d].events \in Nat /\ memory'[d].attempts \in Nat
  <2>1. spent' \in [Dev -> [events : Nat, changes : Nat]]
    BY DEF DeviceShape
  <2>2. QED
    BY <1>1, <2>1 DEF Calm
<1>3. Due(d)' \subseteq Due(d)
  BY DEF Due, Calm
<1>4. IsFiniteSet(resends'[d])
  BY FS_Subset DEF InCap, Calm
<1>5. Cardinality(Due(d)') <= Cardinality(Due(d)) /\ Cardinality(Due(d)') \in Nat
  BY <1>1, <1>3, FS_Subset, FS_CardinalityType
<1>6. MaxAttempt \in Nat \ {0} /\ MaxDriven \in Nat
  BY ConstantShape
<1>7. Cardinality(Due(d)') <= spent'[d].events
  BY <1>1, <1>2, <1>5 DEF InCap, Calm
<1>8. memory'[d].attempts >= MaxAttempt =>
        memory'[d].attempts + Cardinality(Due(d)') <= MaxAttempt + spent'[d].events
  BY <1>1, <1>2, <1>5, <1>6 DEF InCap, Calm
<1>9. QED
  BY <1>4, <1>7, <1>8 DEF InCap, Calm

LEMMA SameKeepsCap ==
  ASSUME NEW e \in Dev, Same(e), InCap(e)
  PROVE  InCap(e)'
<1>1. Due(e)' = Due(e)
  BY DEF Same, Due
<1>2. QED
  BY <1>1 DEF Same, InCap

\* A disturbance: one send and one resend more, and one event spent.
LEMMA BitErrorKeepsCap ==
  ASSUME DeviceShape, NEW d \in Dev, InCap(d), BitErrorDetected(d)
  PROVE  InCap(d)'
<1> DEFINE attempt == IF memory[d].attempts = 0 THEN 1 ELSE memory[d].attempts
<1>1. /\ IsFiniteSet(Due(d)) /\ Cardinality(Due(d)) \in Nat
      /\ memory[d].attempts \in Nat /\ spent[d].events \in Nat
      /\ MaxAttempt \in Nat \ {0} /\ MaxDriven \in Nat
  BY DueShape, ConstantShape
<1>2. /\ memory'[d].attempts = attempt + 1 /\ attempt \in Nat
      /\ attempt >= memory[d].attempts
      /\ attempt > memory[d].attempts => attempt = 1 /\ memory[d].attempts = 0
      /\ resends'[d] = resends[d] \cup {attempt}
      /\ mode[d] = "sending" /\ mode' = mode
  <2>1. memory[d] \in Memory
    BY DEF DeviceShape
  <2>2. QED
    BY <1>1, <2>1 DEF BitErrorDetected, SendAgain, DeviceShape, Memory
<1>3. spent'[d].events = spent[d].events + 1 /\ spent'[d].events <= MaxDriven
  BY <1>1 DEF BitErrorDetected, Driven, DeviceShape
<1> HIDE DEF attempt
<1>4. IsFiniteSet(resends'[d])
  <2>1. IsFiniteSet(resends[d])
    BY DEF InCap
  <2>2. IsFiniteSet(resends[d] \cup {attempt})
    BY <2>1, OneMore
  <2>3. QED
    BY <1>2, <2>2
<1>5. attempt < MaxAttempt => Due(d)' = Due(d) \cup {attempt}
  BY <1>2 DEF Due
<1>6. attempt >= MaxAttempt => Due(d)' = Due(d)
  BY <1>1, <1>2 DEF Due
<1>7. /\ Cardinality(Due(d)') \in Nat
      /\ Cardinality(Due(d)') <= Cardinality(Due(d)) + 1
      /\ attempt >= MaxAttempt => Cardinality(Due(d)') = Cardinality(Due(d))
  <2>1. CASE attempt < MaxAttempt
    <3>1. /\ Cardinality(Due(d) \cup {attempt}) \in Nat
          /\ Cardinality(Due(d) \cup {attempt}) <= Cardinality(Due(d)) + 1
      BY <1>1, OneMore
    <3>2. Cardinality(Due(d)') = Cardinality(Due(d) \cup {attempt})
      BY <1>5, <2>1
    <3>3. ~(attempt >= MaxAttempt)
      BY <1>1, <1>2, <2>1
    <3>4. QED
      BY <3>1, <3>2, <3>3
  <2>2. CASE attempt >= MaxAttempt
    BY <1>1, <1>2, <1>6, <2>2
  <2>3. QED
    BY <1>1, <1>2, <2>1, <2>2
<1>8. mode'[d] # "listen_only"
  BY <1>2
<1>9. Cardinality(Due(d)') <= spent'[d].events
  BY <1>1, <1>3, <1>7 DEF InCap
<1>10. ASSUME memory'[d].attempts >= MaxAttempt
       PROVE  memory'[d].attempts + Cardinality(Due(d)')
                <= MaxAttempt + spent'[d].events
  <2>1. CASE attempt < MaxAttempt
    BY <1>1, <1>2, <1>3, <1>7, <2>1 DEF InCap
  <2>2. CASE attempt >= MaxAttempt
    BY <1>1, <1>2, <1>3, <1>7, <2>2 DEF InCap
  <2>3. QED
    BY <1>1, <1>2, <2>1, <2>2
<1>11. QED
  BY <1>3, <1>4, <1>8, <1>9, <1>10 DEF InCap

\* A resend that sends is replaced by one that does so only below the cap.
LEMMA ResendKeepsCap ==
  ASSUME DeviceShape, NEW d \in Dev, InCap(d), NEW n \in resends[d],
         NextResend(d, n), mode[d] = "sending"
  PROVE  InCap(d)'
<1> DEFINE attempt == memory[d].attempts
<1>0. attempt >= MaxAttempt =>
        attempt + Cardinality(Due(d)) <= MaxAttempt + spent[d].events
  BY DEF InCap
<1>1. /\ IsFiniteSet(Due(d)) /\ Cardinality(Due(d)) \in Nat
      /\ attempt \in Nat /\ spent[d].events \in Nat
      /\ MaxAttempt \in Nat \ {0} /\ MaxDriven \in Nat
  BY DueShape, ConstantShape
<1>2. /\ memory'[d].attempts = attempt + 1
      /\ resends'[d] = (resends[d] \ {n}) \cup {attempt}
      /\ mode' = mode /\ spent' = spent
  <2>1. memory[d] \in Memory
    BY DEF DeviceShape
  <2>2. /\ OneMoreAttempt(d) /\ mode' = mode /\ spent' = spent
        /\ resends' = [resends EXCEPT ![d] = (@ \ {n}) \cup {attempt}]
    BY DEF NextResend
  <2>3. QED
    BY <1>1, <2>1, <2>2 DEF OneMoreAttempt, DeviceShape, Memory
<1>3. n \in Due(d) /\ n \in Nat
  BY DEF NextResend, Due, DeviceShape
<1> HIDE DEF attempt
<1>4. IsFiniteSet(resends'[d])
  <2>1. IsFiniteSet(resends[d] \ {n})
    BY FS_Subset DEF InCap
  <2>2. IsFiniteSet((resends[d] \ {n}) \cup {attempt})
    BY <2>1, OneMore
  <2>3. QED
    BY <1>2, <2>2
<1>5. attempt < MaxAttempt => Due(d)' = (Due(d) \ {n}) \cup {attempt}
  BY <1>2 DEF Due
<1>6. attempt >= MaxAttempt => Due(d)' = Due(d) \ {n}
  BY <1>1, <1>2 DEF Due
<1>7. /\ IsFiniteSet(Due(d) \ {n})
      /\ Cardinality(Due(d) \ {n}) = Cardinality(Due(d)) - 1
      /\ Cardinality(Due(d) \ {n}) \in Nat
  BY <1>1, <1>3, FS_RemoveElement, FS_CardinalityType
<1>8. /\ Cardinality(Due(d)') \in Nat
      /\ attempt < MaxAttempt => Cardinality(Due(d)') <= Cardinality(Due(d))
      /\ attempt >= MaxAttempt => Cardinality(Due(d)') = Cardinality(Due(d)) - 1
  <2>1. CASE attempt < MaxAttempt
    <3>1. /\ Cardinality((Due(d) \ {n}) \cup {attempt}) \in Nat
          /\ Cardinality((Due(d) \ {n}) \cup {attempt})
               <= Cardinality(Due(d) \ {n}) + 1
      BY <1>7, OneMore
    <3>2. Cardinality(Due(d)') = Cardinality((Due(d) \ {n}) \cup {attempt})
      BY <1>5, <2>1
    <3>3. ~(attempt >= MaxAttempt)
      BY <1>1, <2>1
    <3>4. QED
      BY <1>1, <1>7, <3>1, <3>2, <3>3
  <2>2. CASE attempt >= MaxAttempt
    <3>1. Cardinality(Due(d)') = Cardinality(Due(d) \ {n})
      BY <1>6, <2>2
    <3>2. ~(attempt < MaxAttempt)
      BY <1>1, <2>2
    <3>3. QED
      BY <1>7, <3>1, <3>2
  <2>3. QED
    BY <1>1, <2>1, <2>2
<1>9. Cardinality(Due(d)') <= spent'[d].events
  BY <1>1, <1>2, <1>8 DEF InCap
<1>10. ASSUME memory'[d].attempts >= MaxAttempt
       PROVE  memory'[d].attempts + Cardinality(Due(d)')
                <= MaxAttempt + spent'[d].events
  <2>1. CASE attempt < MaxAttempt
    BY <1>1, <1>2, <1>8, <1>9, <1>10, <2>1
  <2>2. CASE attempt >= MaxAttempt
    BY <1>0, <1>1, <1>2, <1>8, <2>2
  <2>3. QED
    BY <1>1, <2>1, <2>2
<1>11. QED
  BY <1>2, <1>4, <1>9, <1>10 DEF InCap

LEMMA ListeningKeepsCap ==
  ASSUME DeviceShape, NEW d \in Dev, InCap(d), ListenOnlyWindow(d)
  PROVE  InCap(d)'
<1>1. /\ memory[d].attempts = 0 /\ memory[d] \in Memory /\ mode[d] = "listen_only"
      /\ MaxAttempt \in Nat \ {0} /\ spent[d].events \in Nat
      /\ Cardinality(Due(d)) \in Nat
  BY DueShape, ConstantShape DEF ListenOnlyWindow, InCap, DeviceShape
<1>2. /\ memory'[d].attempts = 1 /\ mode'[d] = "sending"
      /\ resends' = resends /\ spent' = spent
  BY <1>1 DEF ListenOnlyWindow, OneMoreAttempt, Goto, delayed, DeviceShape, Memory
<1>3. Due(d)' = Due(d)
  BY <1>2 DEF Due
<1>4. QED
  BY <1>1, <1>2, <1>3 DEF InCap

LEMMA DrivenIsCalm ==
  ASSUME DeviceShape, NEW d \in Dev, NEW k, Driven(d, k)
  PROVE  spent[d].events <= spent'[d].events /\ spent'[d].events <= MaxDriven
<1>1. spent[d].events \in Nat /\ MaxDriven \in Nat
  BY ConstantShape DEF DeviceShape
<1>2. spent[d].events < MaxDriven /\ spent'[d].events = spent[d].events + 1
  BY DEF Driven, DeviceShape
<1>3. QED
  BY <1>1, <1>2

LEMMA StartsAtZero ==
  ASSUME DeviceShape, NEW d \in Dev, NEW image, NEW events,
         EnterPreStartup(d, image, events)
  PROVE  memory'[d].attempts = 0 /\ mode'[d] = "listen_only"
BY DEF EnterPreStartup, Restored, Goto, DeviceShape

LEMMA SilentIsCalm ==
  ASSUME DeviceShape, NEW d \in Dev, InCap(d), UNCHANGED <<memory, spent>>,
         resends'[d] \subseteq resends[d],
         mode'[d] = "listen_only" => mode[d] = "listen_only"
  PROVE  Calm(d)
<1>1. spent[d].events \in Nat
  BY DEF DeviceShape
<1>2. QED
  BY <1>1 DEF Calm, InCap

LEMMA DarkKeepsCap ==
  ASSUME DeviceShape, DeviceShape', NEW d \in Dev, InCap(d), Dark(d)
  PROVE  InCap(d)'
<1>1. /\ memory'[d].attempts = 0 /\ resends'[d] = {} /\ spent' = spent
  BY DEF Dark, Restored, DeviceShape
<1>2. spent[d].events \in Nat
  BY DEF DeviceShape
<1>3. Calm(d)
  BY <1>1, <1>2 DEF Calm, InCap
<1>4. QED
  BY <1>3, CalmKeepsCap

LEMMA StepKeepsCap ==
  ASSUME DeviceShape, DeviceShape', NEW d \in Dev, InCap(d), Step(d)
  PROVE  InCap(d)'
<1> USE DEF machine, images, delayed, ghosts
<1>1. CASE ListenOnlyWindow(d)
  BY <1>1, ListeningKeepsCap
<1>2. CASE SendDelivered(d)
  <2>1. /\ mode'[d] = "sent" /\ memory'[d].attempts = 0
        /\ UNCHANGED <<resends, spent>>
    BY <1>2 DEF SendDelivered, Delivered, Goto, DeviceShape, Memory
  <2>2. spent[d].events \in Nat
    BY DEF DeviceShape
  <2>3. Calm(d)
    BY <2>1, <2>2 DEF Calm, InCap
  <2>4. QED
    BY <2>3, CalmKeepsCap
<1>3. CASE ResponseWindow(d)
  <2>1. /\ mode'[d] = "wait_for_assignment"
        /\ UNCHANGED <<memory, spent, resends>>
    BY <1>3 DEF ResponseWindow, EnterWait, Goto, DeviceShape
  <2>2. QED
    BY <2>1, SilentIsCalm, CalmKeepsCap
<1>4. CASE RepeatStartup(d) \/ DelayedReply(d) \/ PublishStatus(d)
  <2>1. UNCHANGED <<machine, resends, spent>>
    BY <1>4 DEF RepeatStartup, DelayedReply, PublishStatus
  <2>2. QED
    BY <2>1, SilentIsCalm, CalmKeepsCap
<1>5. CASE HopToHardDisabled(d)
  <2>1. /\ mode'[d] = "hard_disabled"
        /\ UNCHANGED <<memory, spent, resends>>
    BY <1>5 DEF HopToHardDisabled, TakeHardDisable, EnterHardDisabled, Goto,
                DeviceShape
  <2>2. QED
    BY <2>1, SilentIsCalm, CalmKeepsCap
<1>6. CASE HardEnableApply(d)
  <2>1. UNCHANGED <<resends, spent>>
    BY <1>6 DEF HardEnableApply
  <2>2. CASE mode[d] = "hard_disabled"
    <3>1. memory'[d].attempts = 0
      BY <1>6, <2>2, StartsAtZero DEF HardEnableApply
    <3>2. spent[d].events \in Nat
      BY DEF DeviceShape
    <3>3. Calm(d)
      BY <2>1, <3>1, <3>2 DEF Calm, InCap
    <3>4. QED
      BY <3>3, CalmKeepsCap
  <2>3. CASE mode[d] # "hard_disabled"
    <3>1. UNCHANGED machine
      BY <1>6, <2>3 DEF HardEnableApply
    <3>2. QED
      BY <2>1, <3>1, SilentIsCalm, CalmKeepsCap
  <2>4. QED
    BY <2>2, <2>3
<1>7. ASSUME NEW n \in resends[d], NextResend(d, n)
      PROVE  InCap(d)'
  <2>1. CASE mode[d] = "sending"
    BY <1>7, <2>1, ResendKeepsCap
  <2>2. CASE mode[d] # "sending"
    <3>1. /\ UNCHANGED <<mode, memory, spent>>
          /\ resends'[d] \subseteq resends[d]
      BY <1>7, <2>2 DEF NextResend, DeviceShape
    <3>2. QED
      BY <3>1, SilentIsCalm, CalmKeepsCap
  <2>3. QED
    BY <2>1, <2>2
<1>8. ASSUME NEW n \in resends[d], RestartAfterCap(d, n)
      PROVE  InCap(d)'
  <2>1. resends'[d] \subseteq resends[d] /\ UNCHANGED spent
    BY <1>8 DEF RestartAfterCap, DeviceShape
  <2>2. memory'[d].attempts = 0
    <3>1. CASE mode[d] \in PreStartup
      BY <1>8, <3>1, StartsAtZero DEF RestartAfterCap
    <3>2. CASE mode[d] \notin PreStartup
      BY <1>8, <3>2 DEF RestartAfterCap, DeviceShape, Memory
    <3>3. QED
      BY <3>1, <3>2
  <2>3. spent[d].events \in Nat
    BY DEF DeviceShape
  <2>4. Calm(d)
    BY <2>1, <2>2, <2>3 DEF Calm, InCap
  <2>5. QED
    BY <2>4, CalmKeepsCap
<1>9. QED
  BY <1>1, <1>2, <1>3, <1>4, <1>5, <1>6, <1>7, <1>8 DEF Step

LEMMA HearKeepsCap ==
  ASSUME DeviceShape, DeviceShape', NEW d \in Dev, InCap(d),
         HearSc(d) \/ HearAssignment(d)
  PROVE  InCap(d)'
<1> USE DEF machine, images, delayed, ghosts
<1>1. CASE EnterWait(d) \/ ChangeState(d)
  <2>1. /\ mode'[d] # "listen_only"
        /\ UNCHANGED <<memory, spent, resends>>
    BY <1>1 DEF EnterWait, ChangeState, Goto, DeviceShape
  <2>2. QED
    BY <2>1, SilentIsCalm, CalmKeepsCap
<1>2. CASE HearCoordinator(d) \/ DiagQuery(d)
  <2>1. UNCHANGED <<machine, spent, resends>>
    BY <1>2 DEF HearCoordinator, DiagQuery
  <2>2. QED
    BY <2>1, SilentIsCalm, CalmKeepsCap
<1>3. ASSUME NEW to \in Dev, NEW all \in BOOLEAN, NEW a \in Assignable,
             RecordAssignment(d, to, all, a)
      PROVE  InCap(d)'
  <2>1. /\ memory'[d].attempts = memory[d].attempts
        /\ mode' = mode /\ UNCHANGED <<resends, spent>>
    BY <1>3 DEF RecordAssignment, DeviceShape, Memory
  <2>2. spent[d].events \in Nat
    BY DEF DeviceShape
  <2>3. Calm(d)
    BY <2>1, <2>2 DEF Calm, InCap
  <2>4. QED
    BY <2>3, CalmKeepsCap
<1>4. ASSUME NEW to \in Dev, NEW all \in BOOLEAN, NEW a \in Assignable,
             PowerLossInAssignment(d, to, all, a)
      PROVE  InCap(d)'
  BY <1>4, DarkKeepsCap DEF PowerLossInAssignment
<1>5. QED
  BY <1>1, <1>2, <1>3, <1>4 DEF HearSc, HearAssignment

LEMMA DriveKeepsCap ==
  ASSUME DeviceShape, DeviceShape', NEW d \in Dev, InCap(d), Drive(d)
  PROVE  InCap(d)'
<1> USE DEF machine, images, delayed, ghosts
<1>1. CASE BitErrorDetected(d)
  BY <1>1, BitErrorKeepsCap
<1>2. CASE DeliveryReported(d)
  <2>1. memory'[d].attempts = 0 /\ UNCHANGED resends /\ Driven(d, 0)
    BY <1>2 DEF DeliveryReported, Delivered, DeviceShape, Memory
  <2>2. QED
    BY <2>1, DrivenIsCalm, CalmKeepsCap DEF Calm
<1>3. CASE Reset(d)
  <2>1. memory'[d].attempts = 0 /\ UNCHANGED resends /\ Driven(d, 0)
    BY <1>3, StartsAtZero DEF Reset
  <2>2. QED
    BY <2>1, DrivenIsCalm, CalmKeepsCap DEF Calm
<1>4. CASE HardDisable(d) \/ HardEnable(d)
  <2>1. /\ mode'[d] = "hard_disabled" /\ Driven(d, 0)
        /\ UNCHANGED <<memory, resends>>
    BY <1>4 DEF HardDisable, HardEnable, TakeHardDisable, EnterHardDisabled,
                Goto, DeviceShape
  <2>2. QED
    BY <2>1, DrivenIsCalm, CalmKeepsCap DEF Calm
<1>5. CASE ChangeParameter(d) \/ RefuseParameter(d)
  <2>1. UNCHANGED <<machine, resends>> /\ (Driven(d, 0) \/ Driven(d, 1))
    BY <1>5 DEF ChangeParameter, RefuseParameter
  <2>2. QED
    BY <2>1, DrivenIsCalm, CalmKeepsCap DEF Calm, InCap
<1>6. CASE ParametersAcked(d)
  <2>1. UNCHANGED <<machine, resends, spent>>
    BY <1>6 DEF ParametersAcked
  <2>2. QED
    BY <2>1, SilentIsCalm, CalmKeepsCap
<1>7. QED
  BY <1>1, <1>2, <1>3, <1>4, <1>5, <1>6 DEF Drive

LEMMA PowerKeepsCap ==
  ASSUME DeviceShape, DeviceShape', NEW d \in Dev, InCap(d),
         DeviceBoot(d) \/ PowerLoss(d) \/ PowerLossInWrite(d) \/ Pump(d)
  PROVE  InCap(d)'
<1> USE DEF machine, images, delayed, ghosts
<1>1. CASE DeviceBoot(d)
  <2>1. memory'[d].attempts = 0 /\ UNCHANGED <<resends, spent>>
    BY <1>1, StartsAtZero DEF DeviceBoot
  <2>2. spent[d].events \in Nat
    BY DEF DeviceShape
  <2>3. Calm(d)
    BY <2>1, <2>2 DEF Calm, InCap
  <2>4. QED
    BY <2>3, CalmKeepsCap
<1>2. CASE PowerLoss(d) \/ PowerLossInWrite(d)
  BY <1>2, DarkKeepsCap DEF PowerLoss, PowerLossInWrite
<1>3. CASE Pump(d)
  <2>1. UNCHANGED <<machine, resends, spent>>
    BY <1>3 DEF Pump
  <2>2. QED
    BY <2>1, SilentIsCalm, CalmKeepsCap
<1>4. QED
  BY <1>1, <1>2, <1>3

LEMMA NextKeepsCap ==
  DeviceShape /\ DeviceShape' /\ CapInv /\ [DeviceNext]_deviceVars => CapInv'
<1> SUFFICES ASSUME DeviceShape, DeviceShape', CapInv, [DeviceNext]_deviceVars,
                    NEW e \in Dev
             PROVE  InCap(e)'
  BY DEF CapInv
<1>1. InCap(e)
  BY DEF CapInv
<1>2. CASE UNCHANGED deviceVars
  <2>1. Same(e)
    BY <1>2 DEF deviceVars, machine, images, delayed, ghosts, Same
  <2>2. QED
    BY <1>1, <2>1, SameKeepsCap
<1>3. ASSUME NEW d \in Dev, DeviceAction(d)
      PROVE  InCap(e)'
  <2>1. CASE e = d
    BY <1>1, <1>3, <2>1, StepKeepsCap, HearKeepsCap, DriveKeepsCap, PowerKeepsCap
       DEF DeviceAction
  <2>2. CASE e # d
    BY <1>1, <1>3, <2>2, OthersAreSame, SameKeepsCap
  <2>3. QED
    BY <2>1, <2>2
<1>4. QED
  BY <1>2, <1>3 DEF DeviceNext, DeviceAction

LEMMA InitInCap == DeviceInit => CapInv
<1> SUFFICES ASSUME DeviceInit, NEW d \in Dev
             PROVE  InCap(d)
  BY DEF CapInv
<1>1. /\ resends[d] = {} /\ spent[d].events = 0 /\ memory[d].attempts = 0
  BY DEF DeviceInit, Restored
<1>2. Due(d) = {}
  BY <1>1 DEF Due
<1>3. IsFiniteSet({}) /\ Cardinality({}) = 0
  BY FS_EmptySet
<1>4. MaxAttempt \in Nat \ {0} /\ MaxDriven \in Nat
  BY ConstantShape
<1>5. QED
  BY <1>1, <1>2, <1>3, <1>4 DEF InCap

\* In range: the cap on attempts adds to the shape what DeviceTypeOK says of them.
LEMMA CapIsType == DeviceShape /\ CapInv => DeviceTypeOK
<1> SUFFICES ASSUME DeviceShape, CapInv
             PROVE  DeviceTypeOK
  OBVIOUS
<1>1. memory \in [Dev -> [et : Nat, subnet : Nat, assigned : BOOLEAN,
                          attempts : 0..(MaxAttempt + MaxDriven)]]
  <2>1. ASSUME NEW d \in Dev
        PROVE  memory[d] \in [et : Nat, subnet : Nat, assigned : BOOLEAN,
                              attempts : 0..(MaxAttempt + MaxDriven)]
    <3>1. InCap(d)
      BY DEF CapInv
    <3>2. /\ Cardinality(Due(d)) \in Nat /\ memory[d].attempts \in Nat
          /\ spent[d].events \in Nat /\ MaxAttempt \in Nat /\ MaxDriven \in Nat
      BY <3>1, DueShape, ConstantShape
    <3>3. /\ spent[d].events <= MaxDriven
          /\ memory[d].attempts >= MaxAttempt =>
               memory[d].attempts + Cardinality(Due(d)) <= MaxAttempt + spent[d].events
      BY <3>1 DEF InCap
    <3>4. memory[d].attempts \in 0..(MaxAttempt + MaxDriven)
      BY <3>2, <3>3
    <3>5. memory[d] \in Memory
      BY DEF DeviceShape
    <3>6. QED
      BY <3>4, <3>5 DEF Memory
  <2>2. memory \in [Dev -> Memory]
    BY DEF DeviceShape
  <2>3. QED
    BY <2>1, <2>2
<1>2. \A d \in Dev : file[d] \in Image \/ file[d] = Torn
  BY DEF DeviceShape
<1>3. QED
  BY <1>1, <1>2 DEF DeviceShape, DeviceTypeOK

\* Type correctness of the device: every variable keeps its type, and a run of
\* sends (handle_bit_error_resend, restart_after_cap) never passes its cap by more
\* than the disturbances that met it, however resends overlap.
THEOREM DeviceTypeCorrect == DeviceSpec => []DeviceTypeOK
<1>1. DeviceInit => DeviceShape /\ CapInv
  BY InitShape, InitInCap
<1>2. DeviceShape /\ CapInv /\ [DeviceNext]_deviceVars => DeviceShape' /\ CapInv'
  BY NextShape, NextKeepsCap
<1>3. QED
  BY <1>1, <1>2, CapIsType, PTL DEF DeviceSpec

-----------------------------------------------------------------------------
(* What is stored is what is said *)

\* An acknowledge of the assignment is on the bus or waits for it.
Answered(d) ==
  \/ acked[d] # 0
  \/ \E i \in DOMAIN outbox[d] : outbox[d][i].type = "DEVICE_ASSIGNMENT_ACK"

Stored(d) ==
  /\ Up(d) => /\ file[d] # Torn
              /\ memory[d].et = host[d].et
              /\ memory[d].assigned <=> memory[d].et # 0
              /\ OneWriter(d) => file[d] = host[d]
  /\ ~Up(d) => soon[d] = <<>>
  /\ OneWriter(d) /\ Answered(d) =>
       file[d].et = told[d].et /\ file[d].subnet = told[d].subnet

StoredInv == \A d \in Dev : Stored(d)

LEMMA WholeIsNotTorn ==
  ASSUME NEW image \in Image
  PROVE  image # Torn
BY DEF Image, Torn

LEMMA AnotherFrame ==
  ASSUME DeviceShape, NEW d \in Dev, NEW f \in DeviceFrame, Put(d, <<f>>),
         acked' = acked, f.type # "DEVICE_ASSIGNMENT_ACK"
  PROVE  Answered(d)' => Answered(d)
<1>1. outbox[d] \in Seq(DeviceFrame)
  BY DEF DeviceShape
<1>2. outbox'[d] = outbox[d] \o <<f>>
  BY DEF Put, DeviceShape
<1>3. ASSUME NEW i \in DOMAIN outbox'[d],
             outbox'[d][i].type = "DEVICE_ASSIGNMENT_ACK"
      PROVE  i \in DOMAIN outbox[d] /\ outbox'[d][i] = outbox[d][i]
  BY <1>1, <1>2, <1>3
<1>4. QED
  BY <1>3 DEF Answered

LEMMA FewerFrames ==
  ASSUME DeviceShape, NEW d \in Dev, Pump(d)
  PROVE  Answered(d)' => Answered(d)
<1>1. outbox[d] \in Seq(DeviceFrame) /\ outbox[d] # <<>>
  BY DEF DeviceShape, Pump
<1>2. outbox'[d] = Tail(outbox[d])
  BY DEF Pump, DeviceShape
<1>3. acked'[d] # 0 =>
        acked[d] # 0 \/ outbox[d][1].type = "DEVICE_ASSIGNMENT_ACK"
  BY <1>1 DEF Pump, DeviceShape
<1>4. 1 \in DOMAIN outbox[d]
  BY <1>1
<1>5. ASSUME NEW i \in DOMAIN outbox'[d],
             outbox'[d][i].type = "DEVICE_ASSIGNMENT_ACK"
      PROVE  i + 1 \in DOMAIN outbox[d] /\ outbox'[d][i] = outbox[d][i + 1]
  BY <1>1, <1>2
<1>6. QED
  BY <1>3, <1>4, <1>5 DEF Answered

\* Nothing of it changes, unless to fall silent.
Untouched(d) ==
  /\ memory'[d].et = memory[d].et /\ memory'[d].assigned = memory[d].assigned
  /\ host'[d] = host[d] /\ file'[d] = file[d] /\ told'[d] = told[d]
  /\ spent'[d].changes = spent[d].changes
  /\ Up(d)' <=> Up(d)
  /\ ~Up(d)' => soon'[d] = <<>>
  /\ Answered(d)' => Answered(d)

\* The machine writes its own copy back, with the assignment it had.
Rewritten(d) ==
  /\ Up(d) /\ Up(d)'
  /\ file'[d] = host'[d] /\ host'[d].et = host[d].et
  /\ host'[d].subnet = host[d].subnet
  /\ memory'[d].et = host[d].et
  /\ memory'[d].assigned <=> host[d].et # 0
  /\ told'[d] = told[d] /\ spent'[d].changes = spent[d].changes
  /\ Answered(d)' => Answered(d)

LEMMA UntouchedStaysStored ==
  ASSUME NEW d \in Dev, Stored(d), Untouched(d)
  PROVE  Stored(d)'
BY DEF Stored, Untouched, OneWriter

LEMMA RewrittenStaysStored ==
  ASSUME DeviceShape', NEW d \in Dev, Stored(d), Rewritten(d)
  PROVE  Stored(d)'
<1>1. file'[d] # Torn
  <2>1. host'[d] \in Image
    BY DEF DeviceShape
  <2>2. QED
    BY <2>1, WholeIsNotTorn DEF Rewritten
<1>2. OneWriter(d)' => OneWriter(d)
  BY DEF OneWriter, Rewritten, Stored
<1>3. OneWriter(d) => file[d] = host[d]
  BY DEF Rewritten, Stored
<1>4. QED
  BY <1>1, <1>2, <1>3 DEF Stored, Rewritten

LEMMA ResetRewrites ==
  ASSUME DeviceShape, NEW d \in Dev, NEW events, Up(d),
         EnterPreStartup(d, host[d], events),
         UNCHANGED <<told, acked, outbox>>, spent'[d].changes = spent[d].changes
  PROVE  Rewritten(d)
<1>1. /\ memory'[d] = Restored(host[d]) /\ mode'[d] = "listen_only"
      /\ host'[d] = host[d] /\ file'[d] = host[d]
  BY DEF EnterPreStartup, Goto, Write, DeviceShape
<1>2. Answered(d)' => Answered(d)
  BY DEF Answered
<1>3. memory'[d].et = host[d].et /\ memory'[d].assigned = (host[d].et # 0)
  BY <1>1 DEF Restored
<1>4. QED
  BY <1>1, <1>2, <1>3 DEF Rewritten, Up

LEMMA HardDisabledRewrites ==
  ASSUME DeviceShape, NEW d \in Dev, Up(d), Stored(d), EnterHardDisabled(d),
         UNCHANGED <<memory, told>>, spent'[d].changes = spent[d].changes,
         Answered(d)' => Answered(d)
  PROVE  Rewritten(d)
<1>1. host[d] \in Image
  BY DEF DeviceShape
<1>2. /\ host'[d] = [host[d] EXCEPT !.hard_disabled = TRUE]
      /\ file'[d] = host'[d] /\ mode'[d] = "hard_disabled"
  BY DEF EnterHardDisabled, Write, Goto, DeviceShape
<1>3. host'[d].et = host[d].et /\ host'[d].subnet = host[d].subnet
  BY <1>1, <1>2 DEF Image
<1>4. QED
  BY <1>2, <1>3 DEF Rewritten, Stored, Up

LEMMA TakeHardDisableRewrites ==
  ASSUME DeviceShape, NEW d \in Dev, Up(d), Stored(d), TakeHardDisable(d),
         spent'[d].changes = spent[d].changes
  PROVE  Rewritten(d)
<1>1. Answered(d)' => Answered(d)
  <2>1. UNCHANGED <<acked>> /\ memory[d].et \in Nat
    BY DEF TakeHardDisable, DeviceShape, Memory
  <2>2. CASE mode[d] = "hard_disabled"
    <3> DEFINE f == Out("DEVICE_UI_G_ENABLE_ACK", memory[d].et)
    <3>1. f \in DeviceFrame /\ f.type # "DEVICE_ASSIGNMENT_ACK"
      BY <2>1, FrameShape DEF Out
    <3>2. Put(d, <<f>>)
      BY <2>2 DEF TakeHardDisable
    <3>3. QED
      BY <2>1, <3>1, <3>2, AnotherFrame
  <2>3. CASE mode[d] # "hard_disabled"
    BY <2>1, <2>3 DEF TakeHardDisable, Answered
  <2>4. QED
    BY <2>2, <2>3
<1>2. QED
  BY <1>1, HardDisabledRewrites DEF TakeHardDisable

\* Without power nothing waits on the bus, and what is acknowledged stays so.
LEMMA DarkStaysStored ==
  ASSUME DeviceShape, NEW d \in Dev, Stored(d), Dark(d), told' = told,
         acked' = acked, file'[d] = file[d] \/ file'[d] = Torn
  PROVE  Stored(d)'
<1>1. /\ mode'[d] = "off" /\ soon'[d] = <<>> /\ outbox'[d] = <<>> /\ spent' = spent
  BY DEF Dark, Goto, DeviceShape
<1>2. Answered(d)' => Answered(d)
  BY <1>1 DEF Answered
<1>3. QED
  BY <1>1, <1>2 DEF Stored, Up, OneWriter

LEMMA BootStaysStored ==
  ASSUME DeviceShape, NEW d \in Dev, Stored(d), DeviceBoot(d)
  PROVE  Stored(d)'
<1>1. /\ memory'[d] = Restored(file[d]) /\ host'[d] = file[d] /\ file'[d] = file[d]
      /\ mode'[d] = "listen_only" /\ UNCHANGED <<outbox, told, acked, spent>>
      /\ file[d] # Torn
  BY DEF DeviceBoot, EnterPreStartup, Goto, Write, ghosts, DeviceShape
<1>2. Answered(d)' <=> Answered(d)
  BY <1>1 DEF Answered
<1>3. memory'[d].et = file[d].et /\ memory'[d].assigned = (file[d].et # 0)
  BY <1>1 DEF Restored
<1>4. OneWriter(d)' => OneWriter(d)
  BY <1>1 DEF OneWriter
<1>5. QED
  BY <1>1, <1>2, <1>3, <1>4 DEF Stored, Up

LEMMA RecordStaysStored ==
  ASSUME DeviceShape, NEW d \in Dev, NEW to, NEW all, NEW a \in Assignable,
         RecordAssignment(d, to, all, a)
  PROVE  Stored(d)'
<1>1. host[d] \in Image /\ memory[d] \in Memory
  BY DEF DeviceShape
<1>2. /\ host'[d] = Assigned(host[d], a) /\ file'[d] = Assigned(host[d], a)
      /\ told'[d] = [et |-> a.et, subnet |-> Subnet(a)]
      /\ a.et # 0 /\ mode'[d] = "wait_for_assignment"
  BY DEF RecordAssignment, Write, Heed, DeviceShape
<1>3. memory'[d].et = a.et /\ memory'[d].assigned = TRUE
  BY <1>1 DEF RecordAssignment, DeviceShape, Memory
<1>4. /\ Assigned(host[d], a).et = a.et /\ Assigned(host[d], a).subnet = Subnet(a)
      /\ Assigned(host[d], a) # Torn
  <2>1. Assigned(host[d], a) \in Image
    BY <1>1, AssignedShape
  <2>2. QED
    BY <1>1, <2>1, WholeIsNotTorn DEF Assigned, Image
<1>5. QED
  BY <1>2, <1>3, <1>4 DEF Stored, Up

LEMMA HalfRecordedStaysStored ==
  ASSUME DeviceShape, NEW d \in Dev, NEW to, NEW all, NEW a \in Assignable,
         PowerLossInAssignment(d, to, all, a)
  PROVE  Stored(d)'
<1>1. acked'[d] = 0 /\ outbox'[d] = <<>> /\ mode'[d] = "off" /\ soon'[d] = <<>>
  BY DEF PowerLossInAssignment, Heed, Dark, Goto, DeviceShape
<1>2. ~Answered(d)'
  BY <1>1 DEF Answered
<1>3. QED
  BY <1>1, <1>2 DEF Stored, Up

\* A parameter change writes the dialog's copy: from here on nothing is said of
\* the file but that it is whole.
LEMMA ChangeStaysStored ==
  ASSUME DeviceShape, DeviceShape', NEW d \in Dev, Stored(d), ChangeParameter(d)
  PROVE  Stored(d)'
<1>1. /\ UNCHANGED <<mode, memory, host, soon>> /\ Up(d)
  BY DEF ChangeParameter, machine
<1>2. spent[d].changes \in Nat /\ spent'[d].changes = spent[d].changes + 1
  BY DEF ChangeParameter, Driven, DeviceShape
<1>3. ~OneWriter(d)'
  BY <1>2 DEF OneWriter
<1>4. file'[d] # Torn
  <2>1. dialog[d].data \in Image
    BY DEF DeviceShape
  <2>2. [dialog[d].data EXCEPT !.param = @ + 1] \in Image
    BY <2>1 DEF Image
  <2>3. file'[d] = [dialog[d].data EXCEPT !.param = @ + 1]
    BY DEF ChangeParameter, DeviceShape
  <2>4. QED
    BY <2>2, <2>3, WholeIsNotTorn
<1>5. QED
  BY <1>1, <1>3, <1>4 DEF Stored, Up

\* The machine moves, and may say something else than an acknowledge.
Quiet(d) ==
  /\ memory'[d].et = memory[d].et /\ memory'[d].assigned = memory[d].assigned
  /\ UNCHANGED <<host, file, told, acked>>
  /\ spent'[d].changes = spent[d].changes
  /\ Up(d)' <=> Up(d)
  /\ ~Up(d)' => soon'[d] = <<>>

LEMMA QuietStaysStored ==
  ASSUME DeviceShape, NEW d \in Dev, Stored(d), Quiet(d),
         \/ outbox' = outbox
         \/ \E f \in DeviceFrame :
              f.type # "DEVICE_ASSIGNMENT_ACK" /\ Put(d, <<f>>)
  PROVE  Stored(d)'
<1>1. Answered(d)' => Answered(d)
  <2>1. CASE outbox' = outbox
    BY <2>1 DEF Answered, Quiet
  <2>2. CASE outbox' # outbox
    BY <2>2, AnotherFrame DEF Quiet
  <2>3. QED
    BY <2>1, <2>2
<1>2. QED
  BY <1>1, UntouchedStaysStored DEF Quiet, Untouched

LEMMA StartupIsNoAnswer ==
  ASSUME DeviceShape, NEW d \in Dev
  PROVE  Startup(d) \in DeviceFrame /\ Startup(d).type # "DEVICE_ASSIGNMENT_ACK"
BY StartupShape DEF Startup, Out

LEMMA NoAnswer ==
  ASSUME NEW e \in Nat,
         NEW t \in {"DEVICE_STARTUP", "DEVICE_DD", "DEVICE_STATUS", "DIAG_RESPONSE",
                    "DEVICE_UI_G_ENABLE_ACK"}
  PROVE  Out(t, e) \in DeviceFrame /\ Out(t, e).type # "DEVICE_ASSIGNMENT_ACK"
BY FrameShape DEF Out

\* Only attempts change.
LEMMA AttemptsApart ==
  ASSUME DeviceShape, NEW d \in Dev, NEW k,
         memory' = [memory EXCEPT ![d].attempts = k]
  PROVE  memory'[d].et = memory[d].et /\ memory'[d].assigned = memory[d].assigned
BY DEF DeviceShape, Memory

LEMMA WaitStaysStored ==
  ASSUME DeviceShape, NEW d \in Dev, Stored(d), EnterWait(d)
  PROVE  Stored(d)'
<1>1. mode[d] = "sent" /\ mode'[d] = "wait_for_assignment"
  BY DEF EnterWait, Goto, DeviceShape
<1>2. Quiet(d)
  BY <1>1 DEF EnterWait, Quiet, Up, images, ghosts
<1>3. QED
  BY <1>2, StartupIsNoAnswer, QuietStaysStored DEF EnterWait

LEMMA NoChange ==
  ASSUME DeviceShape, NEW d \in Dev, Driven(d, 0)
  PROVE  spent'[d].changes = spent[d].changes
<1>1. spent[d].changes \in Nat
  BY DEF DeviceShape
<1>2. spent'[d].changes = spent[d].changes + 0
  BY DEF Driven, DeviceShape
<1>3. QED
  BY <1>1, <1>2

LEMMA StepKeepsStored ==
  ASSUME DeviceShape, DeviceShape', NEW d \in Dev, Stored(d), Step(d)
  PROVE  Stored(d)'
<1> USE DEF machine, images, delayed, ghosts
<1>1. CASE ListenOnlyWindow(d)
  <2>1. memory'[d].et = memory[d].et /\ memory'[d].assigned = memory[d].assigned
    BY <1>1, AttemptsApart DEF ListenOnlyWindow, OneMoreAttempt
  <2>2. mode[d] = "listen_only" /\ mode'[d] = "sending"
    BY <1>1 DEF ListenOnlyWindow, Goto, DeviceShape
  <2>3. Quiet(d)
    BY <1>1, <2>1, <2>2 DEF ListenOnlyWindow, Quiet, Up
  <2>4. QED
    BY <1>1, <2>3, StartupIsNoAnswer, QuietStaysStored DEF ListenOnlyWindow
<1>2. CASE SendDelivered(d)
  <2>1. memory'[d].et = memory[d].et /\ memory'[d].assigned = memory[d].assigned
    BY <1>2, AttemptsApart DEF SendDelivered, Delivered
  <2>2. mode[d] = "sending" /\ mode'[d] = "sent"
    BY <1>2 DEF SendDelivered, Delivered, Goto, DeviceShape
  <2>3. Quiet(d)
    BY <1>2, <2>1, <2>2 DEF SendDelivered, Quiet, Up
  <2>4. QED
    BY <1>2, <2>3, QuietStaysStored DEF SendDelivered
<1>3. CASE ResponseWindow(d)
  BY <1>3, WaitStaysStored DEF ResponseWindow
<1>4. CASE RepeatStartup(d)
  <2>1. Quiet(d)
    BY <1>4 DEF RepeatStartup, Quiet, Up
  <2>2. QED
    BY <1>4, <2>1, StartupIsNoAnswer, QuietStaysStored DEF RepeatStartup
<1>5. CASE DelayedReply(d)
  <2>1. Quiet(d)
    BY <1>5 DEF DelayedReply, Quiet, Up, Stored
  <2>2. PICK t \in {"DEVICE_DD", "DEVICE_STARTUP"} : Put(d, <<Out(t, 0)>>)
    BY <1>5 DEF DelayedReply
  <2>3. QED
    BY <2>1, <2>2, NoAnswer, QuietStaysStored
<1>6. CASE PublishStatus(d)
  <2>1. Quiet(d)
    BY <1>6 DEF PublishStatus, Quiet, Up
  <2>2. QED
    BY <1>6, <2>1, NoAnswer, QuietStaysStored DEF PublishStatus
<1>7. CASE HopToHardDisabled(d)
  <2>1. Up(d)
    BY <1>7 DEF HopToHardDisabled, Next1, Stored
  <2>2. TakeHardDisable(d) /\ spent' = spent
    BY <1>7 DEF HopToHardDisabled
  <2>3. QED
    BY <2>1, <2>2, TakeHardDisableRewrites, RewrittenStaysStored
<1>8. CASE HardEnableApply(d)
  <2>1. CASE mode[d] = "hard_disabled"
    <3>1. Up(d)
      BY <2>1 DEF Up
    <3>2. /\ EnterPreStartup(d, host[d], Tail(soon[d]))
          /\ UNCHANGED <<told, acked, outbox, spent>>
      BY <1>8, <2>1 DEF HardEnableApply
    <3>3. QED
      BY <3>1, <3>2, ResetRewrites, RewrittenStaysStored
  <2>2. CASE mode[d] # "hard_disabled"
    <3>1. Up(d)
      BY <1>8 DEF HardEnableApply, Next1, Stored
    <3>2. Quiet(d)
      BY <1>8, <2>2, <3>1 DEF HardEnableApply, Quiet, Up
    <3>3. QED
      BY <1>8, <3>2, QuietStaysStored DEF HardEnableApply
  <2>3. QED
    BY <2>1, <2>2
<1>9. ASSUME NEW n \in resends[d], NextResend(d, n)
      PROVE  Stored(d)'
  <2>1. CASE mode[d] = "sending"
    <3>1. memory'[d].et = memory[d].et /\ memory'[d].assigned = memory[d].assigned
      BY <1>9, <2>1, AttemptsApart DEF NextResend, OneMoreAttempt
    <3>2. Quiet(d)
      BY <1>9, <2>1, <3>1 DEF NextResend, Quiet, Up
    <3>3. QED
      BY <1>9, <2>1, <3>2, StartupIsNoAnswer, QuietStaysStored DEF NextResend
  <2>2. CASE mode[d] # "sending"
    <3>1. Quiet(d) /\ outbox' = outbox
      BY <1>9, <2>2 DEF NextResend, Quiet, Up, Stored
    <3>2. QED
      BY <3>1, QuietStaysStored
  <2>3. QED
    BY <2>1, <2>2
<1>10. ASSUME NEW n \in resends[d], RestartAfterCap(d, n)
       PROVE  Stored(d)'
  <2>1. CASE mode[d] \in PreStartup
    <3>1. Up(d)
      BY <2>1 DEF Up, PreStartup
    <3>2. /\ EnterPreStartup(d, host[d], soon[d])
          /\ UNCHANGED <<told, acked, outbox, spent>>
      BY <1>10, <2>1 DEF RestartAfterCap
    <3>3. QED
      BY <3>1, <3>2, ResetRewrites, RewrittenStaysStored
  <2>2. CASE mode[d] \notin PreStartup
    <3>1. memory'[d].et = memory[d].et /\ memory'[d].assigned = memory[d].assigned
      BY <1>10, <2>2, AttemptsApart DEF RestartAfterCap
    <3>2. Quiet(d) /\ outbox' = outbox
      BY <1>10, <2>2, <3>1 DEF RestartAfterCap, Quiet, Up, Stored
    <3>3. QED
      BY <3>2, QuietStaysStored
  <2>3. QED
    BY <2>1, <2>2
<1>11. QED
  BY <1>1, <1>2, <1>3, <1>4, <1>5, <1>6, <1>7, <1>8, <1>9, <1>10 DEF Step

LEMMA HearKeepsStored ==
  ASSUME DeviceShape, NEW d \in Dev, Stored(d), HearSc(d) \/ HearAssignment(d)
  PROVE  Stored(d)'
<1> USE DEF machine, images, delayed, ghosts
<1>1. CASE EnterWait(d)
  BY <1>1, WaitStaysStored
<1>2. CASE HearCoordinator(d)
  <2>1. Quiet(d) /\ outbox' = outbox
    BY <1>2 DEF HearCoordinator, Quiet, Up, Stored
  <2>2. QED
    BY <2>1, QuietStaysStored
<1>3. CASE ChangeState(d)
  <2>1. mode[d] = "wait_for_assignment" /\ mode'[d] = "assigned"
    BY <1>3 DEF ChangeState, Goto, DeviceShape
  <2>2. Quiet(d) /\ outbox' = outbox
    BY <1>3, <2>1 DEF ChangeState, Quiet, Up
  <2>3. QED
    BY <2>2, QuietStaysStored
<1>4. CASE DiagQuery(d)
  <2>1. Quiet(d) /\ memory[d].et \in Nat
    BY <1>4 DEF DiagQuery, Quiet, Up, DeviceShape, Memory
  <2>2. QED
    BY <1>4, <2>1, NoAnswer, QuietStaysStored DEF DiagQuery
<1>5. QED
  BY <1>1, <1>2, <1>3, <1>4, RecordStaysStored, HalfRecordedStaysStored
     DEF HearSc, HearAssignment

LEMMA DriveKeepsStored ==
  ASSUME DeviceShape, DeviceShape', NEW d \in Dev, Stored(d), Drive(d)
  PROVE  Stored(d)'
<1> USE DEF machine, images, delayed, ghosts
<1>1. CASE BitErrorDetected(d)
  <2>1. memory'[d].et = memory[d].et /\ memory'[d].assigned = memory[d].assigned
    BY <1>1, AttemptsApart DEF BitErrorDetected, SendAgain
  <2>2. /\ spent'[d].changes = spent[d].changes
        /\ Put(d, <<Startup(d)>>)
        /\ UNCHANGED <<mode, host, file, told, acked, soon>>
        /\ mode[d] = "sending"
    BY <1>1, NoChange DEF BitErrorDetected, SendAgain
  <2>3. QED
    BY <2>1, <2>2, StartupIsNoAnswer, QuietStaysStored DEF Quiet, Up
<1>2. CASE DeliveryReported(d)
  <2>1. memory'[d].et = memory[d].et /\ memory'[d].assigned = memory[d].assigned
    BY <1>2, AttemptsApart DEF DeliveryReported, Delivered
  <2>2. /\ mode[d] = "sending" /\ mode'[d] = "sent"
    BY <1>2 DEF DeliveryReported, Delivered, Goto, DeviceShape
  <2>3. Quiet(d) /\ outbox' = outbox
    BY <1>2, <2>1, <2>2, NoChange DEF DeliveryReported, Quiet, Up
  <2>4. QED
    BY <2>3, QuietStaysStored
<1>3. CASE Reset(d)
  BY <1>3, NoChange, ResetRewrites, RewrittenStaysStored DEF Reset
<1>4. CASE HardDisable(d)
  BY <1>4, NoChange, TakeHardDisableRewrites, RewrittenStaysStored DEF HardDisable
<1>5. CASE HardEnable(d)
  <2> DEFINE f == Out("DEVICE_UI_G_ENABLE_ACK", memory[d].et)
  <2>1. f \in DeviceFrame /\ f.type # "DEVICE_ASSIGNMENT_ACK"
    BY NoAnswer DEF DeviceShape, Memory
  <2>2. Put(d, <<f>>) /\ EnterHardDisabled(d) /\ UNCHANGED <<memory, told, acked>>
    BY <1>5 DEF HardEnable
  <2>3. Answered(d)' => Answered(d)
    BY <2>1, <2>2, AnotherFrame
  <2>4. spent'[d].changes = spent[d].changes /\ Up(d)
    BY <1>5, NoChange DEF HardEnable, Up
  <2>5. QED
    BY <2>2, <2>3, <2>4, HardDisabledRewrites, RewrittenStaysStored
<1>6. CASE ChangeParameter(d)
  BY <1>6, ChangeStaysStored
<1>7. CASE RefuseParameter(d)
  <2>1. Quiet(d)
    BY <1>7, NoChange DEF RefuseParameter, Quiet, Up
  <2>2. QED
    BY <1>7, <2>1, NoAnswer, QuietStaysStored DEF RefuseParameter
<1>8. CASE ParametersAcked(d)
  <2>1. Quiet(d) /\ outbox' = outbox
    BY <1>8 DEF ParametersAcked, Quiet, Up
  <2>2. QED
    BY <2>1, QuietStaysStored
<1>9. QED
  BY <1>1, <1>2, <1>3, <1>4, <1>5, <1>6, <1>7, <1>8 DEF Drive

LEMMA PowerKeepsStored ==
  ASSUME DeviceShape, NEW d \in Dev, Stored(d),
         DeviceBoot(d) \/ PowerLoss(d) \/ PowerLossInWrite(d) \/ Pump(d)
  PROVE  Stored(d)'
<1> USE DEF machine, images, delayed, ghosts
<1>1. CASE PowerLoss(d) \/ PowerLossInWrite(d)
  BY <1>1, DarkStaysStored DEF PowerLoss, PowerLossInWrite, DeviceShape
<1>2. CASE Pump(d)
  <2>1. Answered(d)' => Answered(d)
    BY <1>2, FewerFrames
  <2>2. Untouched(d)
    BY <1>2, <2>1 DEF Pump, Untouched, Up, Stored
  <2>3. QED
    BY <2>2, UntouchedStaysStored
<1>3. QED
  BY <1>1, <1>2, BootStaysStored

LEMMA NextKeepsStored ==
  DeviceShape /\ DeviceShape' /\ StoredInv /\ [DeviceNext]_deviceVars => StoredInv'
<1> SUFFICES ASSUME DeviceShape, DeviceShape', StoredInv, [DeviceNext]_deviceVars,
                    NEW e \in Dev
             PROVE  Stored(e)'
  BY DEF StoredInv
<1>1. Stored(e)
  BY DEF StoredInv
<1>2. ASSUME Same(e)
      PROVE  Stored(e)'
  BY <1>1, <1>2 DEF Same, Stored, Up, OneWriter, Answered
<1>3. CASE UNCHANGED deviceVars
  BY <1>2, <1>3 DEF deviceVars, machine, images, delayed, ghosts, Same
<1>4. ASSUME NEW d \in Dev, DeviceAction(d)
      PROVE  Stored(e)'
  <2>1. CASE e = d
    BY <1>1, <1>4, <2>1, StepKeepsStored, HearKeepsStored, DriveKeepsStored,
       PowerKeepsStored DEF DeviceAction
  <2>2. CASE e # d
    BY <1>2, <1>4, <2>2, OthersAreSame
  <2>3. QED
    BY <2>1, <2>2
<1>5. QED
  BY <1>3, <1>4 DEF DeviceNext, DeviceAction

LEMMA InitStored == DeviceInit => StoredInv
<1> SUFFICES ASSUME DeviceInit, NEW d \in Dev
             PROVE  Stored(d)
  BY DEF StoredInv
<1>1. /\ mode[d] = "off" /\ soon[d] = <<>> /\ acked[d] = 0 /\ outbox[d] = <<>>
  BY DEF DeviceInit
<1>2. ~Answered(d)
  BY <1>1 DEF Answered
<1>3. QED
  BY <1>1, <1>2 DEF Stored, Up

LEMMA StoredHolds == DeviceSpec => []StoredInv
<1>1. DeviceInit => DeviceShape /\ StoredInv
  BY InitShape, InitStored
<1>2. DeviceShape /\ StoredInv /\ [DeviceNext]_deviceVars => DeviceShape' /\ StoredInv'
  BY NextShape, NextKeepsStored
<1>3. QED
  BY <1>1, <1>2, PTL DEF DeviceSpec

\* An assignment whose acknowledge reached the bus is in NVM, whatever resets and
\* power failures come after it (record_assignment stores both values before it
\* queues the acknowledge), as long as no parameter change rewrites the file.
THEOREM AckedStaysDurable == DeviceSpec => []AckedIsDurable
<1>1. StoredInv => AckedIsDurable
  BY DEF StoredInv, Stored, AckedIsDurable, Answered
<1>2. QED
  BY <1>1, StoredHolds, PTL

\* A running device never speaks under an et that a power failure would take from
\* it: memory, the startup machine's copy of NVM and the file agree.
THEOREM DeviceSpeaksAsStored == DeviceSpec => []SpeaksAsStored
<1>1. StoredInv => SpeaksAsStored
  BY DEF StoredInv, Stored, SpeaksAsStored
<1>2. QED
  BY <1>1, StoredHolds, PTL

-----------------------------------------------------------------------------
(* What was disabled stays disabled *)

Hopping(d) == "ui_g_hard_disable" \in ToSet(soon[d])

\* DisabledStaysDisabled of a device that runs, and of one without power the file
\* it will start from.
Obeyed(d) ==
  OneWriter(d) /\ wanted[d] = "disabled" =>
    /\ file[d].hard_disabled
    /\ Up(d) => mode[d] = "hard_disabled" \/ Hopping(d)

ObeyedInv == \A d \in Dev : Obeyed(d)

\* The step neither enters nor leaves hard_disabled, and writes nothing.
Aside(d) ==
  /\ mode'[d] = "hard_disabled" <=> mode[d] = "hard_disabled"
  /\ Up(d)' <=> Up(d)
  /\ file'[d] = file[d] /\ soon'[d] = soon[d] /\ wanted'[d] = wanted[d]
  /\ spent'[d].changes = spent[d].changes

LEMMA AsideStaysObeyed ==
  ASSUME NEW d \in Dev, Obeyed(d), Aside(d)
  PROVE  Obeyed(d)'
BY DEF Obeyed, Aside, OneWriter, Hopping

LEMMA HopIsLast ==
  ASSUME NEW image \in Image, image.hard_disabled, NEW events \in Seq(SelfEvent)
  PROVE  "ui_g_hard_disable" \in ToSet(events \o Hop(image))
<1> DEFINE s == events \o <<"ui_g_hard_disable">>
<1>1. Len(s) \in DOMAIN s /\ s[Len(s)] = "ui_g_hard_disable"
  OBVIOUS
<1>2. Hop(image) = <<"ui_g_hard_disable">>
  BY DEF Hop
<1>3. QED
  BY <1>1, <1>2 DEF ToSet

\* Every way to pre_startup but a boot ends with the hop, if the copy says so.
LEMMA ResetStaysObeyed ==
  ASSUME DeviceShape, NEW d \in Dev, NEW events \in Seq(SelfEvent), Up(d), Stored(d),
         Obeyed(d), EnterPreStartup(d, host[d], events), wanted'[d] = wanted[d],
         spent'[d].changes = spent[d].changes
  PROVE  Obeyed(d)'
<1>1. /\ soon'[d] = events \o Hop(host[d]) /\ file'[d] = host[d] /\ host[d] \in Image
  BY DEF EnterPreStartup, Write, DeviceShape
<1>2. OneWriter(d)' => OneWriter(d) /\ file[d] = host[d]
  BY DEF OneWriter, Stored
<1>3. QED
  BY <1>1, <1>2, HopIsLast DEF Obeyed, Hopping

LEMMA HardDisabledObeys ==
  ASSUME DeviceShape, NEW d \in Dev, EnterHardDisabled(d)
  PROVE  Obeyed(d)'
<1>1. host[d] \in Image
  BY DEF DeviceShape
<1>2. /\ file'[d] = [host[d] EXCEPT !.hard_disabled = TRUE]
      /\ mode'[d] = "hard_disabled"
  BY DEF EnterHardDisabled, Write, Goto, DeviceShape
<1>3. file'[d].hard_disabled
  BY <1>1, <1>2 DEF Image
<1>4. QED
  BY <1>2, <1>3 DEF Obeyed

\* Whatever of an assignment is stored, the flag is stored with it.
LEMMA AssignedKeepsFlag ==
  ASSUME DeviceShape, NEW d \in Dev, NEW a \in Assignable
  PROVE  /\ Assigned(host[d], a).hard_disabled = host[d].hard_disabled
         /\ HalfAssigned(host[d], a).hard_disabled = host[d].hard_disabled
BY DEF DeviceShape, Image, Assigned, HalfAssigned

LEMMA HearKeepsObeyed ==
  ASSUME DeviceShape, NEW d \in Dev, Stored(d), Obeyed(d),
         HearSc(d) \/ HearAssignment(d)
  PROVE  Obeyed(d)'
<1> USE DEF machine, images, delayed, ghosts
<1>1. CASE EnterWait(d) \/ ChangeState(d)
  <2>1. Aside(d)
    BY <1>1 DEF EnterWait, ChangeState, Goto, Aside, Up, DeviceShape
  <2>2. QED
    BY <2>1, AsideStaysObeyed
<1>2. CASE HearCoordinator(d) \/ DiagQuery(d)
  <2>1. Aside(d)
    BY <1>2 DEF HearCoordinator, DiagQuery, Aside, Up
  <2>2. QED
    BY <2>1, AsideStaysObeyed
<1>3. ASSUME NEW to \in Dev, NEW all \in BOOLEAN, NEW a \in Assignable,
             RecordAssignment(d, to, all, a)
      PROVE  Obeyed(d)'
  <2>1. /\ file'[d] = Assigned(host[d], a) /\ mode[d] = "wait_for_assignment"
        /\ UNCHANGED <<mode, soon, wanted, spent>>
    BY <1>3 DEF RecordAssignment, Write, Heed, DeviceShape
  <2>2. Up(d) /\ (OneWriter(d)' => OneWriter(d) /\ file[d] = host[d])
    BY <2>1 DEF OneWriter, Stored, Up
  <2>3. QED
    BY <2>1, <2>2, AssignedKeepsFlag DEF Obeyed, Hopping, Up
<1>4. ASSUME NEW to \in Dev, NEW all \in BOOLEAN, NEW a \in Assignable,
             PowerLossInAssignment(d, to, all, a)
      PROVE  Obeyed(d)'
  <2>1. /\ file'[d] = HalfAssigned(host[d], a) /\ mode[d] = "wait_for_assignment"
        /\ mode'[d] = "off" /\ UNCHANGED <<wanted, spent>>
    BY <1>4 DEF PowerLossInAssignment, Heed, Dark, Goto, DeviceShape
  <2>2. OneWriter(d)' => OneWriter(d) /\ file[d] = host[d]
    BY <2>1 DEF OneWriter, Stored, Up
  <2>3. QED
    BY <2>1, <2>2, AssignedKeepsFlag DEF Obeyed, Up
<1>5. QED
  BY <1>1, <1>2, <1>3, <1>4 DEF HearSc, HearAssignment

LEMMA StepKeepsObeyed ==
  ASSUME DeviceShape, NEW d \in Dev, Stored(d), Obeyed(d), Step(d)
  PROVE  Obeyed(d)'
<1> USE DEF machine, images, delayed, ghosts
<1>1. CASE ListenOnlyWindow(d) \/ SendDelivered(d)
  <2>1. Aside(d)
    BY <1>1 DEF ListenOnlyWindow, SendDelivered, Delivered, Goto, Aside, Up, DeviceShape
  <2>2. QED
    BY <2>1, AsideStaysObeyed
<1>2. CASE ResponseWindow(d)
  BY <1>2, HearKeepsObeyed DEF ResponseWindow, HearSc
<1>3. CASE RepeatStartup(d) \/ DelayedReply(d) \/ PublishStatus(d)
  <2>1. Aside(d)
    BY <1>3 DEF RepeatStartup, DelayedReply, PublishStatus, Aside, Up
  <2>2. QED
    BY <2>1, AsideStaysObeyed
<1>4. CASE HopToHardDisabled(d)
  BY <1>4, HardDisabledObeys DEF HopToHardDisabled, TakeHardDisable
<1>5. CASE HardEnableApply(d)
  <2>1. soon[d] \in Seq(SelfEvent) /\ soon[d] # <<>> /\ Head(soon[d]) = "hard_enable_apply"
    BY <1>5 DEF HardEnableApply, Next1, DeviceShape
  <2>2. CASE mode[d] = "hard_disabled"
    <3>1. Tail(soon[d]) \in Seq(SelfEvent)
      BY <2>1
    <3>2. /\ EnterPreStartup(d, host[d], Tail(soon[d]))
          /\ UNCHANGED <<wanted, spent>> /\ Up(d)
      BY <1>5, <2>2 DEF HardEnableApply, Up
    <3>3. QED
      BY <3>1, <3>2, ResetStaysObeyed
  <2>3. CASE mode[d] # "hard_disabled"
    <3>1. soon'[d] = Tail(soon[d]) /\ UNCHANGED <<mode, file, wanted, spent>>
      BY <1>5, <2>3 DEF HardEnableApply, DeviceShape
    <3>2. ASSUME NEW i \in DOMAIN soon[d], soon[d][i] = "ui_g_hard_disable"
          PROVE  i - 1 \in DOMAIN soon'[d] /\ soon'[d][i - 1] = "ui_g_hard_disable"
      <4>1. i # 1
        BY <2>1, <3>2
      <4>2. QED
        BY <2>1, <3>1, <3>2, <4>1
    <3>3. Hopping(d) => Hopping(d)'
      BY <3>2 DEF Hopping, ToSet
    <3>4. QED
      BY <3>1, <3>3 DEF Obeyed, OneWriter, Up
  <2>4. QED
    BY <2>2, <2>3
<1>6. ASSUME NEW n \in resends[d], NextResend(d, n)
      PROVE  Obeyed(d)'
  <2>1. Aside(d)
    BY <1>6 DEF NextResend, Aside, Up
  <2>2. QED
    BY <2>1, AsideStaysObeyed
<1>7. ASSUME NEW n \in resends[d], RestartAfterCap(d, n)
      PROVE  Obeyed(d)'
  <2>1. CASE mode[d] \in PreStartup
    <3>1. /\ EnterPreStartup(d, host[d], soon[d]) /\ soon[d] \in Seq(SelfEvent)
          /\ UNCHANGED <<wanted, spent>> /\ Up(d)
      BY <1>7, <2>1 DEF RestartAfterCap, Up, PreStartup, DeviceShape
    <3>2. QED
      BY <3>1, ResetStaysObeyed
  <2>2. CASE mode[d] \notin PreStartup
    <3>1. Aside(d)
      BY <1>7, <2>2 DEF RestartAfterCap, Aside, Up
    <3>2. QED
      BY <3>1, AsideStaysObeyed
  <2>3. QED
    BY <2>1, <2>2
<1>8. QED
  BY <1>1, <1>2, <1>3, <1>4, <1>5, <1>6, <1>7 DEF Step

LEMMA DriveKeepsObeyed ==
  ASSUME DeviceShape, NEW d \in Dev, Stored(d), Obeyed(d), Drive(d)
  PROVE  Obeyed(d)'
<1> USE DEF machine, images, delayed, ghosts
<1>1. CASE BitErrorDetected(d)
  <2>1. UNCHANGED <<mode, file, soon, wanted>>
    BY <1>1 DEF BitErrorDetected
  <2>2. spent'[d].changes = spent[d].changes
    BY <1>1, NoChange DEF BitErrorDetected
  <2>3. QED
    BY <2>1, <2>2, AsideStaysObeyed DEF Aside, Up
<1>2. CASE DeliveryReported(d)
  <2>1. /\ mode[d] = "sending" /\ mode'[d] = "sent"
        /\ UNCHANGED <<file, soon, wanted>>
    BY <1>2 DEF DeliveryReported, Delivered, Goto, DeviceShape
  <2>2. spent'[d].changes = spent[d].changes
    BY <1>2, NoChange DEF DeliveryReported
  <2>3. QED
    BY <2>1, <2>2, AsideStaysObeyed DEF Aside, Up
<1>3. CASE Reset(d)
  <2>1. soon[d] \in Seq(SelfEvent)
    BY DEF DeviceShape
  <2>2. QED
    BY <1>3, <2>1, NoChange, ResetStaysObeyed DEF Reset
<1>4. CASE HardDisable(d) \/ HardEnable(d)
  BY <1>4, HardDisabledObeys DEF HardDisable, TakeHardDisable, HardEnable
<1>5. CASE ChangeParameter(d)
  <2>1. spent[d].changes \in Nat /\ spent'[d].changes = spent[d].changes + 1
    BY <1>5 DEF ChangeParameter, Driven, DeviceShape
  <2>2. QED
    BY <2>1 DEF Obeyed, OneWriter
<1>6. CASE RefuseParameter(d) \/ ParametersAcked(d)
  <2>1. UNCHANGED <<mode, file, soon, wanted>>
    BY <1>6 DEF RefuseParameter, ParametersAcked
  <2>2. spent'[d].changes = spent[d].changes
    BY <1>6, NoChange DEF RefuseParameter, ParametersAcked
  <2>3. QED
    BY <2>1, <2>2, AsideStaysObeyed DEF Aside, Up
<1>7. QED
  BY <1>1, <1>2, <1>3, <1>4, <1>5, <1>6 DEF Drive

LEMMA PowerKeepsObeyed ==
  ASSUME DeviceShape, NEW d \in Dev, Stored(d), Obeyed(d),
         DeviceBoot(d) \/ PowerLoss(d) \/ PowerLossInWrite(d) \/ Pump(d)
  PROVE  Obeyed(d)'
<1> USE DEF machine, images, delayed, ghosts
<1>1. CASE DeviceBoot(d)
  <2>1. /\ file'[d] = file[d] /\ file[d] \in Image /\ soon'[d] = <<>> \o Hop(file[d])
        /\ UNCHANGED <<wanted, spent>>
    BY <1>1 DEF DeviceBoot, EnterPreStartup, Write, DeviceShape
  <2>2. <<>> \in Seq(SelfEvent)
    OBVIOUS
  <2>3. file[d].hard_disabled => Hopping(d)'
    BY <2>1, <2>2, HopIsLast DEF Hopping
  <2>4. QED
    BY <2>1, <2>3 DEF Obeyed, OneWriter
<1>2. CASE PowerLoss(d) \/ PowerLossInWrite(d)
  <2>1. /\ mode'[d] = "off" /\ UNCHANGED <<wanted, spent>>
        /\ file'[d] = file[d] \/ file'[d] = Torn
    BY <1>2 DEF PowerLoss, PowerLossInWrite, Dark, Goto, DeviceShape
  <2>2. QED
    BY <2>1 DEF Obeyed, OneWriter, Up
<1>3. CASE Pump(d)
  <2>1. Aside(d)
    BY <1>3 DEF Pump, Aside, Up
  <2>2. QED
    BY <2>1, AsideStaysObeyed
<1>4. QED
  BY <1>1, <1>2, <1>3

LEMMA NextKeepsObeyed ==
  DeviceShape /\ StoredInv /\ ObeyedInv /\ [DeviceNext]_deviceVars => ObeyedInv'
<1> SUFFICES ASSUME DeviceShape, StoredInv, ObeyedInv, [DeviceNext]_deviceVars,
                    NEW e \in Dev
             PROVE  Obeyed(e)'
  BY DEF ObeyedInv
<1>1. Stored(e) /\ Obeyed(e)
  BY DEF StoredInv, ObeyedInv
<1>2. ASSUME Same(e)
      PROVE  Obeyed(e)'
  BY <1>1, <1>2 DEF Same, Obeyed, Up, OneWriter, Hopping
<1>3. CASE UNCHANGED deviceVars
  BY <1>2, <1>3 DEF deviceVars, machine, images, delayed, ghosts, Same
<1>4. ASSUME NEW d \in Dev, DeviceAction(d)
      PROVE  Obeyed(e)'
  <2>1. CASE e = d
    BY <1>1, <1>4, <2>1, StepKeepsObeyed, HearKeepsObeyed, DriveKeepsObeyed,
       PowerKeepsObeyed DEF DeviceAction
  <2>2. CASE e # d
    BY <1>2, <1>4, <2>2, OthersAreSame
  <2>3. QED
    BY <2>1, <2>2
<1>5. QED
  BY <1>3, <1>4 DEF DeviceNext, DeviceAction

\* Hard disable outlives resets, caps, power failures between and within writes,
\* and an enable applied late: a running device whose last order was a disable is in
\* hard_disabled or hops there (reset_entry), as long as no parameter change
\* rewrites its file.
THEOREM DisabledAlwaysStays == DeviceSpec => []DisabledStaysDisabled
<1>1. DeviceInit => DeviceShape /\ StoredInv /\ ObeyedInv
  <2>1. DeviceInit => ObeyedInv
    BY DEF DeviceInit, ObeyedInv, Obeyed
  <2>2. QED
    BY <2>1, InitShape, InitStored
<1>2. DeviceShape /\ StoredInv /\ ObeyedInv /\ [DeviceNext]_deviceVars
        => DeviceShape' /\ StoredInv' /\ ObeyedInv'
  BY NextShape, NextKeepsStored, NextKeepsObeyed
<1>3. ObeyedInv => DisabledStaysDisabled
  BY DEF ObeyedInv, Obeyed, DisabledStaysDisabled, Hopping
<1>4. QED
  BY <1>1, <1>2, <1>3, PTL DEF DeviceSpec
=============================================================================
