----------------------- MODULE SubnetControllerProofs -----------------------
(***************************************************************************)
(* Proofs about SubnetController, for any number of SCs and devices, any   *)
(* credentials, and any bounds of the environment.                         *)
(***************************************************************************)
EXTENDS SubnetController, TLAPS

-----------------------------------------------------------------------------
(* Frames and the bus *)

LEMMA DesignatorType ==
  /\ NoDD \in Nat
  /\ SC \subseteq Nat \ {NoDD}
  /\ Dev \subseteq Nat \ {NoDD}
  /\ \A n \in SC : Rank[n] \in Nat
  /\ \A d \in Dev : Kind[d] \in Nat
BY ScRamAssumption, SubnetControllerAssumption DEF NoDD

LEMMA EmptyType ==
  ASSUME NEW t \in Anonymous
  PROVE  Empty(t) \in Frame
BY DEF Empty, Frame, FrameType, Designators, Anonymous, NoDD

LEMMA ScFrameType ==
  ASSUME NEW t \in FromSc, NEW n \in SC
  PROVE  /\ From(t, n) \in Frame
         /\ Credentials(t, n) \in Frame
BY DesignatorType
   DEF From, Credentials, Empty, Frame, FrameType, Designators, Anonymous,
       FromSc, Unit

LEMMA UnitFrameType ==
  ASSUME NEW d \in Unit, NEW e \in Nat, NEW s \in BOOLEAN
  PROVE  /\ Assignment(d, e, s) \in Frame
         /\ FromDevice("DEVICE_ASSIGNMENT_ACK", d, e) \in Frame
BY DEF Assignment, FromDevice, From, Empty, Frame, FrameType, Designators,
       Anonymous, FromSc, Unit

LEMMA AnnouncementType ==
  ASSUME TypeOK, NEW d \in Dev, NEW f \in Announcement(d)
  PROVE  f \in Frame
<1>1. /\ Kind[d] \in Nat /\ holds[d] \in Nat
      /\ d \in Nat \ {NoDD} /\ d \in Unit
  BY DesignatorType DEF Unit, TypeOK
<1>2. ASSUME NEW t \in {"DEVICE_STARTUP", "DEVICE_DD"}, NEW e \in Nat
      PROVE  FromDevice(t, d, e) \in Frame /\ From(t, d) \in Frame
  BY <1>1
     DEF FromDevice, From, Empty, Frame, FrameType, Designators, Anonymous, FromSc
<1>3. QED
  BY <1>1, <1>2 DEF Announcement, Startup

LEMMA OnBusType ==
  ASSUME NEW n \in SC, NEW fs \in Seq(Frame), NEW q \in [SC -> Seq(Frame)]
  PROVE  OnBus(n, fs, q) \in [SC -> Seq(Frame)]
BY DEF OnBus

LEMMA AskedType ==
  ASSUME TypeOK, NEW n \in SC, NEW fs \in Seq(Frame)
  PROVE  Asked(n, fs) \subseteq Owed
<1>1. ToSet(fs) \subseteq Frame
  BY DEF ToSet
<1>2. \A f \in Frame : f.et \in Nat
  BY DEF Frame
<1>3. QED
  BY <1>1, <1>2 DEF Asked, Owed, TypeOK

LEMMA GivenType ==
  ASSUME TypeOK, NEW n \in SC, NEW fs \in Seq(Frame), Given(n, fs)
  PROVE  asked' \subseteq Owed /\ holds' \in [Dev -> Nat]
<1>1. Asked(n, fs) \subseteq Owed
  BY AskedType
<1>2. asked' \subseteq Owed
  BY <1>1 DEF Given, TypeOK
<1>3. ASSUME NEW d \in Dev, \E o \in Asked(n, fs) : o.dd = d
      PROVE  (CHOOSE o \in Asked(n, fs) : o.dd = d).et \in Nat
  BY <1>1, <1>3 DEF Owed
<1>4. holds' \in [Dev -> Nat]
  BY <1>3 DEF Given, TypeOK
<1>5. QED
  BY <1>2, <1>4

LEMMA SendType ==
  ASSUME TypeOK, NEW n \in SC, NEW fs \in Seq(Frame), Send(n, fs)
  PROVE  /\ queue' \in [SC -> Seq(Frame)]
         /\ asked' \subseteq Owed /\ holds' \in [Dev -> Nat]
BY OnBusType, GivenType DEF TypeOK, Send

LEMMA ReplyType ==
  ASSUME TypeOK, NEW n \in SC, NEW fs \in Seq(Frame), queue[n] # <<>>,
         Reply(n, fs)
  PROVE  /\ queue' \in [SC -> Seq(Frame)]
         /\ asked' \subseteq Owed /\ holds' \in [Dev -> Nat]
<1>1. [queue EXCEPT ![n] = Tail(@)] \in [SC -> Seq(Frame)]
  BY DEF TypeOK
<1>2. QED
  BY <1>1, OnBusType, GivenType DEF TypeOK, Reply

LEMMA TakeType ==
  ASSUME TypeOK, NEW n \in SC, queue[n] # <<>>, Take(n)
  PROVE  /\ queue' \in [SC -> Seq(Frame)]
         /\ asked' \subseteq Owed /\ holds' \in [Dev -> Nat]
<1>1. <<>> \in Seq(Frame)
  OBVIOUS
<1>2. QED
  BY <1>1, ReplyType DEF Take

LEMMA SendOneType ==
  ASSUME TypeOK, NEW n \in SC, NEW f \in Frame, Send(n, <<f>>)
  PROVE  /\ queue' \in [SC -> Seq(Frame)]
         /\ asked' \subseteq Owed /\ holds' \in [Dev -> Nat]
<1>1. <<f>> \in Seq(Frame)
  OBVIOUS
<1>2. QED
  BY <1>1, SendType

LEMMA ReplyOneType ==
  ASSUME TypeOK, NEW n \in SC, NEW f \in Frame, queue[n] # <<>>,
         Reply(n, <<f>>)
  PROVE  /\ queue' \in [SC -> Seq(Frame)]
         /\ asked' \subseteq Owed /\ holds' \in [Dev -> Nat]
<1>1. <<f>> \in Seq(Frame)
  OBVIOUS
<1>2. QED
  BY <1>1, ReplyType

\* What a handler reads from the frame it takes.
LEMMA HeadType ==
  ASSUME TypeOK, NEW n \in SC, queue[n] # <<>>
  PROVE  /\ Head(queue[n]) \in Frame
         /\ Head(queue[n]).et \in Nat
         /\ Head(queue[n]).rank \in Nat
         /\ Sender(n) \in Designators(Head(queue[n]).type)
<1>1. queue[n] \in Seq(Frame)
  BY DEF TypeOK
<1>2. Head(queue[n]) \in Frame
  BY <1>1
<1>3. QED
  BY <1>2 DEF Frame, Sender

-----------------------------------------------------------------------------
(* The pieces of an action *)

LEMMA ListType ==
  ASSUME NEW list \in ScList, NEW m, NEW r \in Nat
  PROVE  /\ WithStartup(list, m) \in ScList
         /\ WithDeclaration(list, m, r) \in ScList
         /\ WithAsc(list, m) \in ScList
         /\ Revoked(list) \in ScList
         /\ BestOther(list) \in Address
<1>1. WithStartup(list, m) \in ScList
  BY DEF WithStartup, ScList, Entry
<1>2. WithDeclaration(list, m, r) \in ScList
  BY DEF WithDeclaration, ScList, Entry
<1>3. WithAsc(list, m) \in ScList
  BY DEF WithAsc, ScList, Entry
<1>4. Revoked(list) \in ScList
  BY DEF Revoked, ScList, Entry
<1>5. BestOther(list) \in Address
  BY DEF BestOther, Listed, Address
<1>6. QED
  BY <1>1, <1>2, <1>3, <1>4, <1>5

LEMMA DeviceType ==
  ASSUME NEW entry \in DeviceEntry, NEW e \in Nat
  PROVE  /\ Announced(entry, e) \in DeviceEntry
         /\ Recorded(entry, e) \in DeviceEntry
         /\ NoDevice \in DeviceEntry
BY DEF Announced, Recorded, NoDevice, DeviceEntry

LEMMA DeviceListType ==
  ASSUME TypeOK, NEW n \in SC, NEW d \in Unit, NEW entry \in DeviceEntry
  PROVE  [devRam EXCEPT ![n][d] = entry] \in [SC -> [Unit -> DeviceEntry]]
BY DEF TypeOK

LEMMA RamUpdateType ==
  ASSUME TypeOK, NEW n \in SC, NEW u \in SUBSET Address
  PROVE  /\ [ram EXCEPT ![n].declaration_sent = TRUE] \in [SC -> RamType]
         /\ [ram EXCEPT ![n].assignment_received = TRUE] \in [SC -> RamType]
         /\ [ram EXCEPT ![n].unresponsive = u] \in [SC -> RamType]
         /\ ram[n].unresponsive \in SUBSET Address
         /\ ram[n].token_candidate \in Address
<1>1. ram \in [SC -> RamType]
  BY DEF TypeOK
<1>2. /\ [ram[n] EXCEPT !.declaration_sent = TRUE] \in RamType
      /\ [ram[n] EXCEPT !.assignment_received = TRUE] \in RamType
      /\ [ram[n] EXCEPT !.unresponsive = u] \in RamType
  BY <1>1 DEF RamType
<1>3. \A r \in RamType : [ram EXCEPT ![n] = r] \in [SC -> RamType]
  BY <1>1
<1>4. /\ [ram EXCEPT ![n].declaration_sent = TRUE] \in [SC -> RamType]
      /\ [ram EXCEPT ![n].assignment_received = TRUE] \in [SC -> RamType]
      /\ [ram EXCEPT ![n].unresponsive = u] \in [SC -> RamType]
  BY <1>1, <1>2, <1>3
<1>5. ram[n].unresponsive \in SUBSET Address /\ ram[n].token_candidate \in Address
  BY <1>1 DEF RamType
<1>6. QED
  BY <1>4, <1>5

LEMMA NvmUpdateType ==
  ASSUME TypeOK, NEW n \in SC, NEW b \in BOOLEAN
  PROVE  /\ [nvm EXCEPT ![n].hard_disabled = b] \in [SC -> NvmType]
         /\ [nvm EXCEPT ![n].configured = b] \in [SC -> NvmType]
<1>1. nvm \in [SC -> NvmType]
  BY DEF TypeOK
<1>2. QED
  BY <1>1 DEF NvmType

LEMMA ArchiveType ==
  ASSUME TypeOK, NEW n \in SC, NEW d \in Unit,
         NEW r \in Archive
  PROVE  [nvm EXCEPT ![n].devices[d] = r] \in [SC -> NvmType]
<1>1. nvm \in [SC -> NvmType]
  BY DEF TypeOK
<1>2. QED
  BY <1>1 DEF NvmType

LEMMA SpendType ==
  ASSUME TypeOK,
         NEW what \in {"deadline", "crash", "fault", "announce", "command"},
         Spend(what)
  PROVE  budget' \in [{"deadline", "crash", "fault", "announce", "command"} -> Nat]
<1>1. budget \in [{"deadline", "crash", "fault", "announce", "command"} -> Nat]
  BY DEF TypeOK
<1>2. QED
  BY <1>1 DEF Spend

LEMMA EntryType ==
  ASSUME TypeOK, NEW n \in SC
  PROVE  /\ \A s \in State : Goto(n, s) => state' \in [SC -> State]
         /\ \A ev \in SUBSET SelfEvent : EnterPreStartup(n, ev) =>
              /\ state' \in [SC -> State]
              /\ ram' \in [SC -> RamType]
              /\ pend' \in [SC -> SUBSET SelfEvent]
         /\ EnterPassive(n) =>
              state' \in [SC -> State] /\ ram' \in [SC -> RamType]
         /\ EnterAudit(n) =>
              state' \in [SC -> State] /\ audits' \in [SC -> 0..MaxAudits]
         /\ EnterHardDisabled(n) =>
              state' \in [SC -> State] /\ nvm' \in [SC -> NvmType]
         /\ EnterSoftDisabled(n) =>
              state' \in [SC -> State] /\ soft' \in [SC -> BOOLEAN]
<1>1. ASSUME NEW s \in State, Goto(n, s)
      PROVE  state' \in [SC -> State]
  BY <1>1 DEF Goto, TypeOK
<1>2. ClearRam \in RamType
  BY DEF ClearRam, RamType, Address
<1>3. ASSUME NEW ev \in SUBSET SelfEvent, EnterPreStartup(n, ev)
      PROVE  /\ state' \in [SC -> State]
             /\ ram' \in [SC -> RamType]
             /\ pend' \in [SC -> SUBSET SelfEvent]
  <2>1. state' \in [SC -> State]
    BY <1>1, <1>3 DEF EnterPreStartup, State
  <2>2. ram' \in [SC -> RamType]
    BY <1>2, <1>3 DEF EnterPreStartup, TypeOK
  <2>3. pend' \in [SC -> SUBSET SelfEvent]
    BY <1>3 DEF EnterPreStartup, TypeOK, SelfEvent
  <2>4. QED
    BY <2>1, <2>2, <2>3
<1>4. ASSUME EnterPassive(n)
      PROVE  state' \in [SC -> State] /\ ram' \in [SC -> RamType]
  <2>1. state' \in [SC -> State]
    BY <1>1, <1>4 DEF EnterPassive, State
  <2>2. ram[n] \in RamType /\ ram \in [SC -> RamType]
    BY DEF TypeOK
  <2>3. [ram[n] EXCEPT !.declaration_sent = FALSE] \in RamType
    BY <2>2 DEF RamType
  <2>4. ram' = [ram EXCEPT ![n] = [ram[n] EXCEPT !.declaration_sent = FALSE]]
    BY <1>4, <2>2 DEF EnterPassive
  <2>5. QED
    BY <2>1, <2>2, <2>3, <2>4
<1>5. ASSUME EnterAudit(n)
      PROVE  state' \in [SC -> State] /\ audits' \in [SC -> 0..MaxAudits]
  <2>1. state' \in [SC -> State]
    BY <1>1, <1>5 DEF EnterAudit, State, ActiveCoordinator
  <2>2. audits' = [audits EXCEPT ![n] =
                     IF audits[n] < MaxAudits THEN audits[n] + 1 ELSE audits[n]]
    BY <1>5 DEF EnterAudit, TypeOK
  <2>3. /\ audits[n] \in 0..MaxAudits /\ MaxAudits \in Nat
        /\ audits \in [SC -> 0..MaxAudits]
    BY SubnetControllerAssumption DEF TypeOK
  <2>4. QED
    BY <2>1, <2>2, <2>3
<1>6. ASSUME EnterHardDisabled(n)
      PROVE  state' \in [SC -> State] /\ nvm' \in [SC -> NvmType]
  BY <1>1, <1>6 DEF EnterHardDisabled, TypeOK, State, NvmType
<1>7. ASSUME EnterSoftDisabled(n)
      PROVE  state' \in [SC -> State] /\ soft' \in [SC -> BOOLEAN]
  BY <1>1, <1>7 DEF EnterSoftDisabled, TypeOK, State
<1>8. QED
  BY <1>1, <1>3, <1>4, <1>5, <1>6, <1>7

(* assign_et_si_for_device *)

LEMMA AssignFramesType ==
  ASSUME TypeOK, NEW n \in SC, NEW d \in Unit
  PROVE  AssignFrames(n, d) \in Seq(Frame)
<1>1. From("aSC_HEARTBEAT", n) \in Frame
  BY ScFrameType DEF FromSc
<1>2. Assignment(d, 0, FALSE) \in Frame
  BY UnitFrameType
<1>3. nvm[n].devices[d].et \in Nat /\ soft[n] \in BOOLEAN
  BY DEF TypeOK, NvmType, Archive
<1>4. Assignment(d, nvm[n].devices[d].et, soft[n]) \in Frame
  BY <1>3, UnitFrameType
<1>5. Empty("DEVICE_SOFT_DISABLE_ALARM") \in Frame
  BY EmptyType DEF Anonymous
<1>6. /\ <<From("aSC_HEARTBEAT", n)>> \in Seq(Frame)
      /\ <<Assignment(d, 0, FALSE), Empty("DEVICE_SOFT_DISABLE_ALARM")>>
           \in Seq(Frame)
      /\ <<Assignment(d, nvm[n].devices[d].et, soft[n])>> \in Seq(Frame)
      /\ <<>> \in Seq(Frame)
  <2>1. ASSUME NEW f \in Frame, NEW g \in Frame
        PROVE  <<f>> \in Seq(Frame) /\ <<f, g>> \in Seq(Frame)
    OBVIOUS
  <2>2. <<>> \in Seq(Frame)
    OBVIOUS
  <2>3. QED
    BY <1>1, <1>2, <1>4, <1>5, <2>1, <2>2
<1>7. ASSUME NEW fs \in Seq(Frame)
      PROVE  <<From("aSC_HEARTBEAT", n)>> \o fs \in Seq(Frame)
  BY <1>6
<1>8. CASE Stranger(n, d)
  BY <1>6, <1>7, <1>8 DEF AssignFrames
<1>9. CASE ~Stranger(n, d) /\ Archived(n, d)
  BY <1>6, <1>7, <1>9 DEF AssignFrames
<1>10. CASE ~Stranger(n, d) /\ ~Archived(n, d)
  BY <1>6, <1>7, <1>10 DEF AssignFrames
<1>11. QED
  BY <1>8, <1>9, <1>10

LEMMA AssignEtSiType ==
  ASSUME TypeOK, NEW n \in SC, NEW d \in Unit, NEW e \in Nat,
         AssignEtSi(n, d, e)
  PROVE  /\ devRam' \in [SC -> [Unit -> DeviceEntry]]
         /\ children' \in [SC -> SUBSET [dd : Unit, et : Nat]]
<1> DEFINE entry == IF d \in Known(n) THEN devRam[n][d] ELSE Announced(NoDevice, e)
<1>1. entry \in DeviceEntry
  <2>1. NoDevice \in DeviceEntry
    BY DEF NoDevice, DeviceEntry
  <2>2. devRam[n][d] \in DeviceEntry
    BY DEF TypeOK
  <2>3. QED
    BY <2>1, <2>2, DeviceType
<1>2. entry.et \in Nat
  BY <1>1 DEF DeviceEntry
<1>3. devRam' = [devRam EXCEPT ![n][d] = entry]
  BY DEF AssignEtSi
<1>4. devRam' \in [SC -> [Unit -> DeviceEntry]]
  BY <1>1, <1>3, DeviceListType
<1>5. children' = [children EXCEPT ![n] =
        IF Stranger(n, d) \/ Archived(n, d)
          THEN @ ELSE @ \cup {[dd |-> d, et |-> entry.et]}]
  BY DEF AssignEtSi
<1>6. children' \in [SC -> SUBSET [dd : Unit, et : Nat]]
  BY <1>2, <1>5 DEF TypeOK
<1>7. QED
  BY <1>4, <1>6

-----------------------------------------------------------------------------
(* Steps keep the types *)

LEMMA TypeReceive ==
  ASSUME TypeOK, NEW n \in SC, Receive(n)
  PROVE  TypeOK'
<1>1. CASE JoinStartup(n)
  <2>1. /\ queue' \in [SC -> Seq(Frame)]
        /\ asked' \subseteq Owed /\ holds' \in [Dev -> Nat]
    BY <1>1, ReplyOneType, ScFrameType
       DEF JoinStartup, FromSc, Hears
  <2>2. QED
    BY <1>1, <2>1, EntryType, HeadType
       DEF JoinStartup, Hears, TypeOK, vars, node, lists, tasks, env, devs, State,
           RamType
<1>2. CASE ListStartup(n)
  BY <1>2, EntryType, ListType, TakeType, HeadType
     DEF ListStartup, Hears, TypeOK, vars, node, lists, tasks, env, devs, State,
         ActiveCoordinator, RamType
<1>3. CASE AbsorbStartup(n)
  <2>1. /\ queue' \in [SC -> Seq(Frame)]
        /\ asked' \subseteq Owed /\ holds' \in [Dev -> Nat]
    BY <1>3, ReplyOneType, ScFrameType
       DEF AbsorbStartup, FromSc, Hears
  <2>2. QED
    BY <1>3, <2>1, EntryType, ListType, HeadType
       DEF AbsorbStartup, Hears, TypeOK, vars, node, lists, tasks, env, devs, State,
           ActiveCoordinator, RamType
<1>4. CASE YieldToCoordinator(n)
  <2>1. Sender(n) \in Unit
    BY <1>4, HeadType DEF YieldToCoordinator, Hears, Designators, Anonymous, FromSc, Unit
  <2>2. devRam' \in [SC -> [Unit -> DeviceEntry]]
    <3>1. devRam[n][Sender(n)] \in DeviceEntry
      BY <2>1 DEF TypeOK
    <3>2. devRam' = [devRam EXCEPT ![n][Sender(n)] =
                       Announced(devRam[n][Sender(n)], 0)]
      BY <1>4 DEF YieldToCoordinator, TypeOK
    <3>3. QED
      BY <2>1, <3>1, <3>2, DeviceType, DeviceListType
  <2>3. QED
    BY <1>4, <2>2, EntryType, TakeType
       DEF YieldToCoordinator, Hears, TypeOK, vars, tasks, env, devs
<1>5. CASE YieldToAsc(n)
  BY <1>5, EntryType, ListType, TakeType, HeadType
     DEF YieldToAsc, Hears, TypeOK, vars, node, lists, tasks, env, devs, State,
         ActiveCoordinator, RamType
<1>6. CASE RecordDeclaration(n)
  BY <1>6, EntryType, ListType, TakeType, HeadType
     DEF RecordDeclaration, Hears, TypeOK, vars, node, lists, tasks, env, devs,
         State, ActiveCoordinator, RamType
<1>7. CASE YieldToBetter(n)
  BY <1>7, EntryType, TakeType, HeadType
     DEF YieldToBetter, Hears, TypeOK, vars, node, lists, tasks, env, devs, State,
         ActiveCoordinator, HeartbeatOut, RamType
<1>8. CASE Reassert(n)
  <2>1. /\ queue' \in [SC -> Seq(Frame)]
        /\ asked' \subseteq Owed /\ holds' \in [Dev -> Nat]
    BY <1>8, ReplyOneType, ScFrameType
       DEF Reassert, FromSc, Hears
  <2>2. QED
    BY <1>8, <2>1, EntryType, HeadType
       DEF Reassert, Hears, TypeOK, vars, node, lists, tasks, env, devs, State,
           ActiveCoordinator
<1>9. CASE AnswerDeclaration(n)
  <2>1. /\ queue' \in [SC -> Seq(Frame)]
        /\ asked' \subseteq Owed /\ holds' \in [Dev -> Nat]
    BY <1>9, ReplyOneType, ScFrameType DEF AnswerDeclaration, FromSc, Hears, Declare
  <2>2. ram' \in [SC -> RamType]
    BY <1>9, RamUpdateType DEF AnswerDeclaration, Declare
  <2>3. QED
    BY <1>9, <2>1, <2>2 DEF AnswerDeclaration, Declare, TypeOK, lists, tasks, env, devs
<1>10. CASE DeclareIfSilent(n)
  <2>1. /\ queue' \in [SC -> Seq(Frame)]
        /\ asked' \subseteq Owed /\ holds' \in [Dev -> Nat]
    BY <1>10, ReplyOneType, ScFrameType DEF DeclareIfSilent, FromSc, Hears, Declare
  <2>2. ram' \in [SC -> RamType]
    BY <1>10, RamUpdateType DEF DeclareIfSilent, Declare
  <2>3. QED
    BY <1>10, <2>1, <2>2 DEF DeclareIfSilent, Declare, TypeOK, lists, tasks, env, devs
<1>11. CASE AlreadyDeclared(n)
  BY <1>11, EntryType, TakeType, HeadType
     DEF AlreadyDeclared, Hears, TypeOK, vars, node, lists, tasks, env, devs, State,
         RamType
<1>12. CASE TakeToken(n)
  <2>1. /\ queue' \in [SC -> Seq(Frame)]
        /\ asked' \subseteq Owed /\ holds' \in [Dev -> Nat]
    BY <1>12, ReplyOneType, ScFrameType
       DEF TakeToken, FromSc, Hears
  <2>2. QED
    BY <1>12, <2>1, EntryType, HeadType
       DEF TakeToken, Hears, TypeOK, vars, node, lists, tasks, env, devs, State,
           ActiveCoordinator, RamType
<1>13. CASE BecomeSoftDisabled(n)
  <2>1. /\ queue' \in [SC -> Seq(Frame)]
        /\ asked' \subseteq Owed /\ holds' \in [Dev -> Nat]
    BY <1>13, HeadType, UnitFrameType, ReplyOneType
       DEF BecomeSoftDisabled, Acknowledge, Hears, Unit
  <2>2. ram' \in [SC -> RamType]
    BY <1>13, RamUpdateType DEF BecomeSoftDisabled, Acknowledge
  <2>3. QED
    BY <1>13, <2>1, <2>2, EntryType
       DEF BecomeSoftDisabled, Acknowledge, TypeOK, lists, tasks, env, devs
<1>14. CASE BecomeInactive(n)
  <2>1. /\ queue' \in [SC -> Seq(Frame)]
        /\ asked' \subseteq Owed /\ holds' \in [Dev -> Nat]
    BY <1>14, HeadType, UnitFrameType, ReplyOneType
       DEF BecomeInactive, Acknowledge, Hears, Unit
  <2>2. ram' \in [SC -> RamType]
    BY <1>14, RamUpdateType DEF BecomeInactive, Acknowledge
  <2>3. QED
    BY <1>14, <2>1, <2>2, EntryType
       DEF BecomeInactive, Acknowledge, TypeOK, lists, tasks, env, devs, State
<1>15. CASE FinishAsIsc(n)
  BY <1>15, EntryType, TakeType, HeadType
     DEF FinishAsIsc, Hears, TypeOK, vars, node, lists, tasks, env, devs, State,
         RamType
<1>16. CASE RememberAsc(n)
  BY <1>16, EntryType, ListType, TakeType, HeadType
     DEF RememberAsc, Hears, TypeOK, vars, node, lists, tasks, env, devs, State,
         RamType
<1>17. CASE DeviceArrival(n)
  <2>1. Sender(n) \in Unit /\ Head(queue[n]).et \in Nat /\ queue[n] # <<>>
    BY <1>17, HeadType DEF DeviceArrival, Hears, Designators, Anonymous, FromSc, Unit
  <2>2. devRam' \in [SC -> [Unit -> DeviceEntry]]
    <3>1. devRam[n][Sender(n)] \in DeviceEntry
      BY <2>1 DEF TypeOK
    <3>2. devRam' = [devRam EXCEPT ![n][Sender(n)] =
                       Announced(devRam[n][Sender(n)], Head(queue[n]).et)]
      BY <1>17 DEF DeviceArrival, TypeOK
    <3>3. QED
      BY <2>1, <3>1, <3>2, DeviceType, DeviceListType
  <2>3. scram' \in [SC -> ScList] /\ pend' \in [SC -> SUBSET SelfEvent]
    <3>1. CASE IsIndoorUnit(Head(queue[n]).et)
      <4>1. Revoked(scram[n]) \in ScList
        <5>1. scram[n] \in ScList
          BY DEF TypeOK
        <5>2. QED
          BY <5>1 DEF Revoked, ScList, Entry
      <4>2. scram' = [scram EXCEPT ![n] = Revoked(scram[n])]
        BY <1>17, <3>1 DEF DeviceArrival, TypeOK
      <4>3. pend' = [pend EXCEPT ![n] = @ \cup {"iu_reset_detected"}]
        BY <1>17, <3>1 DEF DeviceArrival
      <4>4. QED
        BY <4>1, <4>2, <4>3 DEF TypeOK, SelfEvent
    <3>2. CASE ~IsIndoorUnit(Head(queue[n]).et)
      BY <1>17, <3>2 DEF DeviceArrival, TypeOK
    <3>3. QED
      BY <3>1, <3>2
  <2>4. QED
    BY <1>17, <2>1, <2>2, <2>3, TakeType DEF DeviceArrival, TypeOK, node, env, devs
<1>18. CASE AssignArrival(n)
  <2>1. Sender(n) \in Unit /\ Head(queue[n]).et \in Nat /\ queue[n] # <<>>
    BY <1>18, HeadType DEF AssignArrival, Hears, Designators, Anonymous, FromSc, Unit
  <2>2. /\ queue' \in [SC -> Seq(Frame)]
        /\ asked' \subseteq Owed /\ holds' \in [Dev -> Nat]
    BY <1>18, <2>1, AssignFramesType, ReplyType DEF AssignArrival
  <2>3. /\ devRam' \in [SC -> [Unit -> DeviceEntry]]
        /\ children' \in [SC -> SUBSET [dd : Unit, et : Nat]]
    BY <1>18, <2>1, AssignEtSiType DEF AssignArrival
  <2>4. QED
    BY <1>18, <2>2, <2>3 DEF AssignArrival, TypeOK, node, env, devs
<1>19. CASE RecordAck(n)
  <2>1. Sender(n) \in Unit /\ Head(queue[n]).et \in Nat /\ queue[n] # <<>>
    BY <1>19, HeadType DEF RecordAck, Hears, Designators, Anonymous, FromSc, Unit
  <2> DEFINE entry == Recorded(devRam[n][Sender(n)], Head(queue[n]).et)
  <2>2. entry \in DeviceEntry /\ entry.et \in Nat
    <3>1. devRam[n][Sender(n)] \in DeviceEntry
      BY <2>1 DEF TypeOK
    <3>2. entry \in DeviceEntry
      BY <2>1, <3>1, DeviceType
    <3>3. QED
      BY <3>2 DEF DeviceEntry
  <2>3. [known |-> TRUE, et |-> entry.et] \in Archive
    BY <2>2 DEF Archive
  <2>4. /\ devRam' \in [SC -> [Unit -> DeviceEntry]]
        /\ nvm' \in [SC -> NvmType]
    <3>1. CASE Sender(n) \in Known(n)
      <4>1. /\ devRam' = [devRam EXCEPT ![n][Sender(n)] = entry]
            /\ nvm' = [nvm EXCEPT ![n].devices[Sender(n)] =
                          [known |-> TRUE, et |-> entry.et]]
        BY <1>19, <3>1 DEF RecordAck
      <4>2. QED
        BY <2>1, <2>2, <2>3, <4>1, DeviceListType, ArchiveType
    <3>2. CASE Sender(n) \notin Known(n)
      BY <1>19, <3>2 DEF RecordAck, TypeOK
    <3>3. QED
      BY <3>1, <3>2
  <2>5. pend' \in [SC -> SUBSET SelfEvent]
    BY <1>19 DEF RecordAck, TypeOK, SelfEvent
  <2>6. QED
    BY <1>19, <2>1, <2>4, <2>5, TakeType DEF RecordAck, TypeOK, node, env, devs
<1>20. CASE ReenterAudit(n)
  BY <1>20, EntryType, ListType, TakeType, HeadType
     DEF ReenterAudit, Hears, TypeOK, vars, node, lists, tasks, env, devs, State,
         ActiveCoordinator, HeartbeatOut, RamType
<1>21. CASE AnswerHeartbeat(n)
  <2>1. /\ queue' \in [SC -> Seq(Frame)]
        /\ asked' \subseteq Owed /\ holds' \in [Dev -> Nat]
    BY <1>21, ReplyOneType, ScFrameType
       DEF AnswerHeartbeat, FromSc, Hears
  <2>2. QED
    BY <1>21, <2>1, EntryType, HeadType
       DEF AnswerHeartbeat, Hears, TypeOK, vars, node, lists, tasks, env, devs,
           State, HeartbeatOut
<1>22. CASE YieldToHeartbeat(n)
  BY <1>22, EntryType, TakeType, HeadType
     DEF YieldToHeartbeat, Hears, TypeOK, vars, node, lists, tasks, env, devs, State,
         HeartbeatOut, RamType
<1>23. CASE RepeatAlarm(n)
  <2>1. /\ queue' \in [SC -> Seq(Frame)]
        /\ asked' \subseteq Owed /\ holds' \in [Dev -> Nat]
    BY <1>23, ReplyOneType, EmptyType
       DEF RepeatAlarm, Anonymous, Hears
  <2>2. QED
    BY <1>23, <2>1, EntryType, HeadType
       DEF RepeatAlarm, Hears, TypeOK, vars, node, lists, tasks, env, devs, State,
           HeartbeatOut
<1>24. CASE DropFrame(n)
  BY <1>24, EntryType, TakeType, HeadType
     DEF DropFrame, Hears, TypeOK, vars, node, lists, tasks, env, devs, State,
         ActiveCoordinator, HeartbeatOut
<1>25. QED
  BY <1>1, <1>2, <1>3, <1>4, <1>5, <1>6, <1>7, <1>8, <1>9, <1>10, <1>11, <1>12,
     <1>13, <1>14, <1>15, <1>16, <1>17, <1>18, <1>19, <1>20, <1>21, <1>22,
     <1>23, <1>24 DEF Receive

LEMMA TypeTimer ==
  ASSUME TypeOK, NEW n \in SC, Timer(n)
  PROVE  TypeOK'
<1>1. CASE StartupDelay(n)
  <2>1. /\ queue' \in [SC -> Seq(Frame)]
        /\ asked' \subseteq Owed /\ holds' \in [Dev -> Nat]
    BY <1>1, SendOneType, ScFrameType
       DEF StartupDelay, FromSc
  <2>2. QED
    BY <1>1, <2>1, EntryType
       DEF StartupDelay, TypeOK, vars, node, lists, tasks, env, devs, State, RamType
<1>2. CASE ArbitrationWindow(n)
  <2>1. /\ queue' \in [SC -> Seq(Frame)]
        /\ asked' \subseteq Owed /\ holds' \in [Dev -> Nat]
    BY <1>2, SendOneType, ScFrameType
       DEF ArbitrationWindow, FromSc
  <2>2. QED
    BY <1>2, <2>1, EntryType
       DEF ArbitrationWindow, TypeOK, vars, node, lists, tasks, env, devs, State,
           ActiveCoordinator, RamType
<1>3. CASE TokenAckWindow(n)
  <2>1. ram' \in [SC -> RamType]
    <3>1. ram' = [ram EXCEPT ![n].unresponsive =
                    ram[n].unresponsive \cup {ram[n].token_candidate}]
      BY <1>3 DEF TokenAckWindow, TypeOK
    <3>2. ram[n].unresponsive \cup {ram[n].token_candidate} \in SUBSET Address
      BY RamUpdateType
    <3>3. QED
      BY <3>1, <3>2, RamUpdateType
  <2>2. QED
    BY <1>3, <2>1, EntryType DEF TokenAckWindow, Quiet, TypeOK, lists, env, devs
<1>4. CASE PassiveDeadline(n)
  BY <1>4, EntryType, SpendType DEF PassiveDeadline, Quiet, TypeOK, lists, devs
<1>5. QED
  BY <1>1, <1>2, <1>3, <1>4 DEF Timer

LEMMA TypeEnvironment ==
  ASSUME TypeOK, NEW n \in SC, Environment(n)
  PROVE  TypeOK'
<1>1. CASE Crash(n)
  <2>1. state' \in [SC -> State] /\ ram' \in [SC -> RamType]
    BY <1>1, EntryType DEF Crash, State, ClearRam, RamType, TypeOK, Address
  <2>2. scram' \in [SC -> ScList]
    BY <1>1 DEF Crash, EmptyList, ScList, Entry, TypeOK
  <2>3. devRam' \in [SC -> [Unit -> DeviceEntry]]
    BY <1>1 DEF Crash, NoDevice, DeviceEntry, TypeOK
  <2>4. queue' \in [SC -> Seq(Frame)]
    BY <1>1 DEF Crash, TypeOK
  <2>5. /\ up' \in [SC -> BOOLEAN] /\ soft' \in [SC -> BOOLEAN]
        /\ pend' \in [SC -> SUBSET SelfEvent]
        /\ audits' \in [SC -> 0..MaxAudits]
        /\ sweep' \in [SC -> SUBSET Unit]
        /\ children' \in [SC -> SUBSET [dd : Unit, et : Nat]]
    BY <1>1, SubnetControllerAssumption DEF Crash, TypeOK
  <2>6. budget' \in [{"deadline", "crash", "fault", "announce", "command"} -> Nat]
    BY <1>1, SpendType DEF Crash
  <2>7. QED
    BY <1>1, <2>1, <2>2, <2>3, <2>4, <2>5, <2>6 DEF Crash, TypeOK, devs
<1>2. CASE LinkFail(n)
  BY <1>2, EntryType, SpendType
     DEF LinkFail, TypeOK, vars, node, lists, tasks, env, devs, State
<1>3. CASE LinkRestore(n)
  BY <1>3, EntryType, SpendType
     DEF LinkRestore, TypeOK, vars, node, lists, tasks, env, devs, State
<1>4. CASE HardDisable(n)
  BY <1>4, EntryType, SpendType
     DEF HardDisable, TypeOK, vars, node, lists, tasks, env, devs, State,
         RamType
<1>5. CASE Malfunction(n)
  BY <1>5, EntryType, SpendType
     DEF Malfunction, TypeOK, vars, node, lists, tasks, env, devs, State,
         RamType
<1>6. CASE HardEnable(n)
  <2>1. nvm' \in [SC -> NvmType]
    BY <1>6, NvmUpdateType DEF HardEnable
  <2>2. pend' \in [SC -> SUBSET SelfEvent]
    BY <1>6 DEF HardEnable, TypeOK, SelfEvent
  <2>3. QED
    BY <1>6, <2>1, <2>2, SpendType DEF HardEnable, TypeOK, node, lists, devs
<1>7. CASE Reset(n)
  BY <1>7, EntryType, SpendType
     DEF Reset, TypeOK, vars, node, lists, tasks, env, devs, State,
         ActiveCoordinator, RamType
<1>8. CASE SoftDisable(n)
  BY <1>8, EntryType, SpendType
     DEF SoftDisable, TypeOK, vars, node, lists, tasks, env, devs, State,
         RamType
<1>9. QED
  BY <1>1, <1>2, <1>3, <1>4, <1>5, <1>6, <1>7, <1>8 DEF Environment

LEMMA TypeScheduled ==
  ASSUME TypeOK, NEW n \in SC, Scheduled(n)
  PROVE  TypeOK'
<1>1. CASE IuResetDetected(n)
  BY <1>1, EntryType DEF IuResetDetected, Quiet, TypeOK, lists, env, devs, SelfEvent
<1>2. Silent(n) \in SUBSET Address
  BY RamUpdateType DEF Silent, Unanswered, Listed
<1>3. CASE TakeLead(n)
  <2>1. /\ <<From("aSC_HEARTBEAT", n), Empty("SC_READY_TO_TAKE_OVER")>>
             \in Seq(Frame)
    <3>1. /\ From("aSC_HEARTBEAT", n) \in Frame
          /\ Empty("SC_READY_TO_TAKE_OVER") \in Frame
      BY ScFrameType, EmptyType DEF FromSc, Anonymous
    <3>2. QED
      BY <3>1
  <2>2. /\ queue' \in [SC -> Seq(Frame)]
        /\ asked' \subseteq Owed /\ holds' \in [Dev -> Nat]
    BY <1>3, <2>1, SendType DEF TakeLead
  <2>3. ram' \in [SC -> RamType]
    <3>1. ram[n] \in RamType
      BY DEF TypeOK
    <3>2. ram' = [ram EXCEPT ![n] =
            [ram[n] EXCEPT !.unresponsive = Silent(n),
                           !.verification = ram'[n].verification]]
      <4>1. ram' = [ram EXCEPT
              ![n].unresponsive = Silent(n),
              ![n].verification = /\ nvm[n].configured
                                  /\ \E m \in Listed(scram[n]) : scram[n][m].valid]
        BY <1>3 DEF TakeLead
      <4>2. ram \in [SC -> RamType]
        BY DEF TypeOK
      <4>3. QED
        BY <4>1, <4>2, <3>1 DEF RamType
    <3>3. ram'[n].verification \in BOOLEAN
      BY <1>3, <3>1 DEF TakeLead, TypeOK, RamType, NvmType
    <3>4. [ram[n] EXCEPT !.unresponsive = Silent(n),
                         !.verification = ram'[n].verification] \in RamType
      BY <1>2, <3>1, <3>3 DEF RamType
    <3>5. QED
      BY <3>2, <3>4 DEF TypeOK
  <2>4. state' \in [SC -> State]
    BY <1>3, EntryType DEF TakeLead, State, HeartbeatOut
  <2>5. pend' \in [SC -> SUBSET SelfEvent] /\ sweep' \in [SC -> SUBSET Unit]
    BY <1>3 DEF TakeLead, AuditPassDone, TypeOK, Known, SelfEvent
  <2>6. QED
    BY <1>3, <2>2, <2>3, <2>4, <2>5 DEF TakeLead, TypeOK, lists, env, devs
<1>4. CASE PassToken(n)
  <2>1. /\ queue' \in [SC -> Seq(Frame)]
        /\ asked' \subseteq Owed /\ holds' \in [Dev -> Nat]
    BY <1>4, SendOneType, EmptyType DEF PassToken, Anonymous
  <2>2. BestOther(scram[n]) \in Address
    BY ListType DEF TypeOK
  <2>3. ram' \in [SC -> RamType]
    <3>1. [ram[n] EXCEPT !.unresponsive = Silent(n),
                         !.token_candidate = BestOther(scram[n])] \in RamType
      <4>1. ram[n] \in RamType
        BY DEF TypeOK
      <4>2. QED
        BY <1>2, <2>2, <4>1 DEF RamType
    <3>2. ram' = [ram EXCEPT ![n] =
            [ram[n] EXCEPT !.unresponsive = Silent(n),
                           !.token_candidate = BestOther(scram[n])]]
      BY <1>4 DEF PassToken, TypeOK
    <3>3. QED
      BY <3>1, <3>2 DEF TypeOK
  <2>4. state' \in [SC -> State]
    BY <1>4, EntryType DEF PassToken, State, ActiveCoordinator
  <2>5. pend' \in [SC -> SUBSET SelfEvent]
    BY <1>4 DEF PassToken, AuditPassDone, TypeOK, SelfEvent
  <2>6. QED
    BY <1>4, <2>1, <2>3, <2>4, <2>5 DEF PassToken, TypeOK, lists, env, devs
<1>5. CASE AssignmentPhaseComplete(n)
  <2>1. /\ queue' \in [SC -> Seq(Frame)]
        /\ asked' \subseteq Owed /\ holds' \in [Dev -> Nat]
    BY <1>5, SendOneType, EmptyType DEF AssignmentPhaseComplete, Anonymous
  <2>2. nvm' \in [SC -> NvmType]
    BY <1>5, NvmUpdateType DEF AssignmentPhaseComplete
  <2>3. state' \in [SC -> State]
    BY <1>5, EntryType DEF AssignmentPhaseComplete, State, HeartbeatOut
  <2>4. pend' \in [SC -> SUBSET SelfEvent]
    BY <1>5 DEF AssignmentPhaseComplete, TypeOK, SelfEvent
  <2>5. waits' \subseteq Dev
    BY <1>5 DEF AssignmentPhaseComplete, TypeOK
  <2>6. QED
    BY <1>5, <2>1, <2>2, <2>3, <2>4, <2>5
       DEF AssignmentPhaseComplete, TypeOK, lists, env, devs
<1>6. CASE HopToHardDisabled(n)
  <2>1. pend' \in [SC -> SUBSET SelfEvent]
    BY <1>6 DEF HopToHardDisabled, TypeOK, SelfEvent
  <2>2. QED
    BY <1>6, <2>1, EntryType DEF HopToHardDisabled, Quiet, TypeOK, lists, env, devs
<1>7. CASE HardEnableApply(n)
  <2>1. pend[n] \ {"hard_enable_apply"} \in SUBSET SelfEvent
    BY DEF TypeOK
  <2>2. QED
    BY <1>7, <2>1, EntryType DEF HardEnableApply, Quiet, TypeOK, lists, env, devs
<1>8. ASSUME NEW e \in SelfEvent, DropEvent(n, e)
      PROVE  TypeOK'
  <2>1. pend' \in [SC -> SUBSET SelfEvent]
    BY <1>8 DEF DropEvent, TypeOK
  <2>2. QED
    BY <1>8, <2>1 DEF DropEvent, Quiet, TypeOK, node, lists, env, devs
<1>9. QED
  BY <1>1, <1>3, <1>4, <1>5, <1>6, <1>7, <1>8 DEF Scheduled

LEMMA TypeTask ==
  ASSUME TypeOK, NEW n \in SC, Task(n)
  PROVE  TypeOK'
<1>1. CASE AuditQuery(n)
  <2>1. /\ queue' \in [SC -> Seq(Frame)]
        /\ asked' \subseteq Owed /\ holds' \in [Dev -> Nat]
    BY <1>1, SendOneType, EmptyType DEF AuditQuery, Anonymous
  <2>2. QED
    BY <1>1, <2>1 DEF AuditQuery, TypeOK, node, lists, tasks, env, devs
<1>2. CASE AuditFinished(n)
  <2>1. audits' \in [SC -> 0..MaxAudits]
    <3>1. audits' = [audits EXCEPT ![n] = audits[n] - 1] /\ audits[n] > 0
      BY <1>2 DEF AuditFinished, TypeOK
    <3>2. audits[n] \in 0..MaxAudits /\ MaxAudits \in Nat
      BY SubnetControllerAssumption DEF TypeOK
    <3>3. audits[n] - 1 \in 0..MaxAudits
      BY <3>1, <3>2
    <3>4. QED
      BY <3>1, <3>3 DEF TypeOK
  <2>2. pend' \in [SC -> SUBSET SelfEvent]
    <3>1. pend' = [pend EXCEPT ![n] = @ \cup {"audit_pass_done"}]
      BY <1>2 DEF AuditFinished
    <3>2. QED
      BY <3>1 DEF TypeOK, SelfEvent
  <2>3. QED
    BY <1>2, <2>1, <2>2 DEF AuditFinished, Quiet, TypeOK, node, lists, env, devs
<1>3. ASSUME NEW c \in children[n], ChildSeeded(n, c)
      PROVE  TypeOK'
  <2>1. c.dd \in Unit /\ c.et \in Nat
    BY DEF TypeOK
  <2>2. /\ queue' \in [SC -> Seq(Frame)]
        /\ asked' \subseteq Owed /\ holds' \in [Dev -> Nat]
    <3>1. CASE HasRival(n, c)
      <4>1. <<>> \in Seq(Frame)
        OBVIOUS
      <4>2. QED
        BY <1>3, <3>1, <4>1, SendType DEF ChildSeeded
    <3>2. CASE ~HasRival(n, c)
      BY <1>3, <2>1, <3>2, SendOneType, UnitFrameType DEF ChildSeeded
    <3>3. QED
      BY <3>1, <3>2
  <2>3. children' \in [SC -> SUBSET [dd : Unit, et : Nat]]
    BY <1>3 DEF ChildSeeded, TypeOK
  <2>4. QED
    BY <1>3, <2>2, <2>3 DEF ChildSeeded, TypeOK, node, lists, env, devs
<1>4. CASE HeartbeatPeriod(n)
  <2>1. /\ queue' \in [SC -> Seq(Frame)]
        /\ asked' \subseteq Owed /\ holds' \in [Dev -> Nat]
    BY <1>4, SendOneType, ScFrameType DEF HeartbeatPeriod, FromSc
  <2>2. QED
    BY <1>4, <2>1 DEF HeartbeatPeriod, TypeOK, node, lists, tasks, env, devs
<1>5. ASSUME NEW d \in Unit, SweepVisit(n, d)
      PROVE  TypeOK'
  <2>1. devRam[n][d].et \in Nat
    BY DEF TypeOK, DeviceEntry
  <2>2. /\ queue' \in [SC -> Seq(Frame)]
        /\ asked' \subseteq Owed /\ holds' \in [Dev -> Nat]
    BY <1>5, AssignFramesType, SendType DEF SweepVisit
  <2>3. /\ devRam' \in [SC -> [Unit -> DeviceEntry]]
        /\ children' \in [SC -> SUBSET [dd : Unit, et : Nat]]
    BY <1>5, <2>1, AssignEtSiType DEF SweepVisit
  <2>4. sweep' \in [SC -> SUBSET Unit]
    BY <1>5 DEF SweepVisit, TypeOK
  <2>5. QED
    BY <1>5, <2>2, <2>3, <2>4 DEF SweepVisit, TypeOK, node, env, devs
<1>6. ASSUME NEW c \in children[n], StraySeed(n, c)
      PROVE  TypeOK'
  <2> DEFINE taken == [c EXCEPT !.et = Head(queue[n]).et]
  <2>1. Head(queue[n]).et \in Nat
    BY <1>6, HeadType DEF StraySeed, Hears
  <2>2. c \in [dd : Unit, et : Nat]
    BY DEF TypeOK
  <2>3. taken \in [dd : Unit, et : Nat]
    BY <2>1, <2>2
  <2>4. children' \in [SC -> SUBSET [dd : Unit, et : Nat]]
    BY <1>6, <2>3 DEF StraySeed, TypeOK
  <2>5. strays' \subseteq [dd : Unit, et : Nat]
    BY <1>6, <2>3 DEF StraySeed, TypeOK
  <2>6. QED
    BY <1>6, <2>4, <2>5 DEF StraySeed, Quiet, TypeOK, node, lists
<1>7. QED
  BY <1>1, <1>2, <1>3, <1>4, <1>5, <1>6 DEF Task, AuditStep, SeedChild

LEMMA SaysType ==
  ASSUME TypeOK, NEW f \in Frame, Says(f)
  PROVE  queue' \in [SC -> Seq(Frame)]
BY DEF Says, TypeOK

LEMMA TypeDevice ==
  ASSUME TypeOK, NEW d \in Dev,
         \/ DeviceWaits(d) \/ DeviceLeaves(d) \/ DeviceAck(d)
         \/ \E f \in Announcement(d) : DeviceAnnounce(d, f)
  PROVE  TypeOK'
<1>1. CASE DeviceAck(d)
  <2>1. PICK o \in asked :
          /\ o.dd = d
          /\ asked' = asked \ {o}
          /\ Says(FromDevice("DEVICE_ASSIGNMENT_ACK", d, o.et))
    BY <1>1 DEF DeviceAck
  <2>2. o.et \in Nat
    BY DEF TypeOK, Owed
  <2>3. FromDevice("DEVICE_ASSIGNMENT_ACK", d, o.et) \in Frame
    BY <2>2, UnitFrameType DEF Unit
  <2>4. queue' \in [SC -> Seq(Frame)]
    BY <2>1, <2>3, SaysType
  <2>5. asked' \subseteq Owed
    BY <2>1 DEF TypeOK
  <2>6. QED
    BY <1>1, <2>4, <2>5 DEF DeviceAck, TypeOK, node, lists, tasks, env, devs
<1>2. ASSUME NEW f \in Announcement(d), DeviceAnnounce(d, f)
      PROVE  TypeOK'
  <2>1. queue' \in [SC -> Seq(Frame)]
    BY <1>2, AnnouncementType, SaysType DEF DeviceAnnounce
  <2>2. QED
    BY <1>2, <2>1, SpendType DEF DeviceAnnounce, TypeOK, node, lists, tasks, devs
<1>3. CASE DeviceWaits(d)
  <2>1. queue' \in [SC -> Seq(Frame)]
    BY <1>3, AnnouncementType, SaysType DEF DeviceWaits, Announcement
  <2>2. waits' \subseteq Dev
    BY <1>3 DEF DeviceWaits, TypeOK
  <2>3. QED
    BY <1>3, <2>1, <2>2, SpendType DEF DeviceWaits, TypeOK, node, lists, tasks
<1>4. CASE DeviceLeaves(d)
  BY <1>4, SpendType DEF DeviceLeaves, Quiet, TypeOK, node, lists, tasks
<1>5. QED
  BY <1>1, <1>2, <1>3, <1>4

LEMMA TypeInit == Init => TypeOK
<1> SUFFICES ASSUME Init
             PROVE  TypeOK
  OBVIOUS
<1>1. /\ state \in [SC -> State]
      /\ ram \in [SC -> RamType]
  BY DEF Init, State, ClearRam, RamType, Address
<1>2. scram \in [SC -> ScList]
  BY DEF Init, EmptyList, ScList, Entry
<1>3. devRam \in [SC -> [Unit -> DeviceEntry]]
  BY DEF Init, NoDevice, DeviceEntry
<1>4. nvm \in [SC -> NvmType]
  BY SubnetControllerAssumption DEF Init, NvmType, Archive, NoArchive
<1>5. queue \in [SC -> Seq(Frame)]
  BY DEF Init
<1>6. budget \in [{"deadline", "crash", "fault", "announce", "command"} -> Nat]
  BY SubnetControllerAssumption DEF Init
<1>7. audits \in [SC -> 0..MaxAudits]
  BY SubnetControllerAssumption DEF Init
<1>8. holds \in [Dev -> Nat]
  BY SubnetControllerAssumption DEF Init
<1>9. QED
  BY <1>1, <1>2, <1>3, <1>4, <1>5, <1>6, <1>7, <1>8 DEF Init, TypeOK

LEMMA TypeStep == TypeOK /\ [Next]_vars => TypeOK'
<1> SUFFICES ASSUME TypeOK, [Next]_vars
             PROVE  TypeOK'
  OBVIOUS
<1>1. ASSUME NEW n \in SC, Boot(n)
      PROVE  TypeOK'
  <2>1. {} \in SUBSET SelfEvent
    OBVIOUS
  <2>2. QED
    BY <1>1, <2>1, EntryType DEF Boot, TypeOK, lists, devs
<1>2. CASE UNCHANGED vars
  BY <1>2 DEF TypeOK, vars, node, lists, tasks, env, devs
<1>3. QED
  BY <1>1, <1>2, TypeReceive, TypeTimer, TypeScheduled, TypeTask,
     TypeEnvironment, TypeDevice DEF Next

-----------------------------------------------------------------------------
(* Type correctness *)

\* Every handler leaves every variable of its type, and every frame carries a
\* designator its type allows, for any number of SCs and devices.
THEOREM TypeCorrect == Spec => []TypeOK
BY TypeInit, TypeStep, PTL DEF Spec
=============================================================================
