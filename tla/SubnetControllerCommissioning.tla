-------------------- MODULE SubnetControllerCommissioning --------------------
(***************************************************************************)
(* Proofs about commissioning: that the archive in nvm is never behind the *)
(* device list, that nobody is archived with another's equipment type, and *)
(* that the leader has something under way for every device it still has   *)
(* to assign.                                                              *)
(***************************************************************************)
EXTENDS SubnetControllerRivalry

-----------------------------------------------------------------------------
(* The archive is never behind the list: a device becomes assigned only      *)
(* where its acknowledge is recorded, and the event that makes the SC        *)
(* configured is scheduled only there.                                       *)

HasArchived(n) == \E d \in Unit : nvm[n].devices[d].known

\* The strengthening: completion on its way means that something is archived.
ArchiveInv ==
  /\ AssignedIsArchived
  /\ \A n \in SC : "assignment_phase_complete" \in pend[n] => HasArchived(n)

\* A step that leaves the archive alone, marks no device as assigned and
\* schedules no completion.
KeepsArchive ==
  \A m \in SC :
    /\ nvm'[m].devices = nvm[m].devices
    /\ nvm'[m].configured = nvm[m].configured
    /\ Finished(devRam'[m]) \subseteq Finished(devRam[m])
    /\ "assignment_phase_complete" \in pend'[m]
         => "assignment_phase_complete" \in pend[m]

LEMMA KeepsArchiveInv ==
  ASSUME ArchiveInv, KeepsArchive
  PROVE  ArchiveInv'
BY DEF ArchiveInv, KeepsArchive, AssignedIsArchived, HasArchived

\* Two ways to keep it: neither list nor archive changes, or entries of the
\* list are only added as seen.
LEMMA ListsUnchanged ==
  ASSUME UNCHANGED <<devRam, nvm, pend>>
  PROVE  KeepsArchive
BY DEF KeepsArchive

LEMMA NoNewlyFinished ==
  ASSUME TypeOK, NEW n \in SC, NEW d \in Unit, NEW entry \in DeviceEntry,
         entry.status = "assigned" => devRam[n][d].status = "assigned",
         devRam' = [devRam EXCEPT ![n][d] = entry]
  PROVE  \A m \in SC : Finished(devRam'[m]) \subseteq Finished(devRam[m])
BY DEF Finished, TypeOK

LEMMA NoNewCompletion ==
  ASSUME TypeOK, NEW n \in SC, NEW e, e # "assignment_phase_complete",
         pend' = pend \/ pend' = [pend EXCEPT ![n] = @ \cup {e}]
  PROVE  \A m \in SC : "assignment_phase_complete" \in pend'[m]
                        => "assignment_phase_complete" \in pend[m]
<1>1. CASE pend' = pend
  BY <1>1
<1>2. CASE pend' = [pend EXCEPT ![n] = @ \cup {e}]
  BY <1>2 DEF TypeOK
<1>3. QED
  BY <1>1, <1>2

LEMMA AssignKeepsFinished ==
  ASSUME TypeOK, NEW n \in SC, NEW d \in Unit, NEW e \in Nat,
         AssignEtSi(n, d, e)
  PROVE  \A m \in SC : Finished(devRam'[m]) \subseteq Finished(devRam[m])
<1>1. devRam[n][d] \in DeviceEntry /\ Announced(NoDevice, e) \in DeviceEntry
  BY DeviceType DEF TypeOK
<1>2. PICK entry \in {devRam[n][d], Announced(NoDevice, e)} :
        devRam' = [devRam EXCEPT ![n][d] = entry]
  BY DEF AssignEtSi
<1>3. entry.status = "assigned" => devRam[n][d].status = "assigned"
  BY <1>2 DEF Announced, NoDevice
<1>4. QED
  BY <1>1, <1>2, <1>3, NoNewlyFinished

LEMMA ReceiveKeepsArchive ==
  ASSUME TypeOK, NEW n \in SC, Receive(n), ~RecordAck(n)
  PROVE  KeepsArchive
<1>1. CASE \/ JoinStartup(n) \/ ListStartup(n) \/ AbsorbStartup(n)
           \/ YieldToAsc(n) \/ RecordDeclaration(n) \/ YieldToBetter(n)
           \/ Reassert(n) \/ AnswerDeclaration(n) \/ DeclareIfSilent(n)
           \/ AlreadyDeclared(n)
  BY <1>1, ListsUnchanged
     DEF JoinStartup, ListStartup, AbsorbStartup, YieldToAsc,
         RecordDeclaration, YieldToBetter, Reassert, AnswerDeclaration,
         DeclareIfSilent, AlreadyDeclared, Declare, lists, tasks
<1>2. CASE \/ TakeToken(n) \/ BecomeSoftDisabled(n) \/ BecomeInactive(n)
           \/ FinishAsIsc(n) \/ RememberAsc(n) \/ ReenterAudit(n)
           \/ AnswerHeartbeat(n) \/ YieldToHeartbeat(n) \/ RepeatAlarm(n)
           \/ DropFrame(n)
  BY <1>2, ListsUnchanged
     DEF TakeToken, BecomeSoftDisabled, BecomeInactive, Acknowledge,
         FinishAsIsc, RememberAsc, ReenterAudit, AnswerHeartbeat,
         YieldToHeartbeat, RepeatAlarm, DropFrame, lists, tasks
<1>3. CASE YieldToCoordinator(n)
  <2>1. Sender(n) \in Unit
    BY <1>3, HeadType
       DEF YieldToCoordinator, Hears, Designators, Anonymous, FromSc, Unit
  <2>2. devRam[n][Sender(n)] \in DeviceEntry
    BY <2>1 DEF TypeOK
  <2>3. devRam' = [devRam EXCEPT ![n][Sender(n)] =
                     Announced(devRam[n][Sender(n)], 0)]
    BY <1>3 DEF YieldToCoordinator, TypeOK
  <2>4. Announced(devRam[n][Sender(n)], 0).status = "assigned"
          => devRam[n][Sender(n)].status = "assigned"
    BY DEF Announced
  <2>5. \A m \in SC : Finished(devRam'[m]) \subseteq Finished(devRam[m])
    BY <2>1, <2>2, <2>3, <2>4, DeviceType, NoNewlyFinished
  <2>6. QED
    BY <1>3, <2>5 DEF YieldToCoordinator, KeepsArchive, tasks
<1>4. CASE DeviceArrival(n)
  <2>1. Sender(n) \in Unit /\ Head(queue[n]).et \in Nat
    BY <1>4, HeadType
       DEF DeviceArrival, Hears, Designators, Anonymous, FromSc, Unit
  <2>2. devRam[n][Sender(n)] \in DeviceEntry
    BY <2>1 DEF TypeOK
  <2>3. devRam' = [devRam EXCEPT ![n][Sender(n)] =
                     Announced(devRam[n][Sender(n)], Head(queue[n]).et)]
    BY <1>4 DEF DeviceArrival, TypeOK
  <2>4. Announced(devRam[n][Sender(n)], Head(queue[n]).et).status = "assigned"
          => devRam[n][Sender(n)].status = "assigned"
    BY DEF Announced
  <2>5. \A m \in SC : Finished(devRam'[m]) \subseteq Finished(devRam[m])
    BY <2>1, <2>2, <2>3, <2>4, DeviceType, NoNewlyFinished
  <2>6. \A m \in SC : "assignment_phase_complete" \in pend'[m]
                        => "assignment_phase_complete" \in pend[m]
    <3>1. pend' = pend \/ pend' = [pend EXCEPT ![n] = @ \cup {"iu_reset_detected"}]
      BY <1>4 DEF DeviceArrival
    <3>2. QED
      BY <3>1, NoNewCompletion
  <2>7. nvm' = nvm
    BY <1>4 DEF DeviceArrival
  <2>8. QED
    BY <2>5, <2>6, <2>7 DEF KeepsArchive
<1>5. CASE AssignArrival(n)
  <2>1. Sender(n) \in Unit /\ Head(queue[n]).et \in Nat
    BY <1>5, HeadType
       DEF AssignArrival, Hears, Designators, Anonymous, FromSc, Unit
  <2>2. AssignEtSi(n, Sender(n), Head(queue[n]).et) /\ UNCHANGED <<pend, nvm>>
    BY <1>5 DEF AssignArrival
  <2>3. QED
    BY <2>1, <2>2, AssignKeepsFinished DEF KeepsArchive
<1>6. QED
  BY <1>1, <1>2, <1>3, <1>4, <1>5 DEF Receive

LEMMA OthersKeepArchive ==
  ASSUME TypeOK, NEW n \in SC,
         Boot(n) \/ Timer(n) \/ Scheduled(n) \/ Task(n) \/ Environment(n),
         ~AssignmentPhaseComplete(n)
  PROVE  KeepsArchive
<1>1. CASE StartupDelay(n) \/ ArbitrationWindow(n) \/ TokenAckWindow(n)
  BY <1>1, ListsUnchanged
     DEF StartupDelay, ArbitrationWindow, TokenAckWindow, lists, tasks
<1>2. ASSUME NEW ev, EnterPreStartup(n, ev), UNCHANGED <<devRam, nvm>>,
             "assignment_phase_complete" \in ev
               => "assignment_phase_complete" \in pend[n]
      PROVE  KeepsArchive
  BY <1>2 DEF EnterPreStartup, TypeOK, KeepsArchive
<1>3. CASE Boot(n) \/ PassiveDeadline(n) \/ Reset(n) \/ HardEnableApply(n)
  BY <1>2, <1>3 DEF Boot, PassiveDeadline, Reset, HardEnableApply, lists
<1>4. CASE IuResetDetected(n) \/ TakeLead(n) \/ PassToken(n)
  <2>1. UNCHANGED <<devRam, nvm>>
    BY <1>4 DEF IuResetDetected, TakeLead, PassToken, lists
  <2>2. \E e : pend' = [pend EXCEPT ![n] = @ \ {e}]
    BY <1>4 DEF IuResetDetected, TakeLead, PassToken, AuditPassDone
  <2>3. QED
    BY <2>1, <2>2 DEF KeepsArchive, TypeOK
<1>5. CASE HopToHardDisabled(n) \/ HardDisable(n) \/ Malfunction(n)
  <2>1. UNCHANGED devRam
    BY <1>5 DEF HopToHardDisabled, HardDisable, Malfunction, lists
  <2>2. \A m \in SC : pend'[m] \subseteq pend[m]
    BY <1>5 DEF HopToHardDisabled, HardDisable, Malfunction, tasks, TypeOK
  <2>3. nvm' = [nvm EXCEPT ![n].hard_disabled = TRUE]
    BY <1>5 DEF HopToHardDisabled, HardDisable, Malfunction, EnterHardDisabled
  <2>4. QED
    BY <2>1, <2>2, <2>3 DEF KeepsArchive, TypeOK, NvmType
<1>6. ASSUME NEW e \in SelfEvent, DropEvent(n, e)
      PROVE  KeepsArchive
  BY <1>6 DEF DropEvent, KeepsArchive, TypeOK, lists
<1>7. CASE \/ AuditStep(n) \/ HeartbeatPeriod(n) \/ SeedChild(n)
           \/ \E c \in children[n] : StraySeed(n, c)
  <2>1. UNCHANGED <<devRam, nvm>>
    BY <1>7 DEF AuditStep, AuditQuery, AuditFinished, HeartbeatPeriod,
                SeedChild, ChildSeeded, StraySeed, lists
  <2>2. pend' = pend \/ pend' = [pend EXCEPT ![n] = @ \cup {"audit_pass_done"}]
    BY <1>7 DEF AuditStep, AuditQuery, AuditFinished, HeartbeatPeriod,
                SeedChild, ChildSeeded, StraySeed, tasks
  <2>3. QED
    BY <2>1, <2>2, NoNewCompletion DEF KeepsArchive
<1>8. ASSUME NEW d \in Unit, SweepVisit(n, d)
      PROVE  KeepsArchive
  <2>1. devRam[n][d].et \in Nat
    BY DEF TypeOK, DeviceEntry
  <2>2. AssignEtSi(n, d, devRam[n][d].et) /\ UNCHANGED <<pend, nvm>>
    BY <1>8 DEF SweepVisit
  <2>3. QED
    BY <2>1, <2>2, AssignKeepsFinished DEF KeepsArchive
<1>9. CASE Crash(n)
  <2>1. /\ nvm' = nvm /\ \A m \in SC \ {n} : devRam'[m] = devRam[m]
        /\ devRam'[n] = [d \in Unit |-> NoDevice]
        /\ \A m \in SC : pend'[m] \subseteq pend[m]
    BY <1>9 DEF Crash, TypeOK
  <2>2. Finished(devRam'[n]) = {}
    BY <2>1 DEF Finished, NoDevice
  <2>3. \A m \in SC \ {n} : Finished(devRam'[m]) = Finished(devRam[m])
    BY <2>1 DEF Finished
  <2>4. QED
    BY <2>1, <2>2, <2>3 DEF KeepsArchive
<1>10. CASE LinkFail(n) \/ LinkRestore(n) \/ SoftDisable(n)
  BY <1>10, ListsUnchanged DEF LinkFail, LinkRestore, SoftDisable, lists, tasks
<1>11. CASE HardEnable(n)
  <2>1. /\ UNCHANGED devRam
        /\ pend' = [pend EXCEPT ![n] = @ \cup {"hard_enable_apply"}]
        /\ nvm' = [nvm EXCEPT ![n].hard_disabled = FALSE]
    BY <1>11 DEF HardEnable, lists
  <2>2. QED
    BY <2>1 DEF KeepsArchive, TypeOK, NvmType
<1>12. QED
  BY <1>1, <1>3, <1>4, <1>5, <1>6, <1>7, <1>8, <1>9, <1>10, <1>11
     DEF Timer, Scheduled, Task, Environment

-----------------------------------------------------------------------------
(* The two steps that change the archive *)

LEMMA RecordAckArchives ==
  ASSUME TypeOK, ArchiveInv, NEW n \in SC, RecordAck(n)
  PROVE  ArchiveInv'
<1> DEFINE d == Sender(n)
           entry == Recorded(devRam[n][d], Head(queue[n]).et)
<1>1. d \in Unit /\ Head(queue[n]).et \in Nat
  BY HeadType DEF RecordAck, Hears, Designators, Anonymous, FromSc, Unit
<1>2. entry \in DeviceEntry
  <2>1. devRam[n][d] \in DeviceEntry
    BY <1>1 DEF TypeOK
  <2>2. QED
    BY <1>1, <2>1, DeviceType
<1>3. \/ UNCHANGED <<devRam, nvm>>
      \/ /\ devRam' = [devRam EXCEPT ![n][d] = entry]
         /\ nvm' = [nvm EXCEPT ![n].devices[d] = [known |-> TRUE, et |-> entry.et]]
  BY DEF RecordAck
<1>4. pend' = [pend EXCEPT ![n] = @ \cup
        IF AllAssigned(devRam'[n]) THEN {"assignment_phase_complete"} ELSE {}]
  BY DEF RecordAck
<1> HIDE DEF d, entry
<1>5. /\ \A m \in SC : /\ Finished(devRam'[m]) \subseteq
                             Finished(devRam[m]) \cup {k \in Unit : m = n /\ k = d}
                        /\ nvm'[m].configured = nvm[m].configured
                        /\ \A k \in Unit : nvm[m].devices[k].known
                                             => nvm'[m].devices[k].known
      /\ UNCHANGED devRam \/ nvm'[n].devices[d].known
  <2>1. CASE UNCHANGED <<devRam, nvm>>
    BY <2>1
  <2>2. CASE /\ devRam' = [devRam EXCEPT ![n][d] = entry]
             /\ nvm' = [nvm EXCEPT ![n].devices[d] =
                                      [known |-> TRUE, et |-> entry.et]]
    <3>1. /\ \A m \in SC \ {n} : nvm'[m] = nvm[m]
          /\ nvm'[n].configured = nvm[n].configured
          /\ nvm'[n].devices = [nvm[n].devices EXCEPT ![d] =
                                  [known |-> TRUE, et |-> entry.et]]
      BY <2>2 DEF TypeOK, NvmType
    <3>2. nvm[n].devices \in [Unit -> Archive]
      BY DEF TypeOK, NvmType
    <3>3. \A k \in Unit : nvm'[n].devices[k] =
             IF k = d THEN [known |-> TRUE, et |-> entry.et] ELSE nvm[n].devices[k]
      BY <3>1, <3>2
    <3>4. \A m \in SC : Finished(devRam'[m]) \subseteq
             Finished(devRam[m]) \cup {k \in Unit : m = n /\ k = d}
      BY <1>1, <2>2 DEF TypeOK, Finished
    <3>5. nvm'[n].devices[d].known
      BY <1>1, <3>3
    <3>6. ASSUME NEW m \in SC, NEW k \in Unit, nvm[m].devices[k].known
          PROVE  nvm'[m].devices[k].known
      <4>1. CASE m = n /\ k = d
        BY <3>5, <4>1
      <4>2. CASE m = n /\ k # d
        BY <3>3, <3>6, <4>2
      <4>3. CASE m # n
        BY <3>1, <3>6, <4>3
      <4>4. QED
        BY <4>1, <4>2, <4>3
    <3>7. \A m \in SC : nvm'[m].configured = nvm[m].configured
      BY <3>1
    <3>8. QED
      BY <3>4, <3>5, <3>6, <3>7
  <2>3. QED
    BY <1>3, <2>1, <2>2
<1>6. AssignedIsArchived'
  BY <1>1, <1>3, <1>5 DEF ArchiveInv, AssignedIsArchived, Finished
<1>7. \A m \in SC : "assignment_phase_complete" \in pend'[m] => HasArchived(m)'
  <2>1. SUFFICES ASSUME NEW m \in SC, "assignment_phase_complete" \in pend'[m]
                 PROVE  HasArchived(m)'
    OBVIOUS
  <2>2. CASE "assignment_phase_complete" \in pend[m]
    BY <1>5, <2>2 DEF ArchiveInv, HasArchived
  <2>3. CASE "assignment_phase_complete" \notin pend[m]
    <3>1. m = n /\ AllAssigned(devRam'[n])
      BY <1>4, <2>1, <2>3 DEF TypeOK
    <3>2. PICK k \in Unit : k \in Finished(devRam'[n])
      BY <3>1 DEF AllAssigned, Finished
    <3>3. QED
      BY <1>6, <3>1, <3>2 DEF AssignedIsArchived, HasArchived
  <2>4. QED
    BY <2>2, <2>3
<1>8. QED
  BY <1>6, <1>7 DEF ArchiveInv

LEMMA CompletionIsArchived ==
  ASSUME TypeOK, ArchiveInv, NEW n \in SC, AssignmentPhaseComplete(n)
  PROVE  ArchiveInv'
<1>1. /\ UNCHANGED devRam
      /\ pend' = [pend EXCEPT ![n] = @ \ {"assignment_phase_complete"}]
      /\ nvm' = [nvm EXCEPT ![n].configured = TRUE]
  BY DEF AssignmentPhaseComplete, lists
<1>2. \A m \in SC : /\ nvm'[m].devices = nvm[m].devices
                    /\ m # n => nvm'[m].configured = nvm[m].configured
  BY <1>1 DEF TypeOK, NvmType
<1>3. HasArchived(n)
  BY DEF ArchiveInv, AssignmentPhaseComplete
<1>4. QED
  BY <1>1, <1>2, <1>3 DEF ArchiveInv, AssignedIsArchived, HasArchived, TypeOK

LEMMA ArchiveStep == TypeOK /\ ArchiveInv /\ [Next]_vars => ArchiveInv'
<1> SUFFICES ASSUME TypeOK, ArchiveInv, [Next]_vars
             PROVE  ArchiveInv'
  OBVIOUS
<1>1. ASSUME NEW n \in SC, Receive(n)
      PROVE  ArchiveInv'
  BY <1>1, ReceiveKeepsArchive, RecordAckArchives, KeepsArchiveInv
<1>2. ASSUME NEW n \in SC,
             Boot(n) \/ Timer(n) \/ Scheduled(n) \/ Task(n) \/ Environment(n)
      PROVE  ArchiveInv'
  BY <1>2, OthersKeepArchive, CompletionIsArchived, KeepsArchiveInv
<1>3. ASSUME NEW d \in Dev,
             \/ DeviceWaits(d) \/ DeviceLeaves(d) \/ DeviceAck(d)
             \/ \E f \in Announcement(d) : DeviceAnnounce(d, f)
      PROVE  ArchiveInv'
  BY <1>3, ListsUnchanged, KeepsArchiveInv
     DEF DeviceWaits, DeviceLeaves, DeviceAck, DeviceAnnounce, lists, tasks
<1>4. CASE UNCHANGED vars
  BY <1>4, ListsUnchanged, KeepsArchiveInv DEF vars, lists, tasks
<1>5. QED
  BY <1>1, <1>2, <1>3, <1>4 DEF Next

\* Whatever is lost in crashes, and in whichever order tasks, events and
\* acknowledges are handled: a device the list calls assigned is in the archive,
\* and only an SC with an archived device is configured.
THEOREM AssignedArchived == Spec => []AssignedIsArchived
<1>1. Init => ArchiveInv
  <2>1. SUFFICES ASSUME Init
                 PROVE  ArchiveInv
    OBVIOUS
  <2>2. \A n \in SC : Finished(devRam[n]) = {} /\ pend[n] = {}
    BY <2>1 DEF Init, Finished, NoDevice
  <2>3. ASSUME NEW n \in SC, nvm[n].configured
        PROVE  HasArchived(n)
    <3>1. PICK d \in DOMAIN Installed \ {n} : TRUE
      BY <2>1, <2>3 DEF Init
    <3>2. d \in Unit
      BY <3>1, SubnetControllerAssumption DEF Unit
    <3>3. nvm[n].devices[d].known
      BY <2>1, <3>1, <3>2 DEF Init
    <3>4. QED
      BY <3>2, <3>3 DEF HasArchived
  <2>4. QED
    BY <2>2, <2>3 DEF ArchiveInv, AssignedIsArchived, HasArchived
<1>2. ArchiveInv => AssignedIsArchived
  BY DEF ArchiveInv
<1>3. QED
  BY <1>1, <1>2, ArchiveStep, TypeCorrect, PTL DEF Spec

-----------------------------------------------------------------------------
(* Frames on their way, as sets *)

LEMMA TailSubset ==
  ASSUME NEW S, NEW s \in Seq(S), s # <<>>
  PROVE  ToSet(Tail(s)) \subseteq ToSet(s)
<1>1. /\ DOMAIN s = 1..Len(s) /\ DOMAIN Tail(s) = 1..(Len(s) - 1)
      /\ Len(s) \in Nat \ {0}
      /\ \A i \in 1..(Len(s) - 1) : Tail(s)[i] = s[i + 1]
  OBVIOUS
<1>2. ASSUME NEW x \in ToSet(Tail(s))
      PROVE  x \in ToSet(s)
  <2>1. PICK i \in 1..(Len(s) - 1) : x = Tail(s)[i]
    BY <1>1, <1>2 DEF ToSet
  <2>2. i + 1 \in 1..Len(s) /\ x = s[i + 1]
    BY <1>1, <2>1
  <2>3. QED
    BY <1>1, <2>2 DEF ToSet
<1>3. QED
  BY <1>2

LEMMA AppendedSet ==
  ASSUME NEW S, NEW s \in Seq(S), NEW x \in S
  PROVE  ToSet(Append(s, x)) = ToSet(s) \cup {x}
<1>1. /\ <<x>> \in Seq(S) /\ Append(s, x) = s \o <<x>>
      /\ DOMAIN <<x>> = {1} /\ <<x>>[1] = x
  OBVIOUS
<1>2. ToSet(<<x>>) = {x}
  BY <1>1 DEF ToSet
<1>3. ToSet(s \o <<x>>) = ToSet(s) \cup ToSet(<<x>>)
  BY <1>1, ConcatSet
<1>4. QED
  BY <1>1, <1>2, <1>3, Zenon

\* What a send adds to the queues and to the acknowledges owed.
LEMMA SendAdds ==
  ASSUME TypeOK, NEW n \in SC, NEW fs \in Seq(Frame), Send(n, fs)
  PROVE  /\ queue'[n] = queue[n]
         /\ \A m \in SC : /\ ToSet(queue[m]) \subseteq ToSet(queue'[m])
                          /\ ToSet(queue'[m]) \subseteq ToSet(queue[m]) \cup ToSet(fs)
         /\ asked' = asked \cup Asked(n, fs)
<1>1. queue' = OnBus(n, fs, queue) /\ asked' = asked \cup Asked(n, fs)
  BY DEF Send, Given
<1>2. \A m \in SC : ToSet(queue[m] \o fs) = ToSet(queue[m]) \cup ToSet(fs)
  BY ConcatSet DEF TypeOK
<1>3. QED
  BY <1>1, <1>2 DEF OnBus

LEMMA ReplyAdds ==
  ASSUME TypeOK, NEW n \in SC, NEW fs \in Seq(Frame), queue[n] # <<>>, Reply(n, fs)
  PROVE  /\ queue'[n] = Tail(queue[n])
         /\ ToSet(queue'[n]) \subseteq ToSet(queue[n])
         /\ \A x \in ToSet(queue[n]) : x # Head(queue[n]) => x \in ToSet(queue'[n])
         /\ \A m \in SC \ {n} :
              /\ ToSet(queue[m]) \subseteq ToSet(queue'[m])
              /\ ToSet(queue'[m]) \subseteq ToSet(queue[m]) \cup ToSet(fs)
         /\ asked' = asked \cup Asked(n, fs)
<1>1. /\ queue' = OnBus(n, fs, [queue EXCEPT ![n] = Tail(@)])
      /\ asked' = asked \cup Asked(n, fs)
  BY DEF Reply, Given
<1>2. queue \in [SC -> Seq(Frame)]
  BY DEF TypeOK
<1>3. \A m \in SC : ToSet(queue[m] \o fs) = ToSet(queue[m]) \cup ToSet(fs)
  BY <1>2, ConcatSet
<1>4. ToSet(Tail(queue[n])) \subseteq ToSet(queue[n])
  BY <1>2, TailSubset
<1>5. queue'[n] = Tail(queue[n])
  BY <1>1, <1>2 DEF OnBus
<1>6. \A m \in SC \ {n} : queue'[m] \in {queue[m], queue[m] \o fs}
  BY <1>1, <1>2 DEF OnBus
<1>7. \A x \in ToSet(queue[n]) : x # Head(queue[n]) => x \in ToSet(Tail(queue[n]))
  BY <1>2, TailSet
<1>8. QED
  BY <1>1, <1>3, <1>4, <1>5, <1>6, <1>7

\* Frames about nobody or about an SC.
Foreign(fs) == \A f \in ToSet(fs) : f.dd \notin Dev

LEMMA ForeignAsksNobody ==
  ASSUME TypeOK, NEW n \in SC, NEW fs, Foreign(fs)
  PROVE  /\ Asked(n, fs) = {}
         /\ Send(n, fs) \/ Reply(n, fs) => holds' = holds
<1>1. Asked(n, fs) = {}
  BY DEF Foreign, Asked, TypeOK
<1>2. Given(n, fs) => holds' = holds
  BY <1>1 DEF Given, TypeOK
<1>3. QED
  BY <1>1, <1>2 DEF Send, Reply

LEMMA SingleSet == \A f : ToSet(<<f>>) = {f}
BY DEF ToSet

LEMMA ForeignFrames ==
  ASSUME NEW n \in SC, NEW t, NEW e
  PROVE  /\ Foreign(<<>>)
         /\ Foreign(<<Empty(t)>>)
         /\ Foreign(<<From(t, n)>>)
         /\ Foreign(<<Credentials(t, n)>>)
         /\ Foreign(<<FromDevice(t, n, e)>>)
<1>1. n \notin Dev /\ NoDD \notin Dev
  BY SubnetControllerAssumption
<1>2. /\ Empty(t).dd = NoDD /\ From(t, n).dd = n /\ Credentials(t, n).dd = n
      /\ FromDevice(t, n, e).dd = n
  BY DEF Empty, From, Credentials, FromDevice
<1>3. ToSet(<<>>) = {}
  BY DEF ToSet
<1>4. QED
  BY <1>1, <1>2, <1>3, SingleSet DEF Foreign

-----------------------------------------------------------------------------
(* Every type that a list, a child, an assignment or a frame holds for a      *)
(* device is one of the device's own.                                        *)

\* No type yet, or one of d's
Fits(d, e) == e = 0 \/ e \in Types(d)

\* A step that adds a stray seed only gives devices more types.
LEMMA TypesGrow ==
  ASSUME strays \subseteq strays'
  PROVE  \A d, e : e \in Types(d) => e \in Types(d)'
BY DEF Types

LEMMA TypesStay ==
  ASSUME UNCHANGED strays
  PROVE  \A d : Types(d)' = Types(d)
BY DEF Types

OwnFrame(f) ==
  f.dd \in Dev =>
    /\ Fits(f.dd, f.et)
    /\ f.type = "DEVICE_ASSIGNMENT_ACK" => f.et \in Types(f.dd)

FramesOwn ==
  /\ \A n \in SC : \A f \in ToSet(queue[n]) : OwnFrame(f)
  /\ \A o \in asked : o.et \in Types(o.dd)
  /\ \A d \in Dev : Fits(d, holds[d])

\* An SC on the device list has no type before it is assigned.
ListsOwn ==
  \A n \in SC :
    /\ \A d \in Dev : Fits(d, devRam[n][d].et)
    /\ \A u \in SC : devRam[n][u].status # "assigned" => devRam[n][u].et = 0
    /\ \A c \in children[n] : c.dd \in Dev => Fits(c.dd, c.et)

ArchivesOwn ==
  \A n \in SC, d \in Dev :
    IF nvm[n].devices[d].known THEN nvm[n].devices[d].et \in Types(d)
                               ELSE nvm[n].devices[d].et = 0

TypesInv == FramesOwn /\ ListsOwn /\ ArchivesOwn

LEMMA ForeignIsOwn ==
  ASSUME NEW f, f.dd \notin Dev
  PROVE  OwnFrame(f)
BY DEF OwnFrame

\* What is sent as a device's own arrives, and is acknowledged, as its own.
LEMMA SendOwn ==
  ASSUME TypeOK, FramesOwn, NEW n \in SC, NEW fs \in Seq(Frame),
         Send(n, fs) \/ (Reply(n, fs) /\ queue[n] # <<>>), UNCHANGED strays,
         \A f \in ToSet(fs) : OwnFrame(f)
  PROVE  FramesOwn'
<1>1. \A m \in SC : ToSet(queue'[m]) \subseteq ToSet(queue[m]) \cup ToSet(fs)
  BY SendAdds, ReplyAdds
<1>2. Given(n, fs)
  BY DEF Send, Reply
<1>3. ASSUME NEW o \in Asked(n, fs)
      PROVE  o.dd \in Dev /\ o.et \in Types(o.dd)
  <2>1. PICK g \in ToSet(fs) :
          g.dd \in Dev /\ g.et # 0 /\ o = [dd |-> g.dd, et |-> g.et]
    BY <1>3 DEF Asked, TypeOK
  <2>2. g.et \in Types(g.dd)
    BY <2>1 DEF OwnFrame, Fits
  <2>3. QED
    BY <2>1, <2>2
<1>4. \A m \in SC : \A f \in ToSet(queue'[m]) : OwnFrame(f)
  BY <1>1 DEF FramesOwn
<1>5. \A o \in asked' : o.et \in Types(o.dd)
  BY <1>2, <1>3 DEF FramesOwn, Given
<1>6. ASSUME NEW d \in Dev
      PROVE  Fits(d, holds'[d])
  <2>1. CASE \E o \in Asked(n, fs) : o.dd = d
    <3>1. PICK o \in Asked(n, fs) : o.dd = d /\ holds'[d] = o.et
      BY <1>2, <2>1 DEF Given
    <3>2. QED
      BY <1>3, <3>1 DEF Fits
  <2>2. CASE ~\E o \in Asked(n, fs) : o.dd = d
    BY <1>2, <2>2 DEF Given, FramesOwn
  <2>3. QED
    BY <2>1, <2>2
<1>7. QED
  BY <1>4, <1>5, <1>6, TypesStay DEF FramesOwn, OwnFrame, Fits

-----------------------------------------------------------------------------
(* Steps of the others leave what is under way for n's devices.              *)

Words(n) == {f \in ToSet(queue[n]) : f.type \in DeviceWord}

\* What keeps n's devices served: n has just queued a sweep of its whole list, or
\* it led before and lost nothing.
Carries(n) ==
  \/ Known(n) \subseteq sweep'[n]
  \/ /\ Leader(n)
     /\ ram'[n].verification = ram[n].verification
     /\ sweep[n] \subseteq sweep'[n]
     /\ children[n] \subseteq children'[n]
     /\ Words(n) \subseteq ToSet(queue'[n])

\* A step that says nothing new about devices: lists, archives and assignments
\* stay, but for what a crash forgets.
Plain ==
  /\ UNCHANGED <<asked, holds, strays>>
  /\ waits' \subseteq waits
  /\ NoSendFailed' => NoSendFailed
  /\ \A n \in SC :
       /\ nvm'[n].devices = nvm[n].devices
       /\ \A d \in Unit : devRam'[n][d] \in {devRam[n][d], NoDevice}
       /\ children'[n] \subseteq children[n]
       /\ \A f \in ToSet(queue'[n]) : f \in ToSet(queue[n]) \/ OwnFrame(f)
       /\ Leader(n)' => Carries(n)

LEMMA PlainKeepsTypes ==
  ASSUME TypesInv, Plain
  PROVE  TypesInv'
<1>1. FramesOwn'
  BY TypesStay DEF TypesInv, FramesOwn, Plain, OwnFrame, Fits
<1>2. ListsOwn'
  <2>1. SUFFICES ASSUME NEW n \in SC
                 PROVE  /\ \A d \in Dev : Fits(d, devRam'[n][d].et)
                        /\ \A u \in SC : devRam'[n][u].status # "assigned"
                                           => devRam'[n][u].et = 0
                        /\ \A c \in children'[n] : c.dd \in Dev => Fits(c.dd, c.et)
    BY TypesStay DEF ListsOwn, Fits, Plain
  <2>2. \A d \in Unit : devRam'[n][d] = devRam[n][d] \/ devRam'[n][d].et = 0
    BY DEF Plain, NoDevice
  <2>3. \A d \in Dev : Fits(d, devRam'[n][d].et)
    BY <2>2 DEF TypesInv, ListsOwn, Fits, Unit
  <2>4. \A u \in SC : devRam'[n][u].status # "assigned" => devRam'[n][u].et = 0
    BY <2>2 DEF TypesInv, ListsOwn, Unit
  <2>5. QED
    BY <2>3, <2>4 DEF TypesInv, ListsOwn, Plain
<1>3. ArchivesOwn'
  BY TypesStay DEF TypesInv, ArchivesOwn, Plain
<1>4. QED
  BY <1>1, <1>2, <1>3 DEF TypesInv

LEMMA PlainKeepsServed ==
  ASSUME TypeOK, WaitingIsServed, Plain
  PROVE  WaitingIsServed'
<1>1. SUFFICES ASSUME NoSendFailed', NoRivals, strays = {}, NEW n \in SC, Leader(n)',
                      NEW d \in waits, Waiting(n, d)', ~Stranger(n, d)'
               PROVE  Served(n, d)'
  BY TypesStay DEF WaitingIsServed, NoRivals, Plain
<1>2. d \in Unit
  BY DEF Unit, TypeOK
<1>3. devRam'[n][d] = devRam[n][d]
  BY <1>1, <1>2 DEF Plain, Waiting, Unfinished, NoDevice
<1>4. Waiting(n, d) /\ d \in Known(n)
  BY <1>1, <1>3 DEF Waiting, Unfinished, Known
<1>5. CASE Known(n) \subseteq sweep'[n]
  BY <1>4, <1>5 DEF Served
<1>6. CASE /\ Leader(n) /\ ram'[n].verification = ram[n].verification
           /\ sweep[n] \subseteq sweep'[n] /\ children[n] \subseteq children'[n]
           /\ Words(n) \subseteq ToSet(queue'[n])
  <2>1. ~Stranger(n, d)
    BY <1>1, <1>6 DEF Stranger, Plain
  <2>2. Served(n, d)
    BY <1>1, <1>4, <1>6, <2>1 DEF WaitingIsServed, Plain
  <2>3. QED
    BY <1>6, <2>2 DEF Served, Words, Plain
<1>7. QED
  BY <1>1, <1>5, <1>6 DEF Plain, Carries

-----------------------------------------------------------------------------
(* Plain steps *)

\* Nothing about devices changes, and whoever leads led before, in the same mode.
Steady ==
  /\ UNCHANGED <<devRam, children, strays>>
  /\ waits' \subseteq waits
  /\ NoSendFailed' => NoSendFailed
  /\ \A m \in SC : nvm'[m].devices = nvm[m].devices
  /\ \A m \in SC : Leader(m)' =>
       /\ Leader(m)
       /\ ram'[m].verification = ram[m].verification
       /\ sweep'[m] = sweep[m]

LEMMA QuietPlain ==
  ASSUME Steady, Quiet
  PROVE  Plain
BY DEF Steady, Quiet, Plain, Carries, Words

LEMMA SendPlain ==
  ASSUME TypeOK, Steady, NEW n \in SC, NEW fs \in Seq(Frame), Foreign(fs),
         Send(n, fs)
  PROVE  Plain
<1>1. /\ \A m \in SC : /\ ToSet(queue[m]) \subseteq ToSet(queue'[m])
                       /\ ToSet(queue'[m]) \subseteq ToSet(queue[m]) \cup ToSet(fs)
      /\ asked' = asked /\ holds' = holds
  BY SendAdds, ForeignAsksNobody
<1>2. \A f \in ToSet(fs) : OwnFrame(f)
  BY ForeignIsOwn DEF Foreign
<1>3. QED
  BY <1>1, <1>2 DEF Steady, Plain, Carries, Words

LEMMA ReplyPlain ==
  ASSUME TypeOK, Steady, NEW n \in SC, NEW fs \in Seq(Frame), Foreign(fs),
         queue[n] # <<>>, Reply(n, fs),
         Leader(n)' => Head(queue[n]).type \notin DeviceWord
  PROVE  Plain
<1>1. /\ ToSet(queue'[n]) \subseteq ToSet(queue[n])
      /\ \A x \in ToSet(queue[n]) : x # Head(queue[n]) => x \in ToSet(queue'[n])
      /\ \A m \in SC \ {n} :
           /\ ToSet(queue[m]) \subseteq ToSet(queue'[m])
           /\ ToSet(queue'[m]) \subseteq ToSet(queue[m]) \cup ToSet(fs)
      /\ asked' = asked /\ holds' = holds
  BY ReplyAdds, ForeignAsksNobody
<1>2. \A f \in ToSet(fs) : OwnFrame(f)
  BY ForeignIsOwn DEF Foreign
<1>3. \A m \in SC : \A f \in ToSet(queue'[m]) : f \in ToSet(queue[m]) \/ OwnFrame(f)
  BY <1>1, <1>2
<1>4. \A m \in SC : Leader(m)' => Words(m) \subseteq ToSet(queue'[m])
  BY <1>1 DEF Words
<1>5. QED
  BY <1>1, <1>3, <1>4 DEF Steady, Plain, Carries

LEMMA FlagsKeepMode ==
  ASSUME TypeOK, NEW n \in SC, NEW b \in BOOLEAN,
         \/ ram' = [ram EXCEPT ![n].declaration_sent = b]
         \/ ram' = [ram EXCEPT ![n].assignment_received = b]
  PROVE  \A m \in SC : ram'[m].verification = ram[m].verification
<1>1. ram \in [SC -> RamType]
  BY DEF TypeOK
<1>2. \A m \in SC \ {n} : ram'[m] = ram[m]
  BY <1>1
<1>3. ram'[n].verification = ram[n].verification
  BY <1>1 DEF RamType
<1>4. QED
  BY <1>2, <1>3

\* The frames that touch the device list or the archive
ListsDevice(n) ==
  YieldToCoordinator(n) \/ DeviceArrival(n) \/ AssignArrival(n) \/ RecordAck(n)

LEMMA ReceiveTouches ==
  ASSUME TypeOK, NEW n \in SC, Receive(n), ~ListsDevice(n)
  PROVE  /\ UNCHANGED <<devRam, children, sweep, nvm, waits, strays>>
         /\ \A m \in SC : ram'[m].verification = ram[m].verification
         /\ state[n] \in HeartbeatOut => Head(queue[n]).type \notin DeviceWord
         /\ \E fs \in Seq(Frame) : Foreign(fs) /\ Reply(n, fs)
<1> DEFINE Touches ==
      /\ UNCHANGED <<devRam, children, sweep, nvm, waits, strays>>
      /\ \A m \in SC : ram'[m].verification = ram[m].verification
      /\ state[n] \in HeartbeatOut => Head(queue[n]).type \notin DeviceWord
      /\ \E fs \in Seq(Frame) : Foreign(fs) /\ Reply(n, fs)
<1>1. ASSUME Take(n)
      PROVE  \E fs \in Seq(Frame) : Foreign(fs) /\ Reply(n, fs)
  BY <1>1, AnswerType, ForeignFrames DEF Take
<1>2. ASSUME NEW t \in FromSc,
             Reply(n, <<From(t, n)>>) \/ Reply(n, <<Credentials(t, n)>>)
      PROVE  \E fs \in Seq(Frame) : Foreign(fs) /\ Reply(n, fs)
  BY <1>2, AnswerType, ScFrameType, ForeignFrames
<1>3. CASE \/ ListStartup(n) \/ RecordDeclaration(n) \/ AlreadyDeclared(n)
           \/ FinishAsIsc(n) \/ RememberAsc(n) \/ ReenterAudit(n)
           \/ YieldToHeartbeat(n)
  BY <1>1, <1>3
     DEF ListStartup, RecordDeclaration, AlreadyDeclared, FinishAsIsc,
         RememberAsc, ReenterAudit, YieldToHeartbeat, Hears, node, lists, tasks,
         env, devs, DeviceWord
<1>4. CASE YieldToAsc(n) \/ YieldToBetter(n)
  <2>1. ram' = [ram EXCEPT ![n].declaration_sent = FALSE]
    BY <1>4 DEF YieldToAsc, YieldToBetter, EnterPassive
  <2>2. QED
    BY <1>1, <1>4, <2>1, FlagsKeepMode
       DEF YieldToAsc, YieldToBetter, Hears, lists, tasks, env, devs, DeviceWord
<1>5. CASE DropFrame(n)
  <2>1. \A s \in HeartbeatOut : DeviceWord \subseteq Handled[s]
    BY DEF HeartbeatOut, Handled, DeviceWord
  <2>2. QED
    BY <1>1, <1>5, <2>1 DEF DropFrame, Hears, node, lists, tasks,
         env, devs, DeviceWord
<1>6. CASE JoinStartup(n) \/ AbsorbStartup(n) \/ Reassert(n)
  BY <1>2, <1>6
     DEF JoinStartup, AbsorbStartup, Reassert, Hears, node, lists, tasks,
         env, devs, DeviceWord, FromSc
<1>7. CASE TakeToken(n) \/ AnswerHeartbeat(n)
  BY <1>2, <1>7
     DEF TakeToken, AnswerHeartbeat, Hears, node, lists, tasks,
         env, devs, DeviceWord, FromSc
<1>8. CASE AnswerDeclaration(n) \/ DeclareIfSilent(n)
  <2>1. ram' = [ram EXCEPT ![n].declaration_sent = TRUE]
    BY <1>8 DEF AnswerDeclaration, DeclareIfSilent, Declare
  <2>2. QED
    BY <1>2, <1>8, <2>1, FlagsKeepMode
       DEF AnswerDeclaration, DeclareIfSilent, Declare, Hears, lists, tasks,
           env, devs, DeviceWord, FromSc, HeartbeatOut
<1>9. CASE BecomeSoftDisabled(n) \/ BecomeInactive(n)
  <2>1. queue[n] # <<>> /\ n \in Unit
    BY <1>9 DEF BecomeSoftDisabled, BecomeInactive, Hears, Unit
  <2>2. FromDevice("DEVICE_ASSIGNMENT_ACK", n, Head(queue[n]).et) \in Frame
    BY <2>1, HeadType, UnitFrameType
  <2>3. \E fs \in Seq(Frame) : Foreign(fs) /\ Reply(n, fs)
    BY <1>9, <2>2, AnswerType, ForeignFrames
       DEF BecomeSoftDisabled, BecomeInactive, Acknowledge
  <2>4. ram' = [ram EXCEPT ![n].assignment_received = TRUE]
    BY <1>9 DEF BecomeSoftDisabled, BecomeInactive, Acknowledge
  <2>5. QED
    BY <1>9, <2>3, <2>4, FlagsKeepMode
       DEF BecomeSoftDisabled, BecomeInactive, Acknowledge, Hears, lists, tasks,
           env, devs, DeviceWord, HeartbeatOut
<1>10. CASE RepeatAlarm(n)
  <2>1. Empty("DEVICE_SOFT_DISABLE_ALARM") \in Frame
    BY EmptyType DEF Anonymous
  <2>2. QED
    BY <1>10, <2>1, AnswerType, ForeignFrames
       DEF RepeatAlarm, Hears, node, lists, tasks,
         env, devs, DeviceWord
<1>11. QED
  BY <1>3, <1>4, <1>5, <1>6, <1>7, <1>8, <1>9, <1>10 DEF Receive, ListsDevice

LEMMA ReceivePlain ==
  ASSUME TypeOK, NEW n \in SC, Receive(n), ~ListsDevice(n)
  PROVE  Plain
<1>1. PICK fs \in Seq(Frame) : Foreign(fs) /\ Reply(n, fs)
  BY ReceiveTouches
<1>2. \A m \in SC : Leader(m)' => Leader(m)
  BY ReceiveStays DEF Leader
<1>3. Steady
  BY <1>2, ReceiveTouches, ReceiveStays DEF Steady, NoSendFailed
<1>4. Leader(n)' => Head(queue[n]).type \notin DeviceWord
  BY <1>2, ReceiveTouches DEF Leader
<1>5. QED
  BY <1>1, <1>3, <1>4, ReceiveReplies, ReplyPlain

LEMMA StillLeading ==
  ASSUME TypeOK, NEW n \in SC, UNCHANGED <<ram, up, sweep>>,
         \A m \in SC \ {n} : state'[m] = state[m],
         state'[n] \in HeartbeatOut => state[n] \in HeartbeatOut
  PROVE  \A m \in SC : Leader(m)' =>
           /\ Leader(m)
           /\ ram'[m].verification = ram[m].verification
           /\ sweep'[m] = sweep[m]
BY DEF Leader

\* A step of n after which n does not lead; the others keep their memory.
LEMMA NotLeadingNow ==
  ASSUME TypeOK, NEW n \in SC, UNCHANGED sweep, state'[n] \notin HeartbeatOut,
         \A m \in SC \ {n} : state'[m] = state[m] /\ ram'[m] = ram[m] /\ up'[m] = up[m]
  PROVE  \A m \in SC : Leader(m)' =>
           /\ Leader(m)
           /\ ram'[m].verification = ram[m].verification
           /\ sweep'[m] = sweep[m]
BY DEF Leader

LEMMA TimerPlain ==
  ASSUME TypeOK, NEW n \in SC, Timer(n)
  PROVE  Plain
<1>1. Steady
  <2>1. CASE StartupDelay(n) \/ ArbitrationWindow(n)
    BY <2>1, NotLeadingNow
       DEF StartupDelay, ArbitrationWindow, EnterAudit, Goto, TypeOK, Steady,
           HeartbeatOut, NoSendFailed, lists, tasks, env, devs
  <2>2. CASE TokenAckWindow(n) \/ PassiveDeadline(n)
    <3>1. NoSendFailed' => NoSendFailed
      BY <2>2 DEF TokenAckWindow, PassiveDeadline, Spend, NoSendFailed, TypeOK, env, devs
    <3>2. QED
      BY <2>2, <3>1, NotLeadingNow
         DEF TokenAckWindow, PassiveDeadline, EnterAudit, EnterPreStartup, Goto,
             TypeOK, Steady, HeartbeatOut, lists, tasks, env, devs
  <2>3. QED
    BY <2>1, <2>2 DEF Timer
<1>2. CASE StartupDelay(n)
  BY <1>1, <1>2, SendPlain, AnswerType, ScFrameType, ForeignFrames
     DEF StartupDelay, FromSc
<1>3. CASE ArbitrationWindow(n)
  BY <1>1, <1>3, SendPlain, AnswerType, ScFrameType, ForeignFrames
     DEF ArbitrationWindow, FromSc
<1>4. CASE TokenAckWindow(n) \/ PassiveDeadline(n)
  BY <1>1, <1>4, QuietPlain DEF TokenAckWindow, PassiveDeadline
<1>5. QED
  BY <1>2, <1>3, <1>4 DEF Timer

LEMMA TakeLeadPlain ==
  ASSUME TypeOK, NEW n \in SC, TakeLead(n)
  PROVE  Plain
<1> DEFINE fs == <<From("aSC_HEARTBEAT", n), Empty("SC_READY_TO_TAKE_OVER")>>
<1>1. fs \in Seq(Frame)
  BY ScFrameType, EmptyType DEF FromSc, Anonymous
<1>2. Foreign(fs)
  <2>1. ToSet(fs) = {From("aSC_HEARTBEAT", n), Empty("SC_READY_TO_TAKE_OVER")}
    BY DEF ToSet
  <2>2. n \notin Dev /\ NoDD \notin Dev
    BY SubnetControllerAssumption
  <2>3. QED
    BY <2>1, <2>2 DEF Foreign, From, Empty
<1>3. Send(n, fs)
  BY DEF TakeLead
<1> HIDE DEF fs
<1>4. /\ \A m \in SC : /\ ToSet(queue[m]) \subseteq ToSet(queue'[m])
                       /\ ToSet(queue'[m]) \subseteq ToSet(queue[m]) \cup ToSet(fs)
      /\ asked' = asked /\ holds' = holds
  BY <1>1, <1>2, <1>3, SendAdds, ForeignAsksNobody
<1>5. \A f \in ToSet(fs) : OwnFrame(f)
  BY <1>2, ForeignIsOwn DEF Foreign
<1>6. /\ UNCHANGED <<devRam, children, nvm, up, budget, waits, strays>>
      /\ Known(n) \subseteq sweep'[n]
      /\ \A m \in SC \ {n} : /\ state'[m] = state[m] /\ ram'[m] = ram[m]
                             /\ sweep'[m] = sweep[m]
  BY DEF TakeLead, Goto, TypeOK, lists, env, devs
<1>7. \A m \in SC : Leader(m)' => Carries(m)
  BY <1>4, <1>6 DEF Carries, Leader, Words
<1>8. QED
  BY <1>4, <1>5, <1>6, <1>7 DEF Plain, NoSendFailed

LEMMA NvmFlags ==
  ASSUME TypeOK, NEW n \in SC, NEW b \in BOOLEAN,
         \/ nvm' = [nvm EXCEPT ![n].configured = b]
         \/ nvm' = [nvm EXCEPT ![n].hard_disabled = b]
  PROVE  \A m \in SC : nvm'[m].devices = nvm[m].devices
<1>1. nvm \in [SC -> NvmType]
  BY DEF TypeOK
<1>2. \A m \in SC \ {n} : nvm'[m] = nvm[m]
  BY <1>1
<1>3. nvm'[n].devices = nvm[n].devices
  BY <1>1 DEF NvmType
<1>4. QED
  BY <1>2, <1>3

LEMMA ScheduledPlain ==
  ASSUME TypeOK, NEW n \in SC, Scheduled(n)
  PROVE  Plain
<1>1. CASE IuResetDetected(n)
  BY <1>1, NotLeadingNow, QuietPlain
     DEF IuResetDetected, EnterAudit, Goto, TypeOK, Steady, HeartbeatOut,
         NoSendFailed, lists, env, devs
<1>2. CASE PassToken(n)
  <2>1. Steady
    BY <1>2, NotLeadingNow
       DEF PassToken, Goto, TypeOK, Steady, HeartbeatOut, NoSendFailed, lists, env, devs
  <2>2. <<Empty("SC_TOKEN_PASS")>> \in Seq(Frame)
    BY EmptyType DEF Anonymous
  <2>3. QED
    BY <1>2, <2>1, <2>2, SendPlain, ForeignFrames DEF PassToken
<1>3. CASE AssignmentPhaseComplete(n)
  <2>1. Steady
    <3>1. /\ \A m \in SC \ {n} : state'[m] = state[m]
          /\ state[n] \in HeartbeatOut
      BY <1>3 DEF AssignmentPhaseComplete, Goto, TypeOK
    <3>2. \A m \in SC : nvm'[m].devices = nvm[m].devices
      BY <1>3, NvmFlags DEF AssignmentPhaseComplete
    <3>3. QED
      BY <1>3, <3>1, <3>2, StillLeading
         DEF AssignmentPhaseComplete, Steady, NoSendFailed, lists, env, devs
  <2>2. <<Empty("SC_CONFIGURATION_FINISHED")>> \in Seq(Frame)
    BY EmptyType DEF Anonymous
  <2>3. QED
    BY <1>3, <2>1, <2>2, SendPlain, ForeignFrames DEF AssignmentPhaseComplete
<1>4. CASE HopToHardDisabled(n)
  <2>1. \A m \in SC : nvm'[m].devices = nvm[m].devices
    BY <1>4, NvmFlags DEF HopToHardDisabled, EnterHardDisabled
  <2>2. QED
    BY <1>4, <2>1, NotLeadingNow, QuietPlain
       DEF HopToHardDisabled, EnterHardDisabled, Goto, TypeOK, Steady,
           HeartbeatOut, NoSendFailed, lists, env, devs
<1>5. CASE HardEnableApply(n)
  BY <1>5, NotLeadingNow, QuietPlain
     DEF HardEnableApply, EnterPreStartup, Goto, TypeOK, Steady, HeartbeatOut,
         NoSendFailed, lists, env, devs
<1>6. ASSUME NEW e \in SelfEvent, DropEvent(n, e)
      PROVE  Plain
  BY <1>6, StillLeading, QuietPlain
     DEF DropEvent, Steady, NoSendFailed, node, lists, env, devs
<1>7. QED
  BY <1>1, <1>2, <1>3, <1>4, <1>5, <1>6, TakeLeadPlain DEF Scheduled

LEMMA TaskPlain ==
  ASSUME TypeOK, NEW n \in SC, AuditStep(n) \/ HeartbeatPeriod(n)
  PROVE  Plain
<1>1. Steady
  BY StillLeading
     DEF AuditStep, AuditQuery, AuditFinished, HeartbeatPeriod, Steady,
         NoSendFailed, node, lists, tasks, env, devs
<1>2. CASE AuditQuery(n)
  <2>1. <<Empty("SC_QUERY")>> \in Seq(Frame)
    BY EmptyType DEF Anonymous
  <2>2. QED
    BY <1>1, <1>2, <2>1, SendPlain, ForeignFrames DEF AuditQuery
<1>3. CASE AuditFinished(n)
  BY <1>1, <1>3, QuietPlain DEF AuditFinished
<1>4. CASE HeartbeatPeriod(n)
  BY <1>1, <1>4, SendPlain, AnswerType, ScFrameType, ForeignFrames
     DEF HeartbeatPeriod, FromSc
<1>5. QED
  BY <1>2, <1>3, <1>4 DEF AuditStep

LEMMA BootPlain ==
  ASSUME TypeOK, NEW n \in SC, Boot(n)
  PROVE  Plain
BY NotLeadingNow, QuietPlain
   DEF Boot, EnterPreStartup, Goto, TypeOK, Steady, HeartbeatOut, NoSendFailed,
       Quiet, lists, devs

\* A crash forgets the list and everything under way for it.
LEMMA CrashPlain ==
  ASSUME TypeOK, NEW n \in SC, Crash(n)
  PROVE  Plain
<1>1. /\ UNCHANGED <<asked, holds, nvm, waits, strays>> /\ ~up'[n]
      /\ budget'.fault = budget.fault
  BY DEF Crash, Spend, TypeOK, devs
<1>2. /\ devRam'[n] = [d \in Unit |-> NoDevice] /\ children'[n] = {}
      /\ queue'[n] = <<>>
  BY DEF Crash, TypeOK
<1>3. \A m \in SC \ {n} :
        /\ devRam'[m] = devRam[m] /\ children'[m] = children[m]
        /\ queue'[m] = queue[m] /\ sweep'[m] = sweep[m] /\ up'[m] = up[m]
        /\ state'[m] = state[m] /\ ram'[m] = ram[m]
  BY DEF Crash, Goto, TypeOK
<1>4. ToSet(queue'[n]) = {}
  BY <1>2 DEF ToSet
<1>5. \A m \in SC : Leader(m)' => Carries(m)
  BY <1>1, <1>3 DEF Leader, Carries, Words
<1>6. QED
  BY <1>1, <1>2, <1>3, <1>4, <1>5 DEF Plain, NoSendFailed

LEMMA EnvironmentPlain ==
  ASSUME TypeOK, FaultsCounted, NEW n \in SC, Environment(n)
  PROVE  Plain
<1>1. CASE LinkFail(n)
  <2>1. ~NoSendFailed'
    BY <1>1, SubnetControllerAssumption
       DEF LinkFail, Spend, TypeOK, FaultsCounted, NoSendFailed
  <2>2. QED
    BY <1>1, <2>1, StillLeading, QuietPlain
       DEF LinkFail, Steady, Quiet, node, lists, tasks,
           devs
<1>2. CASE LinkRestore(n)
  BY <1>2, StillLeading, QuietPlain
     DEF LinkRestore, Steady, Quiet, NoSendFailed, node, lists, tasks,
           devs
<1>3. CASE HardDisable(n) \/ Malfunction(n) \/ HardEnable(n)
  <2>1. \A m \in SC : nvm'[m].devices = nvm[m].devices
    BY <1>3, NvmFlags DEF HardDisable, Malfunction, HardEnable, EnterHardDisabled
  <2>2. NoSendFailed' => NoSendFailed
    BY <1>3 DEF HardDisable, Malfunction, HardEnable, Spend, NoSendFailed, TypeOK
  <2>3. /\ \A m \in SC \ {n} : state'[m] = state[m]
        /\ state'[n] \notin HeartbeatOut
    BY <1>3 DEF HardDisable, Malfunction, HardEnable, EnterHardDisabled, Goto,
                TypeOK, HeartbeatOut, node
  <2>4. QED
    BY <1>3, <2>1, <2>2, <2>3, NotLeadingNow, QuietPlain
       DEF HardDisable, Malfunction, HardEnable, Steady, Quiet, node, lists, tasks,
           devs
<1>4. CASE Reset(n) \/ SoftDisable(n)
  <2>1. NoSendFailed' => NoSendFailed
    BY <1>4 DEF Reset, SoftDisable, Spend, NoSendFailed, TypeOK
  <2>2. QED
    BY <1>4, <2>1, NotLeadingNow, QuietPlain
       DEF Reset, SoftDisable, EnterPreStartup, EnterSoftDisabled, Goto, TypeOK,
           HeartbeatOut, Steady, Quiet, lists, tasks,
           devs
<1>5. QED
  BY <1>1, <1>2, <1>3, <1>4, CrashPlain DEF Environment

-----------------------------------------------------------------------------
(* The steps that add to the lists: types *)

\* The sender of a frame, as a device.
LEMMA SenderOwn ==
  ASSUME TypeOK, FramesOwn, NEW n \in SC, queue[n] # <<>>
  PROVE  OwnFrame(Head(queue[n]))
<1>1. Head(queue[n]) \in ToSet(queue[n])
  <2>1. /\ DOMAIN queue[n] = 1..Len(queue[n]) /\ Head(queue[n]) = queue[n][1]
        /\ 1 \in 1..Len(queue[n])
    BY DEF TypeOK
  <2>2. QED
    BY <2>1 DEF ToSet
<1>2. QED
  BY <1>1 DEF FramesOwn

\* A new entry for d that fits d.
LEMMA EntryOwn ==
  ASSUME TypeOK, ListsOwn, NEW n \in SC, NEW d \in Unit, NEW entry \in DeviceEntry,
         devRam' = [devRam EXCEPT ![n][d] = entry],
         d \in Dev => Fits(d, entry.et),
         d \in SC /\ entry.status # "assigned" => entry.et = 0,
         NEW C \in SUBSET [dd : Unit, et : Nat],
         \A m \in SC : children'[m] \subseteq children[m] \cup C,
         \A c \in C : c.dd \in Dev => Fits(c.dd, c.et), UNCHANGED strays
  PROVE  ListsOwn'
<1>1. \A m \in SC, k \in Unit :
        devRam'[m][k] = IF m = n /\ k = d THEN entry ELSE devRam[m][k]
  BY DEF TypeOK
<1>2. \A m \in SC : \A k \in Dev : Fits(k, devRam'[m][k].et)
  BY <1>1 DEF ListsOwn, Unit
<1>3. \A m \in SC : \A u \in SC : devRam'[m][u].status # "assigned"
                                    => devRam'[m][u].et = 0
  BY <1>1 DEF ListsOwn, Unit
<1>4. \A m \in SC : \A c \in children'[m] : c.dd \in Dev => Fits(c.dd, c.et)
  BY DEF ListsOwn
<1>5. QED
  BY <1>2, <1>3, <1>4, TypesStay DEF ListsOwn, Fits

LEMMA ArrivalTypes ==
  ASSUME TypeOK, TypesInv, NEW n \in SC, YieldToCoordinator(n) \/ DeviceArrival(n)
  PROVE  TypesInv'
<1> DEFINE d == Sender(n)
           e == IF DeviceArrival(n) THEN Head(queue[n]).et ELSE 0
           entry == Announced(devRam[n][d], e)
<1>1. queue[n] # <<>> /\ d \in Unit /\ e \in Nat /\ (DeviceArrival(n) => d \in Dev)
  BY HeadType DEF YieldToCoordinator, DeviceArrival, Hears, Designators,
                  Anonymous, FromSc, Unit
<1>2. entry \in DeviceEntry
  <2>1. devRam[n][d] \in DeviceEntry
    BY <1>1 DEF TypeOK
  <2>2. QED
    BY <1>1, <2>1, DeviceType
<1>3. d \in Dev => Fits(d, e)
  BY <1>1, SenderOwn DEF TypesInv, OwnFrame, Fits, Sender
<1>4. devRam' = [devRam EXCEPT ![n][d] = entry]
  BY <1>1 DEF YieldToCoordinator, DeviceArrival, Hears, TypeOK
<1>5. d \in Dev => Fits(d, entry.et)
  BY <1>3 DEF TypesInv, ListsOwn, Announced, Fits
<1>6. d \in SC /\ entry.status # "assigned" => entry.et = 0
  <2>1. d \in SC => e = 0
    BY <1>1, SubnetControllerAssumption
  <2>2. QED
    BY <2>1 DEF TypesInv, ListsOwn, Announced
<1>7. UNCHANGED <<children, nvm, strays>> /\ Take(n)
  BY DEF YieldToCoordinator, DeviceArrival, tasks, env, devs
<1> HIDE DEF d, e, entry
<1>8. ListsOwn'
  <2>1. {} \in SUBSET [dd : Unit, et : Nat]
    OBVIOUS
  <2>2. QED
    BY <1>1, <1>2, <1>4, <1>5, <1>6, <1>7, <2>1, EntryOwn DEF TypesInv
<1>9. FramesOwn'
  BY <1>1, <1>7, AnswerType, ForeignFrames, ForeignIsOwn, SendOwn
     DEF Take, TypesInv, Foreign
<1>10. ArchivesOwn'
  BY <1>7, TypesStay DEF TypesInv, ArchivesOwn
<1>11. QED
  BY <1>8, <1>9, <1>10 DEF TypesInv

LEMMA AssignFramesSet ==
  ASSUME TypeOK, NEW n \in SC, NEW d \in Unit
  PROVE  /\ \A f \in ToSet(AssignFrames(n, d)) :
              \/ f.dd \in {n, NoDD}
              \/ f = Assignment(d, 0, FALSE)
              \/ Archived(n, d) /\ f = Assignment(d, nvm[n].devices[d].et, soft[n])
         /\ Archived(n, d) => Assignment(d, nvm[n].devices[d].et, soft[n])
                                \in ToSet(AssignFrames(n, d))
<1> DEFINE h == From("aSC_HEARTBEAT", n)
           a == Assignment(d, 0, FALSE)
           b == Assignment(d, nvm[n].devices[d].et, soft[n])
           c == Empty("DEVICE_SOFT_DISABLE_ALARM")
<1>1. h \in Frame /\ a \in Frame /\ c \in Frame
  BY ScFrameType, UnitFrameType, EmptyType DEF FromSc, Anonymous
<1>2. b \in Frame
  <2>1. nvm[n].devices[d].et \in Nat /\ soft[n] \in BOOLEAN
    BY DEF TypeOK, NvmType, Archive
  <2>2. QED
    BY <2>1, UnitFrameType
<1>3. h.dd = n /\ c.dd = NoDD
  BY DEF From, Empty
<1>4. AssignFrames(n, d) = <<h>> \o CASE Stranger(n, d) -> <<a, c>>
                                      [] Archived(n, d) -> <<b>>
                                      [] OTHER          -> <<>>
  BY DEF AssignFrames
<1> HIDE DEF h, a, b, c
<1>5. /\ ToSet(<<h>>) = {h} /\ ToSet(<<a, c>>) = {a, c} /\ ToSet(<<b>>) = {b}
      /\ ToSet(<<>>) = {}
  BY DEF ToSet
<1>6. /\ <<h>> \in Seq(Frame) /\ <<a, c>> \in Seq(Frame) /\ <<b>> \in Seq(Frame)
      /\ <<>> \in Seq(Frame)
  BY <1>1, <1>2
<1>7. /\ ToSet(<<h>> \o <<a, c>>) = ToSet(<<h>>) \cup ToSet(<<a, c>>)
      /\ ToSet(<<h>> \o <<b>>) = ToSet(<<h>>) \cup ToSet(<<b>>)
      /\ ToSet(<<h>> \o <<>>) = ToSet(<<h>>) \cup ToSet(<<>>)
  BY <1>6, ConcatSet
<1>8. CASE Stranger(n, d)
  <2>1. AssignFrames(n, d) = <<h>> \o <<a, c>> /\ ~Archived(n, d)
    BY <1>4, <1>8 DEF Archived
  <2>2. ToSet(AssignFrames(n, d)) = {h} \cup {a, c}
    BY <1>5, <1>7, <2>1, Zenon
  <2>3. QED
    BY <1>3, <2>1, <2>2 DEF a
<1>9. CASE ~Stranger(n, d) /\ Archived(n, d)
  <2>1. AssignFrames(n, d) = <<h>> \o <<b>>
    BY <1>4, <1>9
  <2>2. ToSet(AssignFrames(n, d)) = {h} \cup {b}
    BY <1>5, <1>7, <2>1, Zenon
  <2>3. QED
    BY <1>3, <1>9, <2>2 DEF b
<1>10. CASE ~Stranger(n, d) /\ ~Archived(n, d)
  <2>1. AssignFrames(n, d) = <<h>> \o <<>>
    BY <1>4, <1>10
  <2>2. ToSet(AssignFrames(n, d)) = {h} \cup {}
    BY <1>5, <1>7, <2>1, Zenon
  <2>3. QED
    BY <1>3, <1>10, <2>2
<1>11. QED
  BY <1>8, <1>9, <1>10

\* assign_et_si_for_device says of d only what is d's.
LEMMA AssignFramesOwn ==
  ASSUME TypeOK, TypesInv, NEW n \in SC, NEW d \in Unit
  PROVE  \A f \in ToSet(AssignFrames(n, d)) : OwnFrame(f)
<1>1. ASSUME NEW e \in Nat, NEW s \in BOOLEAN, d \in Dev => Fits(d, e)
      PROVE  OwnFrame(Assignment(d, e, s))
  BY <1>1 DEF Assignment, FromDevice, From, Empty, OwnFrame, Fits
<1>2. OwnFrame(Assignment(d, 0, FALSE))
  BY <1>1 DEF Fits
<1>3. Archived(n, d) => OwnFrame(Assignment(d, nvm[n].devices[d].et, soft[n]))
  <2>1. nvm[n].devices[d].et \in Nat /\ soft[n] \in BOOLEAN
    BY DEF TypeOK, NvmType, Archive
  <2>2. d \in Dev => Fits(d, nvm[n].devices[d].et)
    BY DEF TypesInv, ArchivesOwn, Fits
  <2>3. QED
    BY <1>1, <2>1, <2>2
<1>4. n \notin Dev /\ NoDD \notin Dev
  BY SubnetControllerAssumption
<1>5. QED
  BY <1>2, <1>3, <1>4, AssignFramesSet, ForeignIsOwn

LEMMA AssignTypes ==
  ASSUME TypeOK, TypesInv, NEW n \in SC, NEW d \in Unit, NEW e \in Nat,
         d \in Dev => Fits(d, e), d \in SC => e = devRam[n][d].et,
         AssignEtSi(n, d, e), UNCHANGED <<nvm, strays>>,
         \/ Send(n, AssignFrames(n, d))
         \/ Reply(n, AssignFrames(n, d)) /\ queue[n] # <<>>
  PROVE  TypesInv'
<1> DEFINE entry == IF d \in Known(n) THEN devRam[n][d] ELSE Announced(NoDevice, e)
<1>1. entry \in DeviceEntry
  <2>1. devRam[n][d] \in DeviceEntry
    BY DEF TypeOK
  <2>2. QED
    BY <2>1, DeviceType
<1>2. /\ devRam' = [devRam EXCEPT ![n][d] = entry]
      /\ children' = [children EXCEPT ![n] =
           IF Stranger(n, d) \/ Archived(n, d)
             THEN @ ELSE @ \cup {[dd |-> d, et |-> entry.et]}]
  BY DEF AssignEtSi
<1>3. d \in Dev => Fits(d, entry.et)
  BY DEF TypesInv, ListsOwn, Announced, NoDevice, Fits
<1>4. d \in SC /\ entry.status # "assigned" => entry.et = 0
  BY DEF TypesInv, ListsOwn, Announced, NoDevice, Known
<1> HIDE DEF entry
<1>5. ListsOwn'
  <2>1. entry.et \in Nat
    BY <1>1 DEF DeviceEntry
  <2>2. {[dd |-> d, et |-> entry.et]} \in SUBSET [dd : Unit, et : Nat]
    BY <2>1
  <2>3. \A m \in SC : children'[m] \subseteq
                        children[m] \cup {[dd |-> d, et |-> entry.et]}
    BY <1>2 DEF TypeOK
  <2>4. \A c \in {[dd |-> d, et |-> entry.et]} : c.dd \in Dev => Fits(c.dd, c.et)
    BY <1>3
  <2>5. ListsOwn /\ devRam' = [devRam EXCEPT ![n][d] = entry]
    BY <1>2 DEF TypesInv
  <2>6. QED
    BY <1>1, <1>3, <1>4, <2>2, <2>3, <2>4, <2>5, EntryOwn
<1>6. FramesOwn'
  BY AssignFramesType, AssignFramesOwn, SendOwn DEF TypesInv
<1>7. ArchivesOwn'
  BY TypesStay DEF TypesInv, ArchivesOwn
<1>8. QED
  BY <1>5, <1>6, <1>7 DEF TypesInv

LEMMA ChildTypes ==
  ASSUME TypeOK, TypesInv, NEW n \in SC, NEW c \in children[n], ChildSeeded(n, c)
  PROVE  TypesInv'
<1>1. c \in [dd : Unit, et : Nat]
  BY DEF TypeOK
<1>2. PICK fs \in {<<>>, <<Assignment(c.dd, c.et, FALSE)>>} :
        Send(n, fs) /\ UNCHANGED strays
  BY DEF ChildSeeded, env, devs
<1>3. Assignment(c.dd, c.et, FALSE) \in Frame
  BY <1>1, UnitFrameType
<1>4. fs \in Seq(Frame)
  BY <1>2, <1>3, AnswerType
<1>5. OwnFrame(Assignment(c.dd, c.et, FALSE))
  BY DEF TypesInv, ListsOwn, OwnFrame, Assignment, FromDevice, From, Empty
<1>6. \A f \in ToSet(fs) : OwnFrame(f)
  <2>1. ToSet(<<>>) = {}
    BY DEF ToSet
  <2>2. ToSet(<<Assignment(c.dd, c.et, FALSE)>>) = {Assignment(c.dd, c.et, FALSE)}
    BY SingleSet, Zenon
  <2>3. QED
    BY <1>2, <1>5, <2>1, <2>2
<1>7. FramesOwn'
  BY <1>2, <1>4, <1>6, SendOwn DEF TypesInv
<1>8. /\ UNCHANGED <<devRam, nvm>>
      /\ \A m \in SC : children'[m] \subseteq children[m]
  BY DEF ChildSeeded, lists, TypeOK
<1>9. ListsOwn' /\ ArchivesOwn'
  BY <1>2, <1>8, TypesStay DEF TypesInv, ListsOwn, ArchivesOwn, Fits
<1>10. QED
  BY <1>7, <1>9 DEF TypesInv

\* A child that takes another device's announcement may give its own device the
\* other's type, which strays records; its own device's announcement may not.
LEMMA StrayTypes ==
  ASSUME TypeOK, TypesInv, NEW n \in SC, NEW c \in children[n], StraySeed(n, c)
  PROVE  TypesInv'
<1> DEFINE f == Head(queue[n])
<1>1. queue[n] # <<>> /\ f.et \in Nat
  BY HeadType DEF StraySeed, Hears, TypeOK
<1>2. PICK taken : /\ taken = [c EXCEPT !.et = f.et]
                   /\ children' = [children EXCEPT ![n] = (@ \ {c}) \cup {taken}]
                   /\ strays' = IF f.dd = c.dd THEN strays ELSE strays \cup {taken}
  BY DEF StraySeed
<1>3. UNCHANGED <<queue, asked, holds, devRam, nvm>>
  BY DEF StraySeed, Quiet, lists
<1>4. taken.dd = c.dd /\ taken.et = f.et
  BY <1>1, <1>2 DEF TypeOK
<1>5. OwnFrame(f)
  BY <1>1, SenderOwn DEF TypesInv
<1> HIDE DEF f
<1>6. \A d, e : e \in Types(d) => e \in Types(d)'
  BY <1>2, TypesGrow
<1>7. \A d, e : Fits(d, e) => (e = 0 \/ e \in Types(d)')
  BY <1>6 DEF Fits
<1>8. taken.dd \in Dev => (taken.et = 0 \/ taken.et \in Types(taken.dd)')
  <2>1. CASE f.dd = c.dd
    BY <1>4, <1>5, <1>7, <2>1 DEF OwnFrame
  <2>2. CASE f.dd # c.dd
    BY <1>2, <2>2 DEF Types
  <2>3. QED
    BY <2>1, <2>2
<1>9. ListsOwn'
  <2>1. \A m \in SC : \A k \in children'[m] : k \in children[m] \/ k = taken
    BY <1>2 DEF TypeOK
  <2>2. QED
    BY <1>3, <1>7, <1>8, <2>1 DEF TypesInv, ListsOwn, Fits
<1>10. FramesOwn'
  BY <1>3, <1>6, <1>7 DEF TypesInv, FramesOwn, OwnFrame, Fits
<1>11. ArchivesOwn'
  BY <1>3, <1>6 DEF TypesInv, ArchivesOwn
<1>12. QED
  BY <1>9, <1>10, <1>11 DEF TypesInv

\* record_assignment_ack archives the type that its sender acknowledged.
LEMMA AckTypes ==
  ASSUME TypeOK, TypesInv, NEW n \in SC, RecordAck(n)
  PROVE  TypesInv'
<1> DEFINE d == Sender(n)
           e == Head(queue[n]).et
           entry == Recorded(devRam[n][d], e)
<1>1. queue[n] # <<>> /\ d \in Unit /\ e \in Nat
  BY HeadType DEF RecordAck, Hears, Designators, Anonymous, FromSc, Unit
<1>2. devRam[n][d] \in DeviceEntry /\ entry \in DeviceEntry
  <2>1. devRam[n][d] \in DeviceEntry
    BY <1>1 DEF TypeOK
  <2>2. QED
    BY <1>1, <2>1, DeviceType
<1>3. d \in Dev => e \in Types(d)
  BY <1>1, SenderOwn DEF RecordAck, Hears, TypesInv, OwnFrame, Sender
<1>4. d \in Dev => entry.et \in Types(d)
  BY <1>3 DEF TypesInv, ListsOwn, Fits, Recorded, Announced
<1>5. entry.status = "assigned"
  BY DEF Recorded, Announced
<1>6. \/ UNCHANGED <<devRam, nvm>>
      \/ /\ devRam' = [devRam EXCEPT ![n][d] = entry]
         /\ nvm' = [nvm EXCEPT ![n].devices[d] = [known |-> TRUE, et |-> entry.et]]
  BY DEF RecordAck
<1>7. Take(n) /\ UNCHANGED <<children, strays>>
  BY DEF RecordAck, env, devs
<1> HIDE DEF d, e, entry
<1>8. FramesOwn'
  BY <1>1, <1>7, AnswerType, ForeignFrames, ForeignIsOwn, SendOwn
     DEF Take, TypesInv, Foreign
<1>9. CASE UNCHANGED <<devRam, nvm>>
  BY <1>7, <1>8, <1>9, TypesStay DEF TypesInv, ListsOwn, ArchivesOwn, Fits
<1>10. CASE /\ devRam' = [devRam EXCEPT ![n][d] = entry]
            /\ nvm' = [nvm EXCEPT ![n].devices[d] =
                                     [known |-> TRUE, et |-> entry.et]]
  <2>1. ListsOwn'
    <3>1. {} \in SUBSET [dd : Unit, et : Nat]
      OBVIOUS
    <3>2. d \in Dev => Fits(d, entry.et)
      BY <1>4 DEF Fits
    <3>3. QED
      BY <1>1, <1>2, <1>5, <1>7, <1>10, <3>1, <3>2, EntryOwn DEF TypesInv
  <2>2. \A m \in SC, k \in Unit : nvm'[m].devices[k] =
          IF m = n /\ k = d THEN [known |-> TRUE, et |-> entry.et]
                            ELSE nvm[m].devices[k]
    <3>1. nvm \in [SC -> NvmType] /\ nvm[n].devices \in [Unit -> Archive]
      BY DEF TypeOK, NvmType
    <3>2. \A m \in SC \ {n} : nvm'[m] = nvm[m]
      BY <1>10, <3>1
    <3>3. nvm'[n].devices = [nvm[n].devices EXCEPT ![d] =
                               [known |-> TRUE, et |-> entry.et]]
      BY <1>10, <3>1 DEF NvmType
    <3>4. QED
      BY <3>1, <3>2, <3>3
  <2>3. ArchivesOwn'
    <3>1. ASSUME NEW m \in SC, NEW k \in Dev
          PROVE  IF nvm'[m].devices[k].known THEN nvm'[m].devices[k].et \in Types(k)
                                             ELSE nvm'[m].devices[k].et = 0
      <4>1. k \in Unit
        BY DEF Unit
      <4>2. CASE m = n /\ k = d
        BY <1>4, <2>2, <4>1, <4>2
      <4>3. CASE ~(m = n /\ k = d)
        <5>1. nvm'[m].devices[k] = nvm[m].devices[k]
          BY <2>2, <4>1, <4>3
        <5>2. QED
          BY <5>1 DEF TypesInv, ArchivesOwn
      <4>4. QED
        BY <4>2, <4>3
    <3>2. QED
      BY <1>7, <3>1, TypesStay DEF ArchivesOwn
  <2>4. QED
    BY <1>8, <2>1, <2>3 DEF TypesInv
<1>11. QED
  BY <1>6, <1>9, <1>10

\* What a device sends is its own.
LEMMA DeviceSends ==
  ASSUME TypeOK, TypesInv, NEW f \in Frame, OwnFrame(f),
         Says(f),
         asked' \subseteq asked, UNCHANGED <<devRam, children, nvm, holds, strays>>
  PROVE  /\ TypesInv'
         /\ \A m \in SC : /\ ToSet(queue[m]) \subseteq ToSet(queue'[m])
                          /\ up[m] => f \in ToSet(queue'[m])
<1>1. ASSUME NEW m \in SC
      PROVE  ToSet(Append(queue[m], f)) = ToSet(queue[m]) \cup {f}
  <2>1. queue[m] \in Seq(Frame)
    BY DEF TypeOK
  <2>2. QED
    BY <2>1, AppendedSet
<1>2. \A m \in SC : /\ ToSet(queue[m]) \subseteq ToSet(queue'[m])
                    /\ ToSet(queue'[m]) \subseteq ToSet(queue[m]) \cup {f}
                    /\ up[m] => f \in ToSet(queue'[m])
  BY <1>1 DEF Says
<1>3. FramesOwn'
  BY <1>2, TypesStay DEF TypesInv, FramesOwn, OwnFrame, Fits
<1>4. ListsOwn' /\ ArchivesOwn'
  BY TypesStay DEF TypesInv, ListsOwn, ArchivesOwn, Fits
<1>5. QED
  BY <1>2, <1>3, <1>4 DEF TypesInv

LEMMA AnnouncementOwn ==
  ASSUME FramesOwn, NEW d \in Dev, NEW f \in Announcement(d)
  PROVE  OwnFrame(f)
<1>1. Kind[d] \in Types(d) /\ Fits(d, holds[d])
  BY DEF FramesOwn, Types
<1>2. f.dd = d /\ f.type # "DEVICE_ASSIGNMENT_ACK" /\ f.et \in {0, Kind[d], holds[d]}
  BY DEF Announcement, Startup, FromDevice, From, Empty
<1>3. QED
  BY <1>1, <1>2 DEF OwnFrame, Fits

-----------------------------------------------------------------------------
(* The steps that add to the lists: service *)

\* A step of n that changes nothing of the others but their queues, which grow.
Apart(n) ==
  /\ NoSendFailed' => NoSendFailed
  /\ UNCHANGED <<waits, strays>>
  /\ asked \subseteq asked'
  /\ \A m \in SC \ {n} :
       /\ up'[m] = up[m] /\ state'[m] = state[m] /\ ram'[m] = ram[m]
       /\ devRam'[m] = devRam[m] /\ sweep'[m] = sweep[m]
       /\ children'[m] = children[m] /\ nvm'[m] = nvm[m]
       /\ ToSet(queue[m]) \subseteq ToSet(queue'[m])

LEMMA ApartServes ==
  ASSUME WaitingIsServed, NEW n \in SC, Apart(n),
         NoSendFailed' /\ NoRivals /\ strays = {} /\ Leader(n)' =>
           \A d \in waits : Waiting(n, d)' /\ ~Stranger(n, d)' => Served(n, d)'
  PROVE  WaitingIsServed'
<1>1. SUFFICES ASSUME NoSendFailed', NoRivals, strays = {},
                      NEW m \in SC \ {n}, Leader(m)',
                      NEW d \in waits, Waiting(m, d)', ~Stranger(m, d)'
               PROVE  Served(m, d)'
  BY TypesStay DEF WaitingIsServed, NoRivals, Apart
<1>2. NoSendFailed /\ Leader(m) /\ Waiting(m, d) /\ ~Stranger(m, d)
  BY <1>1 DEF Apart, Leader, Waiting, Unfinished, Stranger
<1>3. Served(m, d)
  BY <1>1, <1>2 DEF WaitingIsServed
<1>4. QED
  BY <1>3 DEF Served, Apart

LEMMA ReplyApart ==
  ASSUME TypeOK, NEW n \in SC, NEW fs \in Seq(Frame),
         (Reply(n, fs) /\ queue[n] # <<>>) \/ Send(n, fs), UNCHANGED env,
         \A m \in SC \ {n} : /\ state'[m] = state[m] /\ ram'[m] = ram[m]
                             /\ devRam'[m] = devRam[m] /\ sweep'[m] = sweep[m]
                             /\ children'[m] = children[m] /\ nvm'[m] = nvm[m]
  PROVE  Apart(n)
<1>1. asked \subseteq asked'
  BY DEF Reply, Send, Given
<1>2. \A m \in SC \ {n} : ToSet(queue[m]) \subseteq ToSet(queue'[m])
  BY ReplyAdds, SendAdds
<1>3. QED
  BY <1>1, <1>2 DEF Apart, NoSendFailed, env, devs

LEMMA ArrivalServed ==
  ASSUME TypeOK, WaitingIsServed, NEW n \in SC,
         YieldToCoordinator(n) \/ DeviceArrival(n)
  PROVE  WaitingIsServed'
<1>1. queue[n] # <<>> /\ Reply(n, <<>>) /\ UNCHANGED env
  BY DEF YieldToCoordinator, DeviceArrival, Hears, Take
<1>2. /\ UNCHANGED <<sweep, children, nvm>>
      /\ \A m \in SC \ {n} : /\ state'[m] = state[m] /\ ram'[m] = ram[m]
                             /\ devRam'[m] = devRam[m]
  BY DEF YieldToCoordinator, DeviceArrival, EnterPassive, Goto, node, tasks, TypeOK
<1>3. ~Leader(n)'
  BY DEF YieldToCoordinator, DeviceArrival, EnterPassive, Goto, Hears, node,
         Leader, HeartbeatOut, ActiveCoordinator, TypeOK
<1>4. QED
  BY <1>1, <1>2, <1>3, AnswerType, ReplyApart, ApartServes

\* The device that assign_et_si_for_device is called for: an archived one is
\* sent its assignment, any other gets a child.
LEMMA AssignServes ==
  ASSUME TypeOK, NEW n \in SC, linked[n], NEW d \in waits, NEW e \in Nat,
         AssignEtSi(n, d, e), ~Stranger(n, d),
         asked' = asked \cup Asked(n, AssignFrames(n, d)), Waiting(n, d)'
  PROVE  Served(n, d)'
<1>1. d \in Unit /\ ~Stranger(n, d)
  BY DEF Unit, TypeOK
<1>2. CASE Archived(n, d)
  <2> DEFINE f == Assignment(d, nvm[n].devices[d].et, soft[n])
  <2>1. f \in ToSet(AssignFrames(n, d))
    BY <1>1, <1>2, AssignFramesSet
  <2>2. f.type = "SC_ASSIGNMENT" /\ f.dd = d /\ f.et # 0
    BY <1>2 DEF Assignment, FromDevice, From, Empty, Archived
  <2>3. [dd |-> d, et |-> f.et] \in Asked(n, AssignFrames(n, d))
    BY <2>1, <2>2 DEF Asked
  <2>4. QED
    BY <2>3 DEF Served
<1>3. CASE ~Archived(n, d)
  <2> DEFINE entry == IF d \in Known(n) THEN devRam[n][d] ELSE Announced(NoDevice, e)
             c == [dd |-> d, et |-> entry.et]
  <2>1. c \in children'[n] /\ devRam'[n][d] = entry
    BY <1>1, <1>3 DEF AssignEtSi, TypeOK
  <2>2. c.dd = d /\ c.et # 0
    BY <2>1 DEF Waiting
  <2>3. QED
    BY <2>1, <2>2 DEF Served
<1>4. QED
  BY <1>2, <1>3

\* Any other device that waits
LEMMA AssignServesOthers ==
  ASSUME TypeOK, WaitingIsServed, NEW n \in SC, NEW d \in Unit, NEW e \in Nat,
         AssignEtSi(n, d, e), NoSendFailed, NoRivals, strays = {}, Leader(n),
         asked \subseteq asked',
         sweep[n] \ {d} \subseteq sweep'[n],
         \A x \in ToSet(queue[n]) : x.dd # d => x \in ToSet(queue'[n]),
         NEW k \in waits \ {d}, Waiting(n, k)', ~Stranger(n, k)
  PROVE  Served(n, k)'
<1>1. k \in Unit /\ devRam'[n][k] = devRam[n][k] /\ children[n] \subseteq children'[n]
  BY DEF Unit, AssignEtSi, TypeOK
<1>2. Served(n, k)
  BY <1>1 DEF WaitingIsServed, Waiting, Unfinished
<1>3. QED
  BY <1>1, <1>2 DEF Served

LEMMA AssignApart ==
  ASSUME TypeOK, NEW n \in SC, NEW d, NEW e, AssignEtSi(n, d, e)
  PROVE  \A m \in SC \ {n} : devRam'[m] = devRam[m] /\ children'[m] = children[m]
BY DEF AssignEtSi, TypeOK

LEMMA AssignArrivalServed ==
  ASSUME TypeOK, FaultsCounted, WaitingIsServed, NEW n \in SC, AssignArrival(n)
  PROVE  WaitingIsServed'
<1> DEFINE d == Sender(n)
           e == Head(queue[n]).et
           fs == AssignFrames(n, d)
<1>1. queue[n] # <<>> /\ d \in Dev /\ e \in Nat /\ Head(queue[n]).dd = d
  BY HeadType DEF AssignArrival, Hears, Designators, Anonymous, FromSc, Sender
<1>2. /\ AssignEtSi(n, d, e) /\ Reply(n, fs)
      /\ UNCHANGED <<state, ram, nvm, up, sweep, env>>
  BY DEF AssignArrival, node, env
<1>3. d \in Unit /\ fs \in Seq(Frame)
  BY <1>1, AssignFramesType DEF Unit
<1>4. asked' = asked \cup Asked(n, fs)
  BY <1>2 DEF Reply, Given
<1> HIDE DEF d, e
<1>5. Apart(n)
  BY <1>1, <1>2, <1>3, AssignApart, ReplyApart
<1>6. \A x \in ToSet(queue[n]) : x.dd # d => x \in ToSet(queue'[n])
  BY <1>1, <1>2, <1>3, ReplyAdds
<1>7. ASSUME NoSendFailed', NoRivals, strays = {}, Leader(n)',
             NEW k \in waits, Waiting(n, k)', ~Stranger(n, k)'
      PROVE  Served(n, k)'
  <2>1. NoSendFailed /\ linked[n] /\ Leader(n) /\ ~Stranger(n, k)
    BY <1>2, <1>5, <1>7 DEF Apart, FaultsCounted, Leader, Stranger
  <2>2. CASE k = d
    BY <1>1, <1>2, <1>4, <1>7, <2>1, <2>2, AssignServes
  <2>3. CASE k # d
    BY <1>1, <1>2, <1>3, <1>4, <1>6, <1>7, <2>1, <2>3, AssignServesOthers
  <2>4. QED
    BY <2>2, <2>3
<1>8. QED
  BY <1>5, <1>7, ApartServes

LEMMA SweepServed ==
  ASSUME TypeOK, FaultsCounted, WaitingIsServed, NEW n \in SC, NEW d \in Unit,
         SweepVisit(n, d)
  PROVE  WaitingIsServed'
<1> DEFINE e == devRam[n][d].et
           fs == AssignFrames(n, d)
<1>1. e \in Nat /\ fs \in Seq(Frame)
  <2>1. devRam[n][d] \in DeviceEntry
    BY DEF TypeOK
  <2>2. QED
    BY <2>1, AssignFramesType DEF DeviceEntry
<1>2. /\ AssignEtSi(n, d, e) /\ Send(n, fs)
      /\ UNCHANGED <<state, ram, nvm, up, env>>
      /\ sweep' = [sweep EXCEPT ![n] = @ \ {d}]
  BY DEF SweepVisit, node, env
<1>3. asked' = asked \cup Asked(n, fs)
  BY <1>2 DEF Send, Given
<1> HIDE DEF e
<1>4. /\ \A m \in SC \ {n} : sweep'[m] = sweep[m]
      /\ sweep[n] \ {d} \subseteq sweep'[n]
  BY <1>2 DEF TypeOK
<1>5. Apart(n)
  BY <1>1, <1>2, <1>4, AssignApart, ReplyApart
<1>6. ToSet(queue[n]) \subseteq ToSet(queue'[n])
  BY <1>1, <1>2, SendAdds
<1>7. ASSUME NoSendFailed', NoRivals, strays = {}, Leader(n)',
             NEW k \in waits, Waiting(n, k)', ~Stranger(n, k)'
      PROVE  Served(n, k)'
  <2>1. NoSendFailed /\ linked[n] /\ Leader(n) /\ ~Stranger(n, k)
    BY <1>2, <1>5, <1>7 DEF Apart, FaultsCounted, Leader, Stranger
  <2>2. CASE k = d
    BY <1>1, <1>2, <1>3, <1>7, <2>1, <2>2, AssignServes
  <2>3. CASE k # d
    BY <1>1, <1>2, <1>3, <1>4, <1>6, <1>7, <2>1, <2>3, AssignServesOthers
  <2>4. QED
    BY <2>2, <2>3
<1>8. QED
  BY <1>5, <1>7, ApartServes

\* With one device to each type and every type its device's, no FIG. 14 child
\* has a rival.
LEMMA NobodyRivals ==
  ASSUME TypeOK, TypesInv, NoRivals, NEW n \in SC, NEW c \in children[n],
         c.dd \in Dev, c.et # 0
  PROVE  ~HasRival(n, c)
<1>1. SUFFICES ASSUME NEW k \in Unfinished(devRam[n]) \ {c.dd},
                      devRam[n][k].et = c.et
               PROVE  FALSE
  BY DEF HasRival
<1>2. k \in Unit /\ devRam[n][k].status = "seen"
  BY DEF Unfinished
<1>3. CASE k \in SC
  BY <1>1, <1>2, <1>3 DEF TypesInv, ListsOwn
<1>4. CASE k \in Dev
  <2>1. c.et \in Types(c.dd) /\ c.et \in Types(k)
    BY <1>1, <1>4 DEF TypesInv, ListsOwn, Fits
  <2>2. QED
    BY <1>4, <2>1 DEF NoRivals
<1>5. QED
  BY <1>2, <1>3, <1>4 DEF Unit

LEMMA ChildServed ==
  ASSUME TypeOK, FaultsCounted, TypesInv, WaitingIsServed, NEW n \in SC,
         NEW c \in children[n], ChildSeeded(n, c)
  PROVE  WaitingIsServed'
<1> DEFINE f == Assignment(c.dd, c.et, FALSE)
           fs == IF HasRival(n, c) THEN <<>> ELSE <<f>>
<1>1. f \in Frame /\ fs \in Seq(Frame)
  <2>1. c \in [dd : Unit, et : Nat]
    BY DEF TypeOK
  <2>2. f \in Frame
    BY <2>1, UnitFrameType
  <2>3. QED
    BY <2>2, AnswerType
<1>2. /\ Send(n, fs) /\ UNCHANGED <<state, ram, nvm, up, devRam, sweep, env>>
      /\ children' = [children EXCEPT ![n] = @ \ {c}]
  BY DEF ChildSeeded, node, lists, env
<1>3. asked' = asked \cup Asked(n, fs)
  BY <1>2 DEF Send, Given
<1>4. f.type = "SC_ASSIGNMENT" /\ f.dd = c.dd /\ f.et = c.et
  BY DEF Assignment, FromDevice, From, Empty
<1>5. ~HasRival(n, c) => f \in ToSet(fs)
  <2>1. ToSet(<<f>>) = {f}
    BY SingleSet, Zenon
  <2>2. QED
    BY <2>1
<1> HIDE DEF f, fs
<1>6. \A m \in SC \ {n} : children'[m] = children[m]
  BY <1>2 DEF TypeOK
<1>7. Apart(n)
  BY <1>1, <1>2, <1>6, ReplyApart
<1>8. ToSet(queue[n]) \subseteq ToSet(queue'[n])
  BY <1>1, <1>2, SendAdds
<1>9. ASSUME NoSendFailed', NoRivals, strays = {}, Leader(n)',
             NEW d \in waits, Waiting(n, d)', ~Stranger(n, d)'
      PROVE  Served(n, d)'
  <2>1. NoSendFailed /\ linked[n] /\ d \in Dev
    BY <1>7, <1>9 DEF Apart, FaultsCounted, TypeOK
  <2>2. Served(n, d)
    BY <1>2, <1>9, <2>1 DEF WaitingIsServed, Leader, Waiting, Unfinished, Stranger
  <2>3. CASE c.dd = d /\ c.et # 0
    <3>1. f \in ToSet(fs)
      BY <1>5, <1>9, <2>1, <2>3, NobodyRivals
    <3>2. [dd |-> d, et |-> c.et] \in Asked(n, fs)
      <4>1. /\ linked[n] /\ f.type = "SC_ASSIGNMENT"
            /\ f.dd \in waits /\ f.et # 0 /\ f.dd = d /\ f.et = c.et
        BY <1>4, <1>9, <2>1, <2>3
      <4>2. [dd |-> f.dd, et |-> f.et] \in Asked(n, fs)
        BY <3>1, <4>1 DEF Asked
      <4>3. QED
        BY <4>1, <4>2
    <3>3. QED
      BY <1>3, <3>2 DEF Served
  <2>4. CASE ~(c.dd = d /\ c.et # 0)
    <3>1. \A k \in children[n] : k.dd = d /\ k.et # 0 => k \in children'[n]
      BY <1>2, <2>4 DEF TypeOK
    <3>2. QED
      BY <1>2, <1>3, <1>8, <2>2, <3>1 DEF Served
  <2>5. QED
    BY <2>3, <2>4
<1>10. QED
  BY <1>7, <1>9, ApartServes

\* An acknowledge ends one device's wait; those of others stay in the queue.
LEMMA AckServed ==
  ASSUME TypeOK, WaitingIsServed, NEW n \in SC, RecordAck(n)
  PROVE  WaitingIsServed'
<1> DEFINE d == Sender(n)
           entry == Recorded(devRam[n][d], Head(queue[n]).et)
<1>1. queue[n] # <<>> /\ d \in Unit
  BY HeadType DEF RecordAck, Hears, Designators, Anonymous, FromSc, Unit
<1>2. entry.status = "assigned"
  BY DEF Recorded, Announced
<1>3. IF d \in Known(n) THEN devRam' = [devRam EXCEPT ![n][d] = entry]
                        ELSE UNCHANGED devRam
  BY DEF RecordAck
<1>4. Reply(n, <<>>) /\ UNCHANGED <<state, ram, up, sweep, children, env>>
  BY DEF RecordAck, Take, node, env
<1>5. Head(queue[n]).dd = d
  BY DEF Sender
<1> HIDE DEF d, entry
<1>6. /\ \A m \in SC \ {n} : devRam'[m] = devRam[m] /\ nvm'[m] = nvm[m]
      /\ \A k \in Unit \ {d} : nvm'[n].devices[k] = nvm[n].devices[k]
  <2>1. \/ nvm' = nvm
        \/ nvm' = [nvm EXCEPT ![n].devices[d] = [known |-> TRUE, et |-> entry.et]]
    BY DEF RecordAck, d, entry
  <2>2. nvm \in [SC -> NvmType] /\ nvm[n].devices \in [Unit -> Archive]
    BY DEF TypeOK, NvmType
  <2>3. \A m \in SC \ {n} : nvm'[m] = nvm[m]
    BY <2>1, <2>2
  <2>4. nvm'[n].devices \in {nvm[n].devices,
          [nvm[n].devices EXCEPT ![d] = [known |-> TRUE, et |-> entry.et]]}
    BY <2>1, <2>2 DEF NvmType
  <2>5. \A k \in Unit \ {d} : nvm'[n].devices[k] = nvm[n].devices[k]
    BY <2>2, <2>4
  <2>6. QED
    BY <1>3, <2>3, <2>5 DEF TypeOK
<1>7. Apart(n)
  BY <1>1, <1>4, <1>6, AnswerType, ReplyApart
<1>8. /\ \A x \in ToSet(queue[n]) : x # Head(queue[n]) => x \in ToSet(queue'[n])
      /\ asked \subseteq asked'
  BY <1>1, <1>4, AnswerType, ReplyAdds DEF Reply, Given
<1>9. ASSUME NoSendFailed', NoRivals, strays = {}, Leader(n)',
             NEW k \in waits, Waiting(n, k)', ~Stranger(n, k)'
      PROVE  Served(n, k)'
  <2>1. k \in Unit
    BY DEF Unit, TypeOK
  <2>2. k # d
    <3>1. d \in Known(n) => devRam'[n][d].status = "assigned"
      BY <1>1, <1>2, <1>3 DEF TypeOK
    <3>2. d \notin Known(n) => devRam'[n][d].status = "none"
      BY <1>1, <1>3 DEF Known
    <3>3. QED
      BY <1>9, <3>1, <3>2 DEF Waiting, Unfinished
  <2>3. devRam'[n][k] = devRam[n][k]
    BY <1>1, <1>3, <2>1, <2>2 DEF TypeOK
  <2>4. Served(n, k)
    <3>1. Waiting(n, k) /\ ~Stranger(n, k)
      BY <1>4, <1>6, <1>9, <2>1, <2>2, <2>3 DEF Waiting, Unfinished, Stranger
    <3>2. QED
      BY <1>4, <1>7, <1>9, <3>1 DEF Apart, WaitingIsServed, Leader
  <2>5. QED
    BY <1>4, <1>5, <1>8, <2>2, <2>4 DEF Served
<1>10. QED
  BY <1>7, <1>9, ApartServes

\* A child reseeded by its own device's announcement may have lost its type; the
\* announcement is there to be handled next.
LEMMA StrayServed ==
  ASSUME TypeOK, WaitingIsServed, NEW n \in SC, NEW c \in children[n],
         StraySeed(n, c)
  PROVE  WaitingIsServed'
<1> DEFINE f == Head(queue[n])
           taken == [c EXCEPT !.et = f.et]
<1>1. SUFFICES ASSUME NoSendFailed', NoRivals', strays' = {}, NEW m \in SC,
                      Leader(m)', NEW d \in waits', Waiting(m, d)',
                      ~Stranger(m, d)'
               PROVE  Served(m, d)'
  BY DEF WaitingIsServed
<1>2. /\ UNCHANGED <<up, state, ram, devRam, sweep, nvm, queue, asked, waits, budget>>
      /\ children' = [children EXCEPT ![n] = (@ \ {c}) \cup {taken}]
      /\ strays' = IF f.dd = c.dd THEN strays ELSE strays \cup {taken}
  BY DEF StraySeed, Quiet, node, lists
<1>3. strays = {} /\ f.dd = c.dd
  BY <1>1, <1>2
<1>4. f.type \in DeviceWord /\ f \in ToSet(queue[n])
  <2>1. queue[n] # <<>> /\ f.type = "DEVICE_STARTUP"
    BY DEF StraySeed, Hears
  <2>2. /\ DOMAIN queue[n] = 1..Len(queue[n]) /\ f = queue[n][1]
        /\ 1 \in 1..Len(queue[n])
    BY <2>1 DEF TypeOK
  <2>3. QED
    BY <2>1, <2>2 DEF ToSet, DeviceWord
<1> HIDE DEF f, taken
<1>5. NoRivals
  BY <1>1, <1>2, <1>3, TypesStay DEF NoRivals
<1>6. Served(m, d)
  BY <1>1, <1>2, <1>3, <1>5
     DEF WaitingIsServed, NoSendFailed, Leader, Waiting, Unfinished, Stranger
<1>7. CASE m = n /\ d = c.dd
  BY <1>2, <1>3, <1>4, <1>7 DEF Served
<1>8. CASE ~(m = n /\ d = c.dd)
  <2>1. \A k \in children[m] : k.dd = d => k \in children'[m]
    BY <1>2, <1>8 DEF TypeOK
  <2>2. QED
    BY <1>2, <1>6, <2>1 DEF Served
<1>9. QED
  BY <1>7, <1>8

LEMMA DeviceServed ==
  ASSUME TypeOK, TypesInv, WaitingIsServed, NEW d \in Dev,
         \/ DeviceWaits(d) \/ DeviceLeaves(d) \/ DeviceAck(d)
         \/ \E f \in Announcement(d) : DeviceAnnounce(d, f)
  PROVE  TypesInv' /\ WaitingIsServed'
<1>1. /\ UNCHANGED <<up, state, ram, devRam, sweep, children, nvm, holds, strays>>
      /\ NoSendFailed' => NoSendFailed
      /\ ~DeviceWaits(d) => waits' \subseteq waits
  BY DEF DeviceWaits, DeviceLeaves, DeviceAck, DeviceAnnounce, Spend,
         NoSendFailed, TypeOK, node, lists, tasks, env, devs
<1>2. ASSUME \A m \in SC, k \in waits' :
               Leader(m) => \/ k \in waits /\ (Served(m, k) => Served(m, k)')
                            \/ Served(m, k)'
      PROVE  WaitingIsServed'
  <2>1. SUFFICES ASSUME NoSendFailed', NoRivals', strays' = {}, NEW m \in SC,
                        Leader(m)', NEW k \in waits', Waiting(m, k)',
                        ~Stranger(m, k)'
                 PROVE  Served(m, k)'
    BY DEF WaitingIsServed
  <2>2. NoRivals /\ NoSendFailed /\ strays = {}
    BY <1>1, <2>1, TypesStay DEF NoRivals
  <2>3. Leader(m) /\ Waiting(m, k) /\ ~Stranger(m, k)
    BY <1>1, <2>1 DEF Leader, Waiting, Unfinished, Stranger
  <2>4. QED
    BY <1>2, <2>2, <2>3 DEF WaitingIsServed
<1>3. ASSUME NEW f \in Announcement(d), Says(f), asked' = asked
      PROVE  /\ TypesInv'
             /\ \A m \in SC : /\ ToSet(queue[m]) \subseteq ToSet(queue'[m])
                              /\ up[m] => f \in ToSet(queue'[m])
  <2>1. f \in Frame /\ OwnFrame(f)
    BY AnnouncementType, AnnouncementOwn DEF TypesInv
  <2>2. QED
    BY <1>1, <1>3, <2>1, DeviceSends
<1>4. ASSUME NEW f \in Announcement(d), DeviceAnnounce(d, f)
      PROVE  TypesInv' /\ WaitingIsServed'
  <2>1. Says(f) /\ UNCHANGED <<asked, waits>>
    BY <1>4 DEF DeviceAnnounce, devs
  <2>2. QED
    BY <1>1, <1>2, <1>3, <2>1 DEF Served
<1>5. CASE DeviceWaits(d)
  <2> DEFINE f == Startup(d)
  <2>1. /\ f \in Announcement(d) /\ Says(f) /\ asked' = asked
        /\ waits' = waits \cup {d}
    BY <1>5 DEF DeviceWaits, Announcement
  <2>2. f.type \in DeviceWord /\ f.dd = d
    BY DEF Startup, FromDevice, From, Empty, DeviceWord
  <2> HIDE DEF f
  <2>3. /\ TypesInv'
        /\ \A m \in SC : /\ ToSet(queue[m]) \subseteq ToSet(queue'[m])
                         /\ up[m] => f \in ToSet(queue'[m])
    BY <1>3, <2>1
  <2>4. \A m \in SC : Leader(m) => Served(m, d)'
    BY <2>2, <2>3 DEF Served, Leader
  <2>5. \A m \in SC, k \in waits : Served(m, k) => Served(m, k)'
    BY <1>1, <2>1, <2>3 DEF Served
  <2>6. QED
    BY <1>2, <2>1, <2>3, <2>4, <2>5
<1>6. CASE DeviceAck(d)
  <2>1. PICK o \in asked :
          /\ o.dd = d /\ asked' = asked \ {o}
          /\ Says(FromDevice("DEVICE_ASSIGNMENT_ACK", d, o.et))
    BY <1>6 DEF DeviceAck
  <2> DEFINE f == FromDevice("DEVICE_ASSIGNMENT_ACK", d, o.et)
  <2>2. f \in Frame
    BY <2>1, UnitFrameType DEF TypeOK, Owed, Unit
  <2>3. f.type = "DEVICE_ASSIGNMENT_ACK" /\ f.dd = d /\ f.et = o.et
    BY DEF FromDevice, From, Empty
  <2>4. OwnFrame(f)
    BY <2>1, <2>3 DEF OwnFrame, Fits, TypesInv, FramesOwn
  <2>5. Says(f) /\ UNCHANGED waits
    BY <1>6, <2>1 DEF DeviceAck, env, devs
  <2> HIDE DEF f
  <2>6. /\ TypesInv'
        /\ \A m \in SC : /\ ToSet(queue[m]) \subseteq ToSet(queue'[m])
                         /\ up[m] => f \in ToSet(queue'[m])
    BY <1>1, <2>1, <2>2, <2>4, <2>5, DeviceSends
  <2>7. \A m \in SC, k \in Dev : Leader(m) /\ Served(m, k) => Served(m, k)'
    BY <1>1, <2>1, <2>3, <2>6 DEF Served, Leader, DeviceWord
  <2>8. QED
    BY <1>2, <2>5, <2>6, <2>7 DEF TypeOK
<1>7. CASE DeviceLeaves(d)
  <2>1. /\ waits' = waits \ {d} /\ UNCHANGED queue
        /\ asked' \subseteq asked /\ \A o \in asked : o.dd # d => o \in asked'
    BY <1>7 DEF DeviceLeaves
  <2>2. FramesOwn'
    BY <1>1, <2>1, TypesStay DEF TypesInv, FramesOwn, OwnFrame, Fits
  <2>3. ListsOwn' /\ ArchivesOwn'
    BY <1>1, TypesStay DEF TypesInv, ListsOwn, ArchivesOwn, Fits
  <2>4. \A m \in SC, k \in waits \ {d} : Served(m, k) => Served(m, k)'
    BY <1>1, <2>1 DEF Served
  <2>5. QED
    BY <1>2, <2>1, <2>2, <2>3, <2>4 DEF TypesInv
<1>8. QED
  BY <1>4, <1>5, <1>6, <1>7

-----------------------------------------------------------------------------
(* The invariant *)

ServiceInv == TypesInv /\ WaitingIsServed

LEMMA ServiceStep ==
  TypeOK /\ FaultsCounted /\ ServiceInv /\ [Next]_vars => ServiceInv'
<1> SUFFICES ASSUME TypeOK, FaultsCounted, TypesInv, WaitingIsServed, [Next]_vars
             PROVE  TypesInv' /\ WaitingIsServed'
  BY DEF ServiceInv
<1>1. ASSUME Plain
      PROVE  TypesInv' /\ WaitingIsServed'
  BY <1>1, PlainKeepsTypes, PlainKeepsServed
<1>2. ASSUME NEW n \in SC, Receive(n)
      PROVE  TypesInv' /\ WaitingIsServed'
  <2>1. CASE ~ListsDevice(n)
    BY <1>1, <1>2, <2>1, ReceivePlain
  <2>2. CASE YieldToCoordinator(n) \/ DeviceArrival(n)
    BY <2>2, ArrivalTypes, ArrivalServed
  <2>3. CASE AssignArrival(n)
    <3>1. /\ queue[n] # <<>> /\ Sender(n) \in Dev /\ Sender(n) \in Unit
          /\ Head(queue[n]).et \in Nat
      BY <2>3, HeadType
         DEF AssignArrival, Hears, Designators, Anonymous, FromSc, Unit
    <3>2. Fits(Sender(n), Head(queue[n]).et)
      BY <3>1, SenderOwn DEF TypesInv, OwnFrame, Sender
    <3>3. /\ AssignEtSi(n, Sender(n), Head(queue[n]).et)
          /\ UNCHANGED <<nvm, strays>>
          /\ Reply(n, AssignFrames(n, Sender(n)))
      BY <2>3 DEF AssignArrival, env, devs
    <3>4. Sender(n) \notin SC
      BY <3>1, SubnetControllerAssumption
    <3>5. TypesInv'
      BY <3>1, <3>2, <3>3, <3>4, AssignTypes
    <3>6. QED
      BY <2>3, <3>5, AssignArrivalServed
  <2>4. CASE RecordAck(n)
    BY <2>4, AckTypes, AckServed
  <2>5. QED
    BY <2>1, <2>2, <2>3, <2>4 DEF ListsDevice
<1>3. ASSUME NEW n \in SC, NEW d \in Unit, SweepVisit(n, d)
      PROVE  TypesInv' /\ WaitingIsServed'
  <2>1. devRam[n][d].et \in Nat
    BY DEF TypeOK, DeviceEntry
  <2>2. d \in Dev => Fits(d, devRam[n][d].et)
    BY DEF TypesInv, ListsOwn
  <2>3. /\ AssignEtSi(n, d, devRam[n][d].et) /\ UNCHANGED <<nvm, strays>>
        /\ Send(n, AssignFrames(n, d))
    BY <1>3 DEF SweepVisit, env, devs
  <2>4. TypesInv'
    BY <2>1, <2>2, <2>3, AssignTypes
  <2>5. QED
    BY <1>3, <2>4, SweepServed
<1>4. ASSUME NEW n \in SC, Task(n)
      PROVE  TypesInv' /\ WaitingIsServed'
  BY <1>1, <1>3, <1>4, TaskPlain, ChildTypes, ChildServed, StrayTypes, StrayServed
     DEF Task, SeedChild
<1>5. ASSUME NEW n \in SC,
             Boot(n) \/ Timer(n) \/ Scheduled(n) \/ Environment(n)
      PROVE  TypesInv' /\ WaitingIsServed'
  BY <1>1, <1>5, BootPlain, TimerPlain, ScheduledPlain, EnvironmentPlain
<1>6. ASSUME NEW d \in Dev,
             \/ DeviceWaits(d) \/ DeviceLeaves(d) \/ DeviceAck(d)
             \/ \E f \in Announcement(d) : DeviceAnnounce(d, f)
      PROVE  TypesInv' /\ WaitingIsServed'
  BY <1>6, DeviceServed
<1>7. CASE UNCHANGED vars
  <2>1. Steady /\ Quiet
    BY <1>7 DEF Steady, Quiet, NoSendFailed, Leader, vars, node, lists, tasks, env,
                devs
  <2>2. QED
    BY <1>1, <2>1, QuietPlain
<1>8. QED
  BY <1>2, <1>4, <1>5, <1>6, <1>7 DEF Next

LEMMA ServiceInit == Init => ServiceInv
<1> SUFFICES ASSUME Init
             PROVE  ServiceInv
  OBVIOUS
<1>1. \A n \in SC : /\ ToSet(queue[n]) = {} /\ children[n] = {} /\ ~up[n]
                    /\ \A d \in Unit : devRam[n][d].et = 0
  <2>1. ToSet(<<>>) = {}
    BY DEF ToSet
  <2>2. \A n \in SC : queue[n] = <<>> /\ children[n] = {} /\ ~up[n]
    BY DEF Init
  <2>3. \A n \in SC, d \in Unit : devRam[n][d].et = 0
    BY DEF Init, NoDevice
  <2>4. QED
    BY <2>1, <2>2, <2>3
<1>2. FramesOwn
  <2>1. \A d \in Dev : Fits(d, holds[d])
    BY DEF Init, Fits, Types
  <2>2. QED
    BY <1>1, <2>1 DEF FramesOwn, Init
<1>3. ListsOwn
  BY <1>1 DEF ListsOwn, Fits, Unit
<1>4. ArchivesOwn
  <2>1. SUFFICES ASSUME NEW n \in SC, NEW d \in Dev
                 PROVE  IF nvm[n].devices[d].known
                          THEN nvm[n].devices[d].et \in Types(d)
                          ELSE nvm[n].devices[d].et = 0
    BY DEF ArchivesOwn
  <2>2. d \in Unit
    BY DEF Unit
  <2>3. nvm[n].devices[d] = IF d \in DOMAIN Installed \ {n}
                              THEN [known |-> TRUE, et |-> Installed[d]]
                              ELSE NoArchive
    BY <2>2 DEF Init
  <2>4. d \in DOMAIN Installed => Installed[d] \in Types(d)
    BY DEF Types
  <2>5. QED
    BY <2>3, <2>4 DEF NoArchive
<1>5. WaitingIsServed
  BY <1>1 DEF WaitingIsServed, Leader
<1>6. QED
  BY <1>2, <1>3, <1>4, <1>5 DEF ServiceInv, TypesInv

LEMMA ServiceInvariant == Spec => [](TypeOK /\ RivalryInv /\ ServiceInv)
<1>1. RivalryInv => FaultsCounted
  BY DEF RivalryInv
<1>2. QED
  BY <1>1, ServiceInit, ServiceStep, RivalryInit, RivalryStep, TypeCorrect, PTL
     DEF Spec

\* Whatever meets on the bus, assignments and acknowledges meant for others, stale
\* children and sweeps, archives of several SCs: a device is archived with a type of
\* its own, or with one that a FIG. 14 child of its took from another device's
\* announcement, and no other step mixes up two devices' types.
THEOREM ArchivedTypesAreOwn == Spec => []ArchivedTypeIsOwn
<1>1. ServiceInv => ArchivedTypeIsOwn
  BY DEF ServiceInv, TypesInv, ArchivesOwn, ArchivedTypeIsOwn
<1>2. QED
  BY <1>1, ServiceInvariant, PTL

\* Until a send fails or a child takes another device's announcement, and if no two
\* devices have a type in common: for every device in wait_for_assignment that a
\* leader lists with a type and has not assigned, it has a visit, a child, an
\* acknowledge or a word of the device under way.  A device that resets, is disabled
\* or is taken to assigned by SC_CHANGE_STATE is owed nothing.
THEOREM WaitingAreServed == Spec => []WaitingIsServed
<1>1. ServiceInv => WaitingIsServed
  BY DEF ServiceInv
<1>2. QED
  BY <1>1, ServiceInvariant, PTL
=============================================================================
