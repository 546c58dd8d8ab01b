------------------------ MODULE SubnetControllerSafety ------------------------
(***************************************************************************)
(* Proofs of the safety properties of SubnetController, from TypeOK.       *)
(***************************************************************************)
EXTENDS SubnetControllerProofs

-----------------------------------------------------------------------------
(* What most steps leave alone *)

\* A step of n outside the hard-disable machinery: it touches no flag and no
\* event of it, and neither enters nor leaves hard_disabled.
Ordinary(n) ==
  /\ Ready(n)
  /\ up' = up
  /\ \A m \in SC : nvm'[m].hard_disabled = nvm[m].hard_disabled
  /\ \A m \in SC \ {n} : state'[m] = state[m] /\ pend'[m] = pend[m]
  /\ state'[n] = "hard_disabled" <=> state[n] = "hard_disabled"
  /\ \A e \in {"ui_g_hard_disable", "hard_enable_apply"} :
       e \in pend'[n] <=> e \in pend[n]

\* A step of n that strands no audit: it starts a task, or leaves those that
\* run and the events that wait.
KeepsDriver(n) ==
  /\ \A m \in SC \ {n} : /\ state'[m] = state[m] /\ pend'[m] = pend[m]
                         /\ audits'[m] = audits[m]
  /\ state'[n] = "audit" =>
       \/ audits'[n] > 0
       \/ "audit_pass_done" \in pend'[n]
       \/ /\ state[n] = "audit" /\ audits'[n] = audits[n]
          /\ "audit_pass_done" \in pend[n] => "audit_pass_done" \in pend'[n]

LEMMA ReceiveOrdinary ==
  ASSUME TypeOK, NEW n \in SC, Receive(n)
  PROVE  Ordinary(n) /\ KeepsDriver(n)
<1>1. CASE JoinStartup(n)
  BY <1>1, SubnetControllerAssumption
     DEF JoinStartup, Goto, Hears, Ready, TypeOK, NvmType, Ordinary,
         KeepsDriver, lists, tasks, env
<1>2. CASE ListStartup(n)
  BY <1>2, SubnetControllerAssumption
     DEF ListStartup, Hears, Ready, TypeOK, NvmType, Ordinary, KeepsDriver,
         node, tasks, env
<1>3. CASE AbsorbStartup(n)
  BY <1>3, SubnetControllerAssumption
     DEF AbsorbStartup, Hears, Ready, TypeOK, NvmType, Ordinary, KeepsDriver,
         node, tasks, env
<1>4. CASE YieldToCoordinator(n)
  BY <1>4, SubnetControllerAssumption
     DEF YieldToCoordinator, Goto, EnterPassive, Hears, Ready, TypeOK, NvmType,
         Ordinary, KeepsDriver, tasks, env
<1>5. CASE YieldToAsc(n)
  BY <1>5, SubnetControllerAssumption
     DEF YieldToAsc, Goto, EnterPassive, Hears, Ready, TypeOK, NvmType,
         Ordinary, KeepsDriver, tasks, env, ActiveCoordinator
<1>6. CASE RecordDeclaration(n)
  BY <1>6, SubnetControllerAssumption
     DEF RecordDeclaration, Hears, Ready, TypeOK, NvmType, Ordinary,
         KeepsDriver, node, tasks, env, ActiveCoordinator
<1>7. CASE YieldToBetter(n)
  BY <1>7, SubnetControllerAssumption
     DEF YieldToBetter, Goto, EnterPassive, Hears, Ready, TypeOK, NvmType,
         Ordinary, KeepsDriver, lists, tasks, env, HeartbeatOut
<1>8. CASE Reassert(n)
  BY <1>8, SubnetControllerAssumption
     DEF Reassert, Hears, Ready, TypeOK, NvmType, Ordinary, KeepsDriver, node,
         lists, tasks, env, ActiveCoordinator
<1>9. CASE AnswerDeclaration(n)
  BY <1>9, SubnetControllerAssumption
     DEF AnswerDeclaration, Declare, Hears, Ready, TypeOK, NvmType, Ordinary,
         KeepsDriver, lists, tasks, env
<1>10. CASE DeclareIfSilent(n)
  BY <1>10, SubnetControllerAssumption
     DEF DeclareIfSilent, Declare, Hears, Ready, TypeOK, NvmType, Ordinary,
         KeepsDriver, lists, tasks, env
<1>11. CASE AlreadyDeclared(n)
  BY <1>11, SubnetControllerAssumption
     DEF AlreadyDeclared, Hears, Ready, TypeOK, NvmType, Ordinary, KeepsDriver,
         node, lists, tasks, env
<1>12. CASE TakeToken(n)
  BY <1>12, SubnetControllerAssumption
     DEF TakeToken, Goto, EnterAudit, Hears, Ready, TypeOK, NvmType, Ordinary,
         KeepsDriver, lists, env
<1>13. CASE BecomeSoftDisabled(n)
  BY <1>13, SubnetControllerAssumption
     DEF BecomeSoftDisabled, Goto, EnterSoftDisabled, Acknowledge, Hears,
         Ready, TypeOK, NvmType, Ordinary, KeepsDriver, lists, tasks, env
<1>14. CASE BecomeInactive(n)
  BY <1>14, SubnetControllerAssumption
     DEF BecomeInactive, Goto, Acknowledge, Hears, Ready, TypeOK, NvmType,
         Ordinary, KeepsDriver, lists, tasks, env
<1>15. CASE FinishAsIsc(n)
  BY <1>15, SubnetControllerAssumption
     DEF FinishAsIsc, Goto, Hears, Ready, TypeOK, NvmType, Ordinary,
         KeepsDriver, lists, tasks, env
<1>16. CASE RememberAsc(n)
  BY <1>16, SubnetControllerAssumption
     DEF RememberAsc, Hears, Ready, TypeOK, NvmType, Ordinary, KeepsDriver,
         node, tasks, env
<1>17. CASE DeviceArrival(n)
  <2>1. /\ Ready(n) /\ UNCHANGED <<up, nvm, state, audits>>
        /\ \/ pend' = pend
           \/ pend' = [pend EXCEPT ![n] = @ \cup {"iu_reset_detected"}]
    BY <1>17 DEF DeviceArrival, Hears, node, env
  <2>2. pend \in [SC -> SUBSET SelfEvent]
    BY DEF TypeOK
  <2>3. /\ \A m \in SC \ {n} : pend'[m] = pend[m]
        /\ \A e \in {"ui_g_hard_disable", "hard_enable_apply", "audit_pass_done"} :
             e \in pend'[n] <=> e \in pend[n]
    <3>1. CASE pend' = pend
      BY <3>1
    <3>2. CASE pend' = [pend EXCEPT ![n] = @ \cup {"iu_reset_detected"}]
      BY <2>2, <3>2
    <3>3. QED
      BY <2>1, <3>1, <3>2
  <2>4. Ordinary(n)
    BY <2>1, <2>3 DEF Ordinary
  <2>5. KeepsDriver(n)
    BY <2>1, <2>3 DEF KeepsDriver
  <2>6. QED
    BY <2>4, <2>5
<1>18. CASE AssignArrival(n)
  BY <1>18, SubnetControllerAssumption
     DEF AssignArrival, Hears, Ready, TypeOK, NvmType, Ordinary, KeepsDriver,
         node, env, HeartbeatOut
<1>19. CASE RecordAck(n)
  <2>1. \A m \in SC : nvm'[m].hard_disabled = nvm[m].hard_disabled
    <3>1. CASE nvm' = nvm
      BY <3>1
    <3>2. CASE \E d, r : nvm' = [nvm EXCEPT ![n].devices[d] = r]
      <4>1. PICK d, r : nvm' = [nvm EXCEPT ![n].devices[d] = r]
        BY <3>2
      <4>2. /\ nvm \in [SC -> NvmType]
            /\ nvm'[n] = [nvm[n] EXCEPT !.devices[d] = r]
            /\ \A m \in SC : m # n => nvm'[m] = nvm[m]
        BY <4>1 DEF TypeOK
      <4>3. QED
        BY <4>2 DEF NvmType
    <3>3. QED
      BY <1>19, <3>1, <3>2 DEF RecordAck
  <2>2. /\ UNCHANGED <<state, audits, up>> /\ Ready(n)
        /\ \/ pend' = pend
           \/ pend' = [pend EXCEPT ![n] = @ \cup {"assignment_phase_complete"}]
    <3>1. UNCHANGED <<state, audits, up>> /\ Ready(n)
      BY <1>19 DEF RecordAck, Hears, node, env
    <3>2. pend' = [pend EXCEPT ![n] = @ \cup
            IF AllAssigned(devRam'[n]) THEN {"assignment_phase_complete"} ELSE {}]
      BY <1>19 DEF RecordAck
    <3>3. pend \in [SC -> SUBSET SelfEvent]
      BY DEF TypeOK
    <3>4. CASE AllAssigned(devRam'[n])
      BY <3>1, <3>2, <3>4
    <3>5. CASE ~AllAssigned(devRam'[n])
      BY <3>1, <3>2, <3>3, <3>5
    <3>6. QED
      BY <3>4, <3>5
  <2>3. /\ \A m \in SC \ {n} : pend'[m] = pend[m]
        /\ \A e \in {"ui_g_hard_disable", "hard_enable_apply", "audit_pass_done"} :
             e \in pend'[n] <=> e \in pend[n]
    <3>1. pend \in [SC -> SUBSET SelfEvent]
      BY DEF TypeOK
    <3>2. CASE pend' = pend
      BY <3>2
    <3>3. CASE pend' = [pend EXCEPT ![n] = @ \cup {"assignment_phase_complete"}]
      BY <3>1, <3>3
    <3>4. QED
      BY <2>2, <3>2, <3>3
  <2>4. QED
    <3>1. Ordinary(n)
      BY <2>1, <2>2, <2>3 DEF Ordinary
    <3>2. KeepsDriver(n)
      BY <2>2, <2>3 DEF KeepsDriver
    <3>3. QED
      BY <3>1, <3>2
<1>20. CASE ReenterAudit(n)
  <2>1. /\ Ready(n) /\ state[n] \in HeartbeatOut /\ EnterAudit(n)
        /\ UNCHANGED <<up, nvm, pend>>
    BY <1>20 DEF ReenterAudit, Hears, env
  <2>2. /\ state'[n] = "audit" /\ state[n] # "hard_disabled"
        /\ \A m \in SC \ {n} : state'[m] = state[m]
    BY <2>1 DEF EnterAudit, Goto, TypeOK, HeartbeatOut
  <2>3. audits'[n] > 0 /\ \A m \in SC \ {n} : audits'[m] = audits[m]
    BY <2>1, SubnetControllerAssumption DEF EnterAudit, TypeOK
  <2>4. QED
    BY <2>1, <2>2, <2>3 DEF Ordinary, KeepsDriver
<1>21. CASE AnswerHeartbeat(n)
  BY <1>21, SubnetControllerAssumption
     DEF AnswerHeartbeat, Hears, Ready, TypeOK, NvmType, Ordinary, KeepsDriver,
         node, lists, tasks, env, HeartbeatOut
<1>22. CASE YieldToHeartbeat(n)
  BY <1>22, SubnetControllerAssumption
     DEF YieldToHeartbeat, Goto, Hears, Ready, TypeOK, NvmType, Ordinary,
         KeepsDriver, lists, tasks, env, HeartbeatOut
<1>23. CASE RepeatAlarm(n)
  BY <1>23, SubnetControllerAssumption
     DEF RepeatAlarm, Hears, Ready, TypeOK, NvmType, Ordinary, KeepsDriver,
         node, lists, tasks, env, HeartbeatOut
<1>24. CASE DropFrame(n)
  BY <1>24, SubnetControllerAssumption
     DEF DropFrame, Hears, Ready, TypeOK, NvmType, Ordinary, KeepsDriver, node,
         lists, tasks, env, HeartbeatOut
<1>25. QED
  BY <1>1, <1>2, <1>3, <1>4, <1>5, <1>6, <1>7, <1>8, <1>9, <1>10, <1>11, <1>12,
     <1>13, <1>14, <1>15, <1>16, <1>17, <1>18, <1>19, <1>20, <1>21, <1>22,
     <1>23, <1>24 DEF Receive

LEMMA OthersOrdinary ==
  ASSUME TypeOK, NEW n \in SC,
         \/ StartupDelay(n) \/ ArbitrationWindow(n) \/ TokenAckWindow(n)
         \/ IuResetDetected(n) \/ TakeLead(n) \/ PassToken(n)
         \/ AssignmentPhaseComplete(n) \/ Task(n) \/ SoftDisable(n)
  PROVE  Ordinary(n) /\ KeepsDriver(n)
<1>1. CASE StartupDelay(n)
  BY <1>1, SubnetControllerAssumption
     DEF StartupDelay, Goto, Ready, TypeOK, NvmType, Ordinary, KeepsDriver,
         lists, tasks, env
<1>2. CASE ArbitrationWindow(n)
  BY <1>2, SubnetControllerAssumption
     DEF ArbitrationWindow, Goto, EnterAudit, Ready, TypeOK, NvmType, Ordinary,
         KeepsDriver, lists, env
<1>3. CASE TokenAckWindow(n)
  BY <1>3, SubnetControllerAssumption
     DEF TokenAckWindow, Goto, EnterAudit, Quiet, Ready, TypeOK, NvmType,
         Ordinary, KeepsDriver, lists, env
<1>4. CASE IuResetDetected(n)
  BY <1>4, SubnetControllerAssumption
     DEF IuResetDetected, Goto, EnterAudit, Quiet, Ready, TypeOK, NvmType,
         Ordinary, KeepsDriver, lists, env
<1>5. CASE TakeLead(n)
  BY <1>5, SubnetControllerAssumption
     DEF TakeLead, Goto, AuditPassDone, Ready, TypeOK, NvmType, Ordinary,
         KeepsDriver, lists, env
<1>6. CASE PassToken(n)
  BY <1>6, SubnetControllerAssumption
     DEF PassToken, Goto, AuditPassDone, Ready, TypeOK, NvmType, Ordinary,
         KeepsDriver, lists, env
<1>7. CASE AssignmentPhaseComplete(n)
  BY <1>7, SubnetControllerAssumption
     DEF AssignmentPhaseComplete, Goto, Ready, TypeOK, NvmType, Ordinary,
         KeepsDriver, lists, env, HeartbeatOut
<1>8. CASE SoftDisable(n)
  BY <1>8, SubnetControllerAssumption
     DEF SoftDisable, Goto, EnterSoftDisabled, Spend, Ready, TypeOK, NvmType,
         Ordinary, KeepsDriver, lists, tasks
<1>9. CASE AuditQuery(n)
  BY <1>9, SubnetControllerAssumption
     DEF AuditQuery, Ready, TypeOK, NvmType, Ordinary, KeepsDriver, node,
         lists, tasks, env
<1>10. CASE AuditFinished(n)
  BY <1>10, SubnetControllerAssumption
     DEF AuditFinished, Quiet, Ready, TypeOK, NvmType, Ordinary, KeepsDriver,
         node, lists, env
<1>11. CASE HeartbeatPeriod(n)
  BY <1>11, SubnetControllerAssumption
     DEF HeartbeatPeriod, Ready, TypeOK, NvmType, Ordinary, KeepsDriver, node,
         lists, tasks, env, HeartbeatOut
<1>12. ASSUME NEW c \in children[n], ChildSeeded(n, c)
      PROVE  Ordinary(n) /\ KeepsDriver(n)
  BY <1>12 DEF ChildSeeded, Ready, TypeOK, Ordinary, KeepsDriver, node, lists, env
<1>13. ASSUME NEW d \in Unit, SweepVisit(n, d)
      PROVE  Ordinary(n) /\ KeepsDriver(n)
  BY <1>13 DEF SweepVisit, Ready, TypeOK, Ordinary, KeepsDriver, node, env
<1>14. ASSUME NEW c \in children[n], StraySeed(n, c)
       PROVE  Ordinary(n) /\ KeepsDriver(n)
  BY <1>14 DEF StraySeed, Hears, Quiet, Ordinary, KeepsDriver, node
<1>15. QED
  BY <1>1, <1>2, <1>3, <1>4, <1>5, <1>6, <1>7, <1>8, <1>9, <1>10, <1>11, <1>12,
     <1>13, <1>14 DEF Task, AuditStep, SeedChild

-----------------------------------------------------------------------------
(* Hard disable *)

LEMMA EnterHardDisabledFlag ==
  ASSUME TypeOK, NEW n \in SC, EnterHardDisabled(n)
  PROVE  /\ state'[n] = "hard_disabled" /\ nvm'[n].hard_disabled
         /\ \A m \in SC \ {n} : /\ state'[m] = state[m]
                                /\ nvm'[m].hard_disabled = nvm[m].hard_disabled
BY DEF EnterHardDisabled, Goto, TypeOK, NvmType

LEMMA HardDisableStep ==
  TypeOK /\ HardDisableDurable /\ [Next]_vars => HardDisableDurable'
<1> SUFFICES ASSUME TypeOK, HardDisableDurable, [Next]_vars
             PROVE  HardDisableDurable'
  OBVIOUS
<1> USE DEF HardDisableDurable
<1>1. ASSUME NEW n \in SC, Ordinary(n)
      PROVE  HardDisableDurable'
  BY <1>1 DEF Ordinary, Ready
<1>2. ASSUME NEW n \in SC, Boot(n)
      PROVE  HardDisableDurable'
  BY <1>2 DEF Boot, EnterPreStartup, Goto, TypeOK
<1>3. ASSUME NEW n \in SC, PassiveDeadline(n)
      PROVE  HardDisableDurable'
  BY <1>3 DEF PassiveDeadline, Ready, EnterPreStartup, Goto, TypeOK
<1>4. ASSUME NEW n \in SC, Crash(n)
      PROVE  HardDisableDurable'
  BY <1>4 DEF Crash, Goto, TypeOK
<1>5. ASSUME NEW n \in SC, LinkFail(n) \/ LinkRestore(n)
      PROVE  HardDisableDurable'
  BY <1>5 DEF LinkFail, LinkRestore, node, tasks
<1>6. ASSUME NEW n \in SC, HardDisable(n) \/ Malfunction(n)
      PROVE  HardDisableDurable'
  <2>1. EnterHardDisabled(n) /\ pend' = pend /\ up' = up
    BY <1>6 DEF HardDisable, Malfunction, tasks
  <2>2. QED
    BY <2>1, EnterHardDisabledFlag DEF TypeOK
<1>7. ASSUME NEW n \in SC, HardEnable(n)
      PROVE  HardDisableDurable'
  BY <1>7 DEF HardEnable, TypeOK, NvmType, node
<1>8. ASSUME NEW n \in SC, Reset(n)
      PROVE  HardDisableDurable'
  BY <1>8 DEF Reset, Ready, EnterPreStartup, Goto, TypeOK
<1>9. ASSUME NEW n \in SC, HopToHardDisabled(n)
      PROVE  HardDisableDurable'
  <2>1. EnterHardDisabled(n) /\ up' = up
    BY <1>9 DEF HopToHardDisabled, env
  <2>2. \A m \in SC \ {n} : pend'[m] = pend[m]
    BY <1>9 DEF HopToHardDisabled, TypeOK
  <2>3. QED
    BY <2>1, <2>2, EnterHardDisabledFlag
<1>10. ASSUME NEW n \in SC, HardEnableApply(n)
       PROVE  HardDisableDurable'
  <2>1. up' = up /\ nvm' = nvm
    BY <1>10 DEF HardEnableApply, env
  <2>2. EnterPreStartup(n, pend[n] \ {"hard_enable_apply"})
    BY <1>10 DEF HardEnableApply
  <2>3. QED
    BY <2>1, <2>2 DEF EnterPreStartup, Goto, TypeOK
<1>11. ASSUME NEW n \in SC, NEW e \in SelfEvent, DropEvent(n, e)
       PROVE  HardDisableDurable'
  <2>1. up' = up /\ nvm' = nvm /\ state' = state
    BY <1>11 DEF DropEvent, node, env
  <2>2. e # "ui_g_hard_disable"
    BY <1>11 DEF DropEvent, Ready
  <2>3. e = "hard_enable_apply" => state[n] # "hard_disabled"
    BY <1>11 DEF DropEvent, HandledEvent
  <2>4. pend' = [pend EXCEPT ![n] = @ \ {e}]
    BY <1>11 DEF DropEvent
  <2>5. QED
    BY <2>1, <2>2, <2>3, <2>4 DEF TypeOK
<1>12. ASSUME NEW d \in Dev,
              \/ DeviceWaits(d) \/ DeviceLeaves(d) \/ DeviceAck(d)
              \/ \E f \in Announcement(d) : DeviceAnnounce(d, f)
       PROVE  HardDisableDurable'
  BY <1>12
     DEF DeviceWaits, DeviceLeaves, DeviceAck, DeviceAnnounce, node, tasks, env
<1>13. CASE UNCHANGED vars
  BY <1>13 DEF vars, node, tasks, env
<1>14. QED
  BY <1>1, <1>2, <1>3, <1>4, <1>5, <1>6, <1>7, <1>8, <1>9, <1>10, <1>11, <1>12,
     <1>13, ReceiveOrdinary, OthersOrdinary
     DEF Next, Timer, Scheduled, Environment

\* Whatever the SCs do, and however often they are reset or lose power, a hard
\* disable holds until an enable cleared it in nvm.
THEOREM HardDisableHolds == Spec => []HardDisableDurable
<1>1. Init => HardDisableDurable
  BY DEF Init, HardDisableDurable
<1>2. QED
  BY <1>1, HardDisableStep, TypeCorrect, PTL DEF Spec

-----------------------------------------------------------------------------
(* The audit's driver *)

LEMMA DriverStep ==
  TypeOK /\ AuditHasDriver /\ [Next]_vars => AuditHasDriver'
<1> SUFFICES ASSUME TypeOK, AuditHasDriver, [Next]_vars
             PROVE  AuditHasDriver'
  OBVIOUS
<1> USE DEF AuditHasDriver
<1>1. ASSUME NEW n \in SC, Ordinary(n), KeepsDriver(n)
      PROVE  AuditHasDriver'
  BY <1>1 DEF Ordinary, KeepsDriver, Ready
<1>2. ASSUME NEW n \in SC,
             \/ Boot(n) \/ PassiveDeadline(n) \/ Reset(n) \/ HardEnableApply(n)
      PROVE  AuditHasDriver'
  <2>1. \E ev : EnterPreStartup(n, ev)
    BY <1>2 DEF Boot, PassiveDeadline, Reset, HardEnableApply
  <2>2. audits' = audits /\ \A m \in SC \ {n} : up'[m] = up[m]
    BY <1>2 DEF Boot, PassiveDeadline, Reset, HardEnableApply, TypeOK, env
  <2>3. QED
    BY <2>1, <2>2 DEF EnterPreStartup, Goto, TypeOK
<1>3. ASSUME NEW n \in SC, Crash(n)
      PROVE  AuditHasDriver'
  BY <1>3 DEF Crash, Goto, TypeOK
<1>4. ASSUME NEW n \in SC,
             HardDisable(n) \/ Malfunction(n) \/ HopToHardDisabled(n)
      PROVE  AuditHasDriver'
  BY <1>4 DEF HardDisable, Malfunction, HopToHardDisabled, EnterHardDisabled,
              Goto, TypeOK, lists, tasks, env
<1>5. ASSUME NEW n \in SC, LinkFail(n) \/ LinkRestore(n) \/ HardEnable(n)
      PROVE  AuditHasDriver'
  BY <1>5 DEF LinkFail, LinkRestore, HardEnable, TypeOK, node, tasks
<1>6. ASSUME NEW n \in SC, NEW e \in SelfEvent, DropEvent(n, e)
      PROVE  AuditHasDriver'
  BY <1>6 DEF DropEvent, HandledEvent, SelfEvent, TypeOK, node, env
<1>7. ASSUME NEW d \in Dev,
             \/ DeviceWaits(d) \/ DeviceLeaves(d) \/ DeviceAck(d)
             \/ \E f \in Announcement(d) : DeviceAnnounce(d, f)
      PROVE  AuditHasDriver'
  BY <1>7
     DEF DeviceWaits, DeviceLeaves, DeviceAck, DeviceAnnounce, node, tasks, env
<1>8. CASE UNCHANGED vars
  BY <1>8 DEF vars, node, tasks, env
<1>9. QED
  BY <1>1, <1>2, <1>3, <1>4, <1>5, <1>6, <1>7, <1>8, ReceiveOrdinary,
     OthersOrdinary
     DEF Next, Timer, Scheduled, Environment

\* An SC in audit, which has no timer, always has a task or an event of its own
\* left that will end the audit.
THEOREM AuditIsDriven == Spec => []AuditHasDriver
<1>1. Init => AuditHasDriver
  BY DEF Init, AuditHasDriver
<1>2. QED
  BY <1>1, DriverStep, TypeCorrect, PTL DEF Spec
=============================================================================
