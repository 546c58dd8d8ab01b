----------------------- MODULE SubnetControllerRivalry -----------------------
(***************************************************************************)
(* Proof that two leaders learn of each other while no send has failed: a  *)
(* heartbeat is part of taking the lead, a frame on its way stays on its   *)
(* way until its receiver handles it, and no leader handles a heartbeat    *)
(* without stepping down or answering.                                     *)
(***************************************************************************)
EXTENDS SubnetControllerProofs

Heartbeat(n) == From("aSC_HEARTBEAT", n)

-----------------------------------------------------------------------------
(* Sequences as sets of their elements *)

LEMMA ConcatSet ==
  ASSUME NEW S, NEW s \in Seq(S), NEW t \in Seq(S)
  PROVE  ToSet(s \o t) = ToSet(s) \cup ToSet(t)
<1>1. /\ DOMAIN s = 1..Len(s) /\ DOMAIN t = 1..Len(t)
      /\ DOMAIN (s \o t) = 1..(Len(s) + Len(t))
      /\ Len(s) \in Nat /\ Len(t) \in Nat
  OBVIOUS
<1>2. \A i \in 1..Len(s) : (s \o t)[i] = s[i]
  OBVIOUS
<1>3. \A i \in 1..Len(t) : (s \o t)[Len(s) + i] = t[i]
  OBVIOUS
<1>4. ASSUME NEW x \in ToSet(s \o t)
      PROVE  x \in ToSet(s) \cup ToSet(t)
  <2>1. PICK i \in 1..(Len(s) + Len(t)) : x = (s \o t)[i]
    BY <1>1, <1>4 DEF ToSet
  <2>2. CASE i <= Len(s)
    <3>1. i \in 1..Len(s)
      BY <2>1, <2>2
    <3>2. QED
      BY <1>1, <1>2, <2>1, <3>1 DEF ToSet
  <2>3. CASE i > Len(s)
    <3>1. i - Len(s) \in 1..Len(t) /\ i = Len(s) + (i - Len(s))
      BY <1>1, <2>1, <2>3
    <3>2. x = t[i - Len(s)]
      BY <1>3, <2>1, <3>1
    <3>3. QED
      BY <1>1, <3>1, <3>2 DEF ToSet
  <2>4. QED
    BY <1>1, <2>1, <2>2, <2>3
<1>5. ASSUME NEW x \in ToSet(s)
      PROVE  x \in ToSet(s \o t)
  <2>1. PICK i \in 1..Len(s) : x = s[i]
    BY <1>1, <1>5 DEF ToSet
  <2>2. i \in 1..(Len(s) + Len(t)) /\ x = (s \o t)[i]
    BY <1>1, <1>2, <2>1
  <2>3. QED
    BY <1>1, <2>2 DEF ToSet
<1>6. ASSUME NEW x \in ToSet(t)
      PROVE  x \in ToSet(s \o t)
  <2>1. PICK i \in 1..Len(t) : x = t[i]
    BY <1>1, <1>6 DEF ToSet
  <2>2. Len(s) + i \in 1..(Len(s) + Len(t)) /\ x = (s \o t)[Len(s) + i]
    BY <1>1, <1>3, <2>1
  <2>3. QED
    BY <1>1, <2>2 DEF ToSet
<1>7. QED
  BY <1>4, <1>5, <1>6

LEMMA AppendSet ==
  ASSUME NEW S, NEW s \in Seq(S), NEW x \in S
  PROVE  ToSet(s) \subseteq ToSet(Append(s, x))
<1>1. /\ DOMAIN s = 1..Len(s) /\ DOMAIN Append(s, x) = 1..(Len(s) + 1)
      /\ Len(s) \in Nat
      /\ \A i \in 1..Len(s) : Append(s, x)[i] = s[i]
  OBVIOUS
<1>2. ASSUME NEW y \in ToSet(s)
      PROVE  y \in ToSet(Append(s, x))
  <2>1. PICK i \in 1..Len(s) : y = s[i]
    BY <1>1, <1>2 DEF ToSet
  <2>2. i \in 1..(Len(s) + 1) /\ y = Append(s, x)[i]
    BY <1>1, <2>1
  <2>3. QED
    BY <1>1, <2>2 DEF ToSet
<1>3. QED
  BY <1>2

LEMMA TailSet ==
  ASSUME NEW S, NEW s \in Seq(S), s # <<>>, NEW x \in ToSet(s), x # Head(s)
  PROVE  x \in ToSet(Tail(s))
<1>1. /\ DOMAIN s = 1..Len(s) /\ DOMAIN Tail(s) = 1..(Len(s) - 1)
      /\ Len(s) \in Nat \ {0} /\ Head(s) = s[1]
      /\ \A i \in 1..(Len(s) - 1) : Tail(s)[i] = s[i + 1]
  OBVIOUS
<1>2. PICK i \in 1..Len(s) : x = s[i]
  BY <1>1 DEF ToSet
<1>3. i - 1 \in 1..(Len(s) - 1) /\ (i - 1) + 1 = i
  BY <1>1, <1>2
<1>4. x = Tail(s)[i - 1]
  BY <1>1, <1>2, <1>3
<1>5. QED
  BY <1>1, <1>3, <1>4 DEF ToSet

-----------------------------------------------------------------------------
(* What sending and receiving do to the heartbeats on their way *)

LEMMA OnBusSet ==
  ASSUME NEW n \in SC, NEW fs \in Seq(Frame), NEW q \in [SC -> Seq(Frame)]
  PROVE  /\ OnBus(n, fs, q)[n] = q[n]
         /\ \A m \in SC \ {n} :
              /\ ToSet(q[m]) \subseteq ToSet(OnBus(n, fs, q)[m])
              /\ up[m] /\ linked[n] =>
                   ToSet(fs) \subseteq ToSet(OnBus(n, fs, q)[m])
<1>1. OnBus(n, fs, q)[n] = q[n]
  BY DEF OnBus
<1>2. ASSUME NEW m \in SC \ {n}
      PROVE  /\ ToSet(q[m]) \subseteq ToSet(OnBus(n, fs, q)[m])
             /\ up[m] /\ linked[n] =>
                  ToSet(fs) \subseteq ToSet(OnBus(n, fs, q)[m])
  <2>1. OnBus(n, fs, q)[m] = IF up[m] /\ linked[n] THEN q[m] \o fs ELSE q[m]
    BY DEF OnBus
  <2>2. ToSet(q[m] \o fs) = ToSet(q[m]) \cup ToSet(fs)
    BY ConcatSet
  <2>3. QED
    BY <2>1, <2>2
<1>3. QED
  BY <1>1, <1>2

LEMMA SendHeeds ==
  ASSUME TypeOK, NEW n \in SC, NEW fs \in Seq(Frame), Send(n, fs)
  PROVE  /\ queue'[n] = queue[n]
         /\ \A m \in SC \ {n} :
              /\ ToSet(queue[m]) \subseteq ToSet(queue'[m])
              /\ up[m] /\ linked[n] => ToSet(fs) \subseteq ToSet(queue'[m])
BY OnBusSet DEF Send, TypeOK

LEMMA ReplyHeeds ==
  ASSUME TypeOK, NEW n \in SC, NEW fs \in Seq(Frame), queue[n] # <<>>,
         Reply(n, fs)
  PROVE  /\ \A x \in ToSet(queue[n]) : x # Head(queue[n]) => x \in ToSet(queue'[n])
         /\ \A m \in SC \ {n} :
              /\ ToSet(queue[m]) \subseteq ToSet(queue'[m])
              /\ up[m] /\ linked[n] => ToSet(fs) \subseteq ToSet(queue'[m])
<1> DEFINE q == [queue EXCEPT ![n] = Tail(@)]
<1>1. q \in [SC -> Seq(Frame)] /\ q[n] = Tail(queue[n])
      /\ \A m \in SC \ {n} : q[m] = queue[m]
  BY DEF TypeOK
<1>2. queue' = OnBus(n, fs, q)
  BY DEF Reply
<1>3. \A x \in ToSet(queue[n]) : x # Head(queue[n]) => x \in ToSet(Tail(queue[n]))
  BY TailSet DEF TypeOK
<1> HIDE DEF q
<1>4. QED
  BY <1>1, <1>2, <1>3, OnBusSet

-----------------------------------------------------------------------------
(* Steps that miss no heartbeat *)

\* n says nothing that others lose, and is a leader after the step only if it
\* told everybody so, or was one and every heartbeat to it still waits.
Heeds(n) ==
  /\ up' = up /\ linked' = linked /\ budget'.fault = budget.fault
  /\ \A m \in SC \ {n} : /\ state'[m] = state[m]
                         /\ ToSet(queue[m]) \subseteq ToSet(queue'[m])
  /\ state'[n] \in HeartbeatOut =>
       \/ \A m \in SC \ {n} : up[m] => Heartbeat(n) \in ToSet(queue'[m])
       \/ /\ state[n] \in HeartbeatOut
          /\ \A m \in SC : Heartbeat(m) \in ToSet(queue[n])
                             => Heartbeat(m) \in ToSet(queue'[n])

\* A frame other than a heartbeat, whatever n answers.
LEMMA OtherFrame ==
  ASSUME TypeOK, NEW n \in SC, NEW fs \in Seq(Frame), queue[n] # <<>>,
         Reply(n, fs), Head(queue[n]).type # "aSC_HEARTBEAT",
         UNCHANGED <<up, linked, budget>>, \A m \in SC \ {n} : state'[m] = state[m],
         state'[n] \in HeartbeatOut => state[n] \in HeartbeatOut
  PROVE  Heeds(n)
<1>1. \A m \in SC : Heartbeat(m).type = "aSC_HEARTBEAT"
  BY DEF Heartbeat, From, Empty
<1>2. QED
  BY <1>1, ReplyHeeds DEF Heeds, env

\* Any frame at all, if n does not lead afterwards.
LEMMA NotLeading ==
  ASSUME TypeOK, NEW n \in SC, NEW fs \in Seq(Frame), queue[n] # <<>>,
         Reply(n, fs), UNCHANGED <<up, linked, budget>>,
         \A m \in SC \ {n} : state'[m] = state[m], state'[n] \notin HeartbeatOut
  PROVE  Heeds(n)
BY ReplyHeeds DEF Heeds, env

LEMMA AnswerType ==
  /\ <<>> \in Seq(Frame)
  /\ \A f \in Frame : <<f>> \in Seq(Frame)
OBVIOUS

-----------------------------------------------------------------------------
(* Receiving *)

LEMMA ReceiveReplies ==
  ASSUME TypeOK, NEW n \in SC, Receive(n)
  PROVE  queue[n] # <<>> /\ \E fs \in Seq(Frame) : Reply(n, fs)
<1>1. ASSUME NEW f \in Frame, queue[n] # <<>>, Reply(n, <<f>>)
      PROVE  queue[n] # <<>> /\ \E fs \in Seq(Frame) : Reply(n, fs)
  <2>1. <<f>> \in Seq(Frame)
    OBVIOUS
  <2>2. QED
    BY <1>1, <2>1
<1>2. ASSUME queue[n] # <<>>, Take(n)
      PROVE  queue[n] # <<>> /\ \E fs \in Seq(Frame) : Reply(n, fs)
  BY <1>2, AnswerType DEF Take
<1>3. CASE \/ ListStartup(n) \/ YieldToCoordinator(n) \/ YieldToAsc(n)
           \/ RecordDeclaration(n) \/ YieldToBetter(n) \/ AlreadyDeclared(n)
           \/ FinishAsIsc(n) \/ RememberAsc(n)
  BY <1>2, <1>3
     DEF ListStartup, YieldToCoordinator, YieldToAsc, RecordDeclaration,
         YieldToBetter, AlreadyDeclared, FinishAsIsc, RememberAsc, Hears
<1>4. CASE \/ DeviceArrival(n) \/ RecordAck(n) \/ ReenterAudit(n)
           \/ YieldToHeartbeat(n) \/ DropFrame(n)
  BY <1>2, <1>4
     DEF DeviceArrival, RecordAck, ReenterAudit, YieldToHeartbeat, DropFrame,
         Hears
<1>5. CASE \/ JoinStartup(n) \/ AbsorbStartup(n) \/ Reassert(n)
           \/ AnswerDeclaration(n) \/ DeclareIfSilent(n) \/ TakeToken(n)
           \/ AnswerHeartbeat(n)
  <2>1. queue[n] # <<>>
    BY <1>5 DEF JoinStartup, AbsorbStartup, Reassert, AnswerDeclaration,
                DeclareIfSilent, TakeToken, AnswerHeartbeat, Hears
  <2>2. \E t \in FromSc : Reply(n, <<From(t, n)>>) \/ Reply(n, <<Credentials(t, n)>>)
    BY <1>5 DEF JoinStartup, AbsorbStartup, Reassert, AnswerDeclaration,
                DeclareIfSilent, Declare, TakeToken, AnswerHeartbeat, FromSc
  <2>3. QED
    BY <1>1, <2>1, <2>2, ScFrameType
<1>6. CASE BecomeSoftDisabled(n) \/ BecomeInactive(n)
  <2>1. queue[n] # <<>> /\ n \in Unit
    BY <1>6 DEF BecomeSoftDisabled, BecomeInactive, Hears, Unit
  <2>2. Reply(n, <<FromDevice("DEVICE_ASSIGNMENT_ACK", n, Head(queue[n]).et)>>)
    BY <1>6 DEF BecomeSoftDisabled, BecomeInactive, Acknowledge
  <2>3. QED
    BY <1>1, <2>1, <2>2, HeadType, UnitFrameType
<1>7. CASE AssignArrival(n)
  <2>1. queue[n] # <<>> /\ Sender(n) \in Unit
    BY <1>7, HeadType
       DEF AssignArrival, Hears, Designators, Anonymous, FromSc, Unit
  <2>2. Reply(n, AssignFrames(n, Sender(n)))
    BY <1>7 DEF AssignArrival
  <2>3. QED
    BY <2>1, <2>2, AssignFramesType
<1>8. CASE RepeatAlarm(n)
  <2>1. queue[n] # <<>> /\ Empty("DEVICE_SOFT_DISABLE_ALARM") \in Frame
    BY <1>8, EmptyType DEF RepeatAlarm, Hears, Anonymous
  <2>2. QED
    BY <1>1, <1>8, <2>1 DEF RepeatAlarm
<1>9. QED
  BY <1>3, <1>4, <1>5, <1>6, <1>7, <1>8 DEF Receive

LEMMA ReceiveStays ==
  ASSUME TypeOK, NEW n \in SC, Receive(n)
  PROVE  /\ UNCHANGED <<up, linked, budget>> /\ \A m \in SC \ {n} : state'[m] = state[m]
         /\ state'[n] \in HeartbeatOut =>
              /\ state[n] \in HeartbeatOut
              /\ Head(queue[n]).type # "aSC_HEARTBEAT" \/ AnswerHeartbeat(n)
<1> DEFINE Stays ==
      /\ UNCHANGED <<up, linked, budget>> /\ \A m \in SC \ {n} : state'[m] = state[m]
      /\ state'[n] \in HeartbeatOut =>
           /\ state[n] \in HeartbeatOut
           /\ Head(queue[n]).type # "aSC_HEARTBEAT" \/ AnswerHeartbeat(n)
<1>1. ASSUME UNCHANGED <<up, linked, budget>>, NEW s \in State \ HeartbeatOut, Goto(n, s)
      PROVE  Stays
  BY <1>1 DEF Goto, TypeOK
<1>2. ASSUME UNCHANGED <<up, linked, budget>>, UNCHANGED state,
             Head(queue[n]).type # "aSC_HEARTBEAT" \/ state[n] \notin HeartbeatOut
      PROVE  Stays
  BY <1>2
<1>3. CASE JoinStartup(n) \/ YieldToCoordinator(n) \/ YieldToAsc(n) \/ YieldToBetter(n)
  BY <1>1, <1>3 DEF JoinStartup, YieldToCoordinator, YieldToAsc, YieldToBetter,
                    EnterPassive, State, HeartbeatOut, env
<1>4. CASE TakeToken(n) \/ ReenterAudit(n) \/ FinishAsIsc(n) \/ YieldToHeartbeat(n)
  BY <1>1, <1>4 DEF TakeToken, ReenterAudit, FinishAsIsc, YieldToHeartbeat,
                    EnterAudit, State, HeartbeatOut, ActiveCoordinator, env
<1>5. CASE BecomeSoftDisabled(n) \/ BecomeInactive(n)
  BY <1>1, <1>5 DEF BecomeSoftDisabled, BecomeInactive, EnterSoftDisabled,
                    Acknowledge, State, HeartbeatOut, env
<1>6. CASE \/ ListStartup(n) \/ AbsorbStartup(n) \/ RecordDeclaration(n)
           \/ Reassert(n) \/ AnswerDeclaration(n) \/ DeclareIfSilent(n)
           \/ AlreadyDeclared(n)
  BY <1>2, <1>6 DEF ListStartup, AbsorbStartup, RecordDeclaration, Reassert,
                    AnswerDeclaration, DeclareIfSilent, AlreadyDeclared,
                    Declare, Hears, node, env
<1>7. CASE \/ DeviceArrival(n) \/ AssignArrival(n) \/ RecordAck(n)
           \/ RepeatAlarm(n)
  BY <1>2, <1>7 DEF DeviceArrival, AssignArrival, RecordAck, RepeatAlarm,
                    Hears, node, env
<1>8. CASE RememberAsc(n)
  BY <1>2, <1>8 DEF RememberAsc, Hears, node, HeartbeatOut, env
<1>9. CASE DropFrame(n)
  <2>1. state[n] \in HeartbeatOut => "aSC_HEARTBEAT" \in Handled[state[n]]
    BY DEF HeartbeatOut, Handled
  <2>2. QED
    BY <1>2, <1>9, <2>1 DEF DropFrame, Hears, node, env
<1>10. CASE AnswerHeartbeat(n)
  BY <1>10 DEF AnswerHeartbeat, Hears, node, env
<1>11. QED
  BY <1>3, <1>4, <1>5, <1>6, <1>7, <1>8, <1>9, <1>10 DEF Receive

LEMMA ReceiveHeeds ==
  ASSUME TypeOK, NEW n \in SC, linked[n], Receive(n)
  PROVE  Heeds(n)
<1>1. PICK fs \in Seq(Frame) : Reply(n, fs)
  BY ReceiveReplies
<1>2. queue[n] # <<>>
  BY ReceiveReplies
<1>3. CASE state'[n] \notin HeartbeatOut
  BY <1>1, <1>2, <1>3, NotLeading, ReceiveStays
<1>4. CASE Head(queue[n]).type # "aSC_HEARTBEAT"
  BY <1>1, <1>2, <1>4, OtherFrame, ReceiveStays
<1>5. CASE AnswerHeartbeat(n)
  <2>1. Heartbeat(n) \in Frame /\ <<Heartbeat(n)>> \in Seq(Frame)
    BY ScFrameType DEF Heartbeat, FromSc
  <2>2. Reply(n, <<Heartbeat(n)>>)
    BY <1>5 DEF AnswerHeartbeat, Heartbeat
  <2>3. Heartbeat(n) \in ToSet(<<Heartbeat(n)>>)
    BY DEF ToSet
  <2>4. QED
    BY <1>2, <2>1, <2>2, <2>3, ReplyHeeds, ReceiveStays DEF Heeds, env
<1>6. QED
  BY <1>3, <1>4, <1>5, ReceiveStays

-----------------------------------------------------------------------------
(* Sending: the timers, tasks and events of n that send *)

LEMMA SilentHeeds ==
  ASSUME TypeOK, NEW n \in SC, UNCHANGED <<up, linked, queue>>,
         budget'.fault = budget.fault,
         \A m \in SC \ {n} : state'[m] = state[m],
         state'[n] \in HeartbeatOut => state[n] \in HeartbeatOut
  PROVE  Heeds(n)
BY DEF Heeds

LEMMA SendingHeeds ==
  ASSUME TypeOK, NEW n \in SC, NEW fs \in Seq(Frame), Send(n, fs),
         UNCHANGED <<up, linked, budget>>, \A m \in SC \ {n} : state'[m] = state[m],
         state'[n] \in HeartbeatOut => state[n] \in HeartbeatOut
  PROVE  Heeds(n)
BY SendHeeds DEF Heeds, env

LEMMA TakeLeadHeeds ==
  ASSUME TypeOK, NEW n \in SC, linked[n], TakeLead(n)
  PROVE  Heeds(n)
<1> DEFINE fs == <<Heartbeat(n), Empty("SC_READY_TO_TAKE_OVER")>>
<1>1. fs \in Seq(Frame)
  BY ScFrameType, EmptyType DEF Heartbeat, FromSc, Anonymous
<1>2. Send(n, fs)
  BY DEF TakeLead, Heartbeat
<1>3. Heartbeat(n) \in ToSet(fs)
  BY DEF ToSet
<1>4. UNCHANGED <<up, linked, budget>> /\ \A m \in SC \ {n} : state'[m] = state[m]
  BY DEF TakeLead, Goto, TypeOK, env
<1> HIDE DEF fs
<1>5. QED
  BY <1>1, <1>2, <1>3, <1>4, SendHeeds DEF Heeds, env

LEMMA TimerHeeds ==
  ASSUME TypeOK, NEW n \in SC, Timer(n)
  PROVE  Heeds(n)
<1>1. ASSUME NEW t \in FromSc
      PROVE  <<From(t, n)>> \in Seq(Frame) /\ <<Credentials(t, n)>> \in Seq(Frame)
  BY ScFrameType
<1>2. CASE StartupDelay(n)
  <2>1. /\ UNCHANGED <<up, linked, budget>> /\ \A m \in SC \ {n} : state'[m] = state[m]
        /\ state'[n] \notin HeartbeatOut
    BY <1>2 DEF StartupDelay, Goto, TypeOK, HeartbeatOut, env
  <2>2. Send(n, <<From("SC_STARTUP", n)>>)
    BY <1>2 DEF StartupDelay
  <2>3. QED
    BY <1>1, <2>1, <2>2, SendingHeeds DEF FromSc
<1>3. CASE ArbitrationWindow(n)
  <2>1. /\ UNCHANGED <<up, linked, budget>> /\ \A m \in SC \ {n} : state'[m] = state[m]
        /\ state'[n] \notin HeartbeatOut
    BY <1>3 DEF ArbitrationWindow, EnterAudit, Goto, TypeOK, HeartbeatOut, env
  <2>2. Send(n, <<Credentials("SC_COORDINATOR", n)>>)
    BY <1>3 DEF ArbitrationWindow
  <2>3. QED
    BY <1>1, <2>1, <2>2, SendingHeeds DEF FromSc
<1>4. CASE TokenAckWindow(n)
  BY <1>4, SilentHeeds
     DEF TokenAckWindow, EnterAudit, Goto, Quiet, TypeOK, HeartbeatOut, env
<1>5. CASE PassiveDeadline(n)
  BY <1>5, SilentHeeds
     DEF PassiveDeadline, EnterPreStartup, Goto, Spend, Quiet, TypeOK,
         HeartbeatOut
<1>6. QED
  BY <1>2, <1>3, <1>4, <1>5 DEF Timer

LEMMA ScheduledHeeds ==
  ASSUME TypeOK, NEW n \in SC, linked[n], Scheduled(n)
  PROVE  Heeds(n)
<1>1. ASSUME NEW t \in Anonymous
      PROVE  <<Empty(t)>> \in Seq(Frame)
  BY EmptyType
<1>2. CASE IuResetDetected(n)
  BY <1>2, SilentHeeds
     DEF IuResetDetected, EnterAudit, Goto, Quiet, TypeOK, HeartbeatOut, env
<1>3. CASE PassToken(n)
  <2>1. /\ UNCHANGED <<up, linked, budget>> /\ \A m \in SC \ {n} : state'[m] = state[m]
        /\ state'[n] \notin HeartbeatOut
    BY <1>3 DEF PassToken, Goto, TypeOK, HeartbeatOut, env
  <2>2. Send(n, <<Empty("SC_TOKEN_PASS")>>)
    BY <1>3 DEF PassToken
  <2>3. QED
    BY <1>1, <2>1, <2>2, SendingHeeds DEF Anonymous
<1>4. CASE AssignmentPhaseComplete(n)
  <2>1. /\ UNCHANGED <<up, linked, budget>> /\ \A m \in SC \ {n} : state'[m] = state[m]
        /\ state[n] \in HeartbeatOut
    BY <1>4 DEF AssignmentPhaseComplete, Goto, TypeOK
  <2>2. Send(n, <<Empty("SC_CONFIGURATION_FINISHED")>>)
    BY <1>4 DEF AssignmentPhaseComplete
  <2>3. QED
    BY <1>1, <2>1, <2>2, SendingHeeds DEF Anonymous
<1>5. CASE HopToHardDisabled(n)
  BY <1>5, SilentHeeds
     DEF HopToHardDisabled, EnterHardDisabled, Goto, Quiet, TypeOK,
         HeartbeatOut, env
<1>6. CASE HardEnableApply(n)
  BY <1>6, SilentHeeds
     DEF HardEnableApply, EnterPreStartup, Goto, Quiet, TypeOK, HeartbeatOut, env
<1>7. ASSUME NEW e \in SelfEvent, DropEvent(n, e)
      PROVE  Heeds(n)
  BY <1>7, SilentHeeds DEF DropEvent, Quiet, node, env
<1>8. QED
  BY <1>2, <1>3, <1>4, <1>5, <1>6, <1>7, TakeLeadHeeds DEF Scheduled

LEMMA TaskHeeds ==
  ASSUME TypeOK, NEW n \in SC, Task(n)
  PROVE  Heeds(n)
<1>1. ASSUME NEW fs \in Seq(Frame), Send(n, fs), UNCHANGED <<up, linked, budget>>, UNCHANGED state
      PROVE  Heeds(n)
  BY <1>1, SendingHeeds
<1>2. CASE AuditQuery(n)
  <2>1. <<Empty("SC_QUERY")>> \in Seq(Frame)
    BY EmptyType DEF Anonymous
  <2>2. QED
    BY <1>1, <1>2, <2>1 DEF AuditQuery, node, env
<1>3. CASE AuditFinished(n)
  BY <1>3, SilentHeeds DEF AuditFinished, Quiet, node, env
<1>4. ASSUME NEW c \in children[n], ChildSeeded(n, c)
      PROVE  Heeds(n)
  <2>1. c \in [dd : Unit, et : Nat]
    BY DEF TypeOK
  <2>2. Assignment(c.dd, c.et, FALSE) \in Frame
    BY <2>1, UnitFrameType
  <2>3. /\ <<>> \in Seq(Frame)
        /\ <<Assignment(c.dd, c.et, FALSE)>> \in Seq(Frame)
    BY <2>2, AnswerType
  <2>4. \E fs \in Seq(Frame) : Send(n, fs)
    <3>1. CASE HasRival(n, c)
      BY <1>4, <2>3, <3>1 DEF ChildSeeded
    <3>2. CASE ~HasRival(n, c)
      BY <1>4, <2>3, <3>2 DEF ChildSeeded
    <3>3. QED
      BY <3>1, <3>2
  <2>5. QED
    BY <1>1, <1>4, <2>4 DEF ChildSeeded, node, env
<1>5. CASE HeartbeatPeriod(n)
  <2>1. <<From("aSC_HEARTBEAT", n)>> \in Seq(Frame)
    BY ScFrameType DEF FromSc
  <2>2. QED
    BY <1>1, <1>5, <2>1 DEF HeartbeatPeriod, node, env
<1>6. ASSUME NEW d \in Unit, SweepVisit(n, d)
      PROVE  Heeds(n)
  BY <1>1, <1>6, AssignFramesType DEF SweepVisit, node, env
<1>7. ASSUME NEW c \in children[n], StraySeed(n, c)
      PROVE  Heeds(n)
  BY <1>7, SilentHeeds DEF StraySeed, Quiet, node
<1>8. QED
  BY <1>2, <1>3, <1>4, <1>5, <1>6, <1>7 DEF Task, AuditStep, SeedChild

-----------------------------------------------------------------------------
(* The invariant *)

\* Send failures are counted, and while none happened every link works.
FaultsCounted ==
  /\ budget.fault <= MaxFault
  /\ NoSendFailed => \A n \in SC : linked[n]

RivalryInv == FaultsCounted /\ RivalLeadersWillMeet

LEMMA HeedsMeets ==
  ASSUME TypeOK, RivalryInv, NEW n \in SC, Heeds(n)
  PROVE  RivalryInv'
<1>1. FaultsCounted'
  BY DEF RivalryInv, FaultsCounted, NoSendFailed, Heeds
<1>2. ASSUME NoSendFailed', NEW a \in SC, NEW b \in SC, a # b, Leader(a)', Leader(b)'
      PROVE  Told(a, b)' \/ Told(b, a)'
  <2>1. NoSendFailed
    BY <1>2 DEF NoSendFailed, Heeds
  <2>2. CASE \E m \in {a, b} : ~Leader(m)
    <3>1. PICK m \in {a, b} : ~Leader(m)
      BY <2>2
    <3>2. m = n /\ state'[n] \in HeartbeatOut /\ state[n] \notin HeartbeatOut
      BY <1>2, <3>1 DEF Leader, Heeds
    <3>3. \A k \in SC \ {n} : up[k] => Heartbeat(n) \in ToSet(queue'[k])
      BY <3>2 DEF Heeds
    <3>4. up[a] /\ up[b]
      BY <1>2 DEF Leader, Heeds
    <3>5. QED
      BY <1>2, <3>2, <3>3, <3>4 DEF Told, Heartbeat
  <2>3. CASE Leader(a) /\ Leader(b)
    <3>1. Told(a, b) \/ Told(b, a)
      BY <1>2, <2>1, <2>3 DEF RivalryInv, RivalLeadersWillMeet
    <3>2. ASSUME NEW k \in {a, b}, NEW l \in {a, b}, k # l, Told(k, l)
          PROVE  Told(k, l)' \/ Told(l, k)'
      <4>1. Heartbeat(k) \in ToSet(queue[l])
        BY <3>2 DEF Told, Heartbeat
      <4>2. CASE l # n
        BY <4>1, <4>2 DEF Heeds, Told, Heartbeat
      <4>3. CASE l = n
        <5>1. state'[n] \in HeartbeatOut /\ up[k]
          BY <1>2, <4>3 DEF Leader, Heeds
        <5>2. CASE \A m \in SC \ {n} : up[m] => Heartbeat(n) \in ToSet(queue'[m])
          BY <3>2, <4>3, <5>1, <5>2 DEF Told, Heartbeat
        <5>3. CASE \A m \in SC : Heartbeat(m) \in ToSet(queue[n])
                                   => Heartbeat(m) \in ToSet(queue'[n])
          BY <4>1, <4>3, <5>3 DEF Told, Heartbeat
        <5>4. QED
          BY <5>1, <5>2, <5>3 DEF Heeds
      <4>4. QED
        BY <4>2, <4>3
    <3>3. QED
      BY <1>2, <3>1, <3>2
  <2>4. QED
    BY <2>2, <2>3
<1>3. RivalLeadersWillMeet'
  BY <1>2 DEF RivalLeadersWillMeet
<1>4. QED
  BY <1>1, <1>3 DEF RivalryInv

\* The queues as they were, and nobody a leader who was none.
LEMMA StillMeets ==
  ASSUME RivalryInv, UNCHANGED <<linked, budget>>,
         UNCHANGED queue, \A m \in SC : Leader(m)' => Leader(m)
  PROVE  RivalryInv'
<1>1. FaultsCounted'
  BY DEF RivalryInv, FaultsCounted, NoSendFailed
<1>2. RivalLeadersWillMeet'
  BY DEF RivalryInv, RivalLeadersWillMeet, NoSendFailed, Leader, Told
<1>3. QED
  BY <1>1, <1>2 DEF RivalryInv

LEMMA RivalryStep == TypeOK /\ RivalryInv /\ [Next]_vars => RivalryInv'
<1> SUFFICES ASSUME TypeOK, RivalryInv, [Next]_vars
             PROVE  RivalryInv'
  OBVIOUS
<1>1. ASSUME NEW n \in SC, Receive(n) \/ Timer(n) \/ Scheduled(n) \/ Task(n)
      PROVE  RivalryInv'
  <2>1. CASE linked[n] \/ Timer(n) \/ Task(n)
    BY <1>1, <2>1, ReceiveHeeds, TimerHeeds, ScheduledHeeds, TaskHeeds, HeedsMeets
  <2>2. CASE ~linked[n] /\ (Receive(n) \/ Scheduled(n))
    <3>1. ~NoSendFailed
      BY <2>2 DEF RivalryInv, FaultsCounted
    <3>2. UNCHANGED budget
      BY <2>2, ReceiveStays
         DEF Scheduled, IuResetDetected, TakeLead, PassToken,
             AssignmentPhaseComplete, HopToHardDisabled, HardEnableApply,
             DropEvent, env
    <3>3. QED
      BY <3>1, <3>2 DEF RivalryInv, FaultsCounted, RivalLeadersWillMeet,
                        NoSendFailed
  <2>3. QED
    BY <1>1, <2>1, <2>2
<1>2. ASSUME NEW n \in SC, Boot(n)
      PROVE  RivalryInv'
  BY <1>2, StillMeets
     DEF Boot, EnterPreStartup, Goto, TypeOK, Leader, HeartbeatOut
<1>3. ASSUME NEW n \in SC, Crash(n)
      PROVE  RivalryInv'
  <2>1. UNCHANGED linked /\ budget'.fault = budget.fault
    BY <1>3 DEF Crash, Spend, TypeOK
  <2>2. \A m \in SC : /\ queue'[m] = queue[m] \/ ~up'[m]
                      /\ Leader(m)' => Leader(m)
    BY <1>3 DEF Crash, Goto, TypeOK, Leader
  <2>3. QED
    BY <2>1, <2>2 DEF RivalryInv, FaultsCounted, RivalLeadersWillMeet,
                      NoSendFailed, Told, Leader
<1>4. ASSUME NEW n \in SC, LinkFail(n)
      PROVE  RivalryInv'
  <2>1. budget'.fault < MaxFault /\ budget'.fault <= MaxFault
    BY <1>4, SubnetControllerAssumption
       DEF LinkFail, Spend, TypeOK, RivalryInv, FaultsCounted
  <2>2. ~NoSendFailed'
    BY <2>1, SubnetControllerAssumption DEF NoSendFailed
  <2>3. QED
    BY <2>1, <2>2 DEF RivalryInv, FaultsCounted, RivalLeadersWillMeet
<1>5. ASSUME NEW n \in SC, LinkRestore(n)
      PROVE  RivalryInv'
  BY <1>5 DEF LinkRestore, RivalryInv, FaultsCounted, RivalLeadersWillMeet,
              NoSendFailed
<1>6. ASSUME NEW n \in SC,
             \/ HardDisable(n) \/ Malfunction(n) \/ HardEnable(n) \/ Reset(n)
             \/ SoftDisable(n)
      PROVE  RivalryInv'
  <2>1. UNCHANGED <<up, linked, queue>> /\ budget'.fault = budget.fault
    BY <1>6 DEF HardDisable, Malfunction, HardEnable, Reset, SoftDisable, Spend,
                TypeOK
  <2>2. /\ \A m \in SC \ {n} : state'[m] = state[m]
        /\ state'[n] \in HeartbeatOut => state[n] \in HeartbeatOut
    BY <1>6 DEF HardDisable, Malfunction, HardEnable, Reset, SoftDisable,
                EnterHardDisabled, EnterPreStartup, EnterSoftDisabled, Goto,
                TypeOK, HeartbeatOut, node
  <2>3. QED
    BY <2>1, <2>2, SilentHeeds, HeedsMeets
<1>7. ASSUME NEW d \in Dev, NEW f \in Frame,
             Says(f),
             UNCHANGED <<up, linked, state>>, budget'.fault = budget.fault
      PROVE  RivalryInv'
  <2>1. \A m \in SC : ToSet(queue[m]) \subseteq ToSet(Append(queue[m], f))
    <3>1. ASSUME NEW m \in SC
          PROVE  ToSet(queue[m]) \subseteq ToSet(Append(queue[m], f))
      <4>1. queue[m] \in Seq(Frame)
        BY DEF TypeOK
      <4>2. QED
        BY <4>1, AppendSet
    <3>2. QED
      BY <3>1
  <2>2. QED
    BY <1>7, <2>1 DEF Says, RivalryInv, FaultsCounted, RivalLeadersWillMeet,
                      NoSendFailed, Told, Leader
<1>8. ASSUME NEW d \in Dev,
             \/ DeviceWaits(d) \/ DeviceLeaves(d) \/ DeviceAck(d)
             \/ \E f \in Announcement(d) : DeviceAnnounce(d, f)
      PROVE  RivalryInv'
  <2>1. CASE DeviceAck(d)
    <3>1. PICK o \in asked : Says(FromDevice("DEVICE_ASSIGNMENT_ACK", d, o.et))
      BY <2>1 DEF DeviceAck
    <3>2. o.et \in Nat
      BY DEF TypeOK, Owed
    <3>3. FromDevice("DEVICE_ASSIGNMENT_ACK", d, o.et) \in Frame
      BY <3>2, UnitFrameType DEF Unit
    <3>4. QED
      BY <1>7, <2>1, <3>1, <3>3 DEF DeviceAck, node, env
  <2>2. ASSUME NEW f \in Announcement(d), DeviceAnnounce(d, f)
        PROVE  RivalryInv'
    <3>1. f \in Frame
      BY AnnouncementType
    <3>2. budget'.fault = budget.fault
      BY <2>2 DEF DeviceAnnounce, Spend, TypeOK
    <3>3. QED
      BY <1>7, <2>2, <3>1, <3>2 DEF DeviceAnnounce, node
  <2>3. CASE DeviceWaits(d)
    <3>1. Startup(d) \in Frame
      BY AnnouncementType DEF Announcement
    <3>2. budget'.fault = budget.fault
      BY <2>3 DEF DeviceWaits, Spend, TypeOK
    <3>3. QED
      BY <1>7, <2>3, <3>1, <3>2 DEF DeviceWaits, node
  <2>4. CASE DeviceLeaves(d)
    BY <2>4, StillMeets DEF DeviceLeaves, Leader, node
  <2>5. QED
    BY <1>8, <2>1, <2>2, <2>3, <2>4
<1>9. CASE UNCHANGED vars
  BY <1>9 DEF vars, node, env, RivalryInv, FaultsCounted, RivalLeadersWillMeet,
              NoSendFailed, Told, Leader
<1>10. QED
  BY <1>1, <1>2, <1>3, <1>4, <1>5, <1>6, <1>8, <1>9 DEF Next, Environment

LEMMA RivalryInit == Init => RivalryInv
BY SubnetControllerAssumption
   DEF Init, RivalryInv, FaultsCounted, RivalLeadersWillMeet, NoSendFailed,
       Leader

\* As long as no send has failed, of any two leaders one has the other's
\* heartbeat on its way: whatever else happens on the subnet, no rivalry goes
\* unnoticed.
THEOREM RivalLeadersMeet == Spec => []RivalLeadersWillMeet
<1>1. RivalryInv => RivalLeadersWillMeet
  BY DEF RivalryInv
<1>2. QED
  BY <1>1, RivalryInit, RivalryStep, TypeCorrect, PTL DEF Spec
=============================================================================
