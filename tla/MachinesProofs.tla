---------------------------- MODULE MachinesProofs ----------------------------
(***************************************************************************)
(* Proofs about the small machines of a node: CAN error confinement, the   *)
(* alarm log, and commissioning.  They share no state; each has its        *)
(* specification, its invariant and its theorems.                          *)
(***************************************************************************)
EXTENDS CanError, Alarms, Operations, FiniteSetTheorems, SequenceTheorems, TLAPS

-----------------------------------------------------------------------------
(* CAN error confinement *)

CanPush == [count : {"tx", "rx"}, value : Nat]

CanShape ==
  /\ canState \in {"error_active", "error_passive", "bus_off"}
  /\ txCount \in Nat /\ rxCount \in Nat
  /\ pushes \in Seq(CanPush)
  /\ alarmed \in BOOLEAN /\ burst \in BOOLEAN

\* The write that a reboot scheduled is the next to be done.
Clearing == pushes # <<>> /\ Head(pushes).value = 0

\* Why the state follows the counters although one may be set without an event:
\* the only write that clears a count comes first after a reboot, and it is no
\* repetition, since the count of a node that is off the bus is not zero.
CanInv ==
  /\ CanShape
  /\ \A i \in DOMAIN pushes :
       pushes[i].value = 0 => i = 1 /\ pushes[i].count = "tx"
  /\ Clearing => canState = "error_active" /\ txCount > 0
  /\ canState = "bus_off" => txCount > 0
  /\ canState = "error_active" /\ ~Clearing => ~CrossesPassiveLimit(txCount, rxCount)
  /\ canState # "error_active" => alarmed
  /\ ~burst => Len(pushes) <= 1
  /\ canState = "bus_off" /\ ~burst =>
       pushes = <<>> /\ CrossesBusOffLimit(txCount)

LEMMA CanInitInv == CanInit => CanInv
<1> SUFFICES ASSUME CanInit
             PROVE  CanInv
  OBVIOUS
<1>1. CanShape /\ ~CrossesPassiveLimit(txCount, rxCount) /\ pushes = <<>>
  <2>1. alarmed \in BOOLEAN /\ burst \in BOOLEAN
    BY Zenon DEF CanInit
  <2>2. pushes \in Seq(CanPush) /\ pushes = <<>>
    BY DEF CanInit
  <2>3. QED
    BY <2>1, <2>2 DEF CanInit, CanShape, CrossesPassiveLimit
<1>2. canState = "error_active" /\ Len(pushes) = 0 /\ DOMAIN pushes = {}
  BY <1>1 DEF CanInit
<1>3. QED
  BY <1>1, <1>2 DEF CanInv, Clearing

LEMMA BusErrorInv ==
  ASSUME CanInv, NEW err \in BusState, BusError(err)
  PROVE  CanInv'
<1>1. /\ CanShape /\ canState \in {"error_active", "error_passive"}
      /\ pushes \in Seq(CanPush)
  BY DEF BusError, CanInv, CanShape
<1>2. PICK p \in [count : {"tx", "rx"}, value : Nat \ {0}] :
        pushes' = Append(pushes, p)
  <2>1. Counted(err) \in [count : {"tx", "rx"}, value : Nat \ {0}]
    BY <1>1 DEF Counted, Push, BusState, CanShape
  <2>2. QED
    BY <2>1 DEF BusError
<1>3. /\ UNCHANGED <<canState, txCount, rxCount>>
      /\ burst' = (burst \/ pushes # <<>>)
      /\ alarmed' = (alarmed \/ canState = "error_passive")
  BY DEF BusError
<1>4. pushes' \in Seq(CanPush)
  <2>1. p \in CanPush
    BY DEF CanPush
  <2>2. QED
    BY <1>1, <1>2, <2>1
<1>5. CanShape'
  BY <1>1, <1>3, <1>4 DEF CanShape
<1>6. Clearing' <=> Clearing
  <2>1. CASE pushes = <<>>
    BY <1>1, <1>2, <2>1 DEF Clearing
  <2>2. CASE pushes # <<>>
    BY <1>1, <1>2, <2>2 DEF Clearing
  <2>3. QED
    BY <2>1, <2>2
<1>7. \A i \in DOMAIN pushes' :
        pushes'[i].value = 0 => i = 1 /\ pushes'[i].count = "tx"
  BY <1>1, <1>2 DEF CanInv
<1>8. ~burst' => Len(pushes') <= 1
  <2>1. ~burst' => pushes = <<>>
    BY <1>3, Zenon
  <2>2. pushes = <<>> => Len(pushes') <= 1
    BY <1>1, <1>2
  <2>3. QED
    BY <2>1, <2>2, Zenon
<1>9. QED
  BY <1>1, <1>3, <1>5, <1>6, <1>7, <1>8 DEF CanInv

LEMMA PushDoneInv ==
  ASSUME CanInv, PushDone
  PROVE  CanInv'
<1> DEFINE p  == Head(pushes)
           tx == IF p.count = "tx" THEN p.value ELSE txCount
           rx == IF p.count = "rx" THEN p.value ELSE rxCount
<1>1. /\ CanShape /\ pushes # <<>>
      /\ pushes \in Seq(CanPush)
      /\ txCount \in Nat /\ rxCount \in Nat
  BY DEF PushDone, CanInv, CanShape
<1>2. p \in CanPush /\ tx \in Nat /\ rx \in Nat
  <2>1. p \in CanPush
    BY <1>1
  <2>2. p.value \in Nat
    BY <2>1 DEF CanPush
  <2>3. QED
    BY <1>1, <2>1, <2>2
<1>3. /\ txCount' = tx /\ rxCount' = rx /\ pushes' = Tail(pushes)
      /\ \/ canState' = OnSet(p.count, tx, rx)
         \/ tx = txCount /\ rx = rxCount /\ canState' = canState
      /\ alarmed' = (alarmed \/ canState' = "error_passive")
      /\ burst' = burst
  BY DEF PushDone
<1>4. p.value = 0 => p.count = "tx"
  BY <1>1 DEF CanInv
<1>5. p.value = 0 => canState = "error_active" /\ txCount > 0
  BY <1>1 DEF CanInv, Clearing
<1>6. pushes' \in Seq(CanPush)
  BY <1>1, <1>3
<1>7. \A i \in DOMAIN pushes' : pushes'[i].value # 0
  BY <1>1, <1>3 DEF CanInv
<1>8. ~Clearing'
  BY <1>6, <1>7 DEF Clearing
<1>9. canState' \in {"error_active", "error_passive", "bus_off"}
  BY <1>1, <1>3 DEF OnSet, CanShape
<1>10. CanShape'
  BY <1>1, <1>2, <1>3, <1>6, <1>9 DEF CanShape
<1>11. canState' = "bus_off" => txCount' > 0
  <2>1. CASE canState = "bus_off"
    BY <1>1, <1>2, <1>3, <1>5, <2>1 DEF CanInv
  <2>2. CASE canState # "bus_off"
    BY <1>1, <1>2, <1>3, <2>2 DEF OnSet, CrossesBusOffLimit
  <2>3. QED
    BY <2>1, <2>2
<1>12. canState' = "error_active" => ~CrossesPassiveLimit(txCount', rxCount')
  <2> SUFFICES ASSUME canState' = "error_active"
               PROVE  ~CrossesPassiveLimit(tx, rx)
    BY <1>3
  <2>1. canState = "error_active"
    BY <1>1, <1>3 DEF OnSet, CanShape
  <2>2. CASE canState' = OnSet(p.count, tx, rx)
    BY <2>1, <2>2 DEF OnSet
  <2>3. CASE tx = txCount /\ rx = rxCount
    <3>1. p.value # 0
      BY <1>4, <1>5, <2>3
    <3>2. ~Clearing
      BY <3>1 DEF Clearing
    <3>3. QED
      BY <2>1, <2>3, <3>2 DEF CanInv
  <2>4. QED
    BY <1>3, <2>2, <2>3
<1>13. canState' # "error_active" => alarmed'
  <2>1. CASE canState' = "error_passive"
    BY <1>3, <2>1, Zenon
  <2>2. CASE canState' = "bus_off"
    <3>1. canState # "error_active"
      BY <1>3, <2>2 DEF OnSet
    <3>2. alarmed
      BY <3>1, Zenon DEF CanInv
    <3>3. QED
      BY <1>3, <3>2, Zenon
  <2>3. QED
    BY <1>9, <2>1, <2>2
<1>14. ~burst' => Len(pushes) <= 1
  BY <1>3 DEF CanInv
<1>15. ~burst' => pushes' = <<>>
  BY <1>1, <1>3, <1>14
<1>16. canState' = "bus_off" /\ ~burst' => CrossesBusOffLimit(txCount')
  <2> SUFFICES ASSUME canState' = "bus_off", ~burst'
               PROVE  CrossesBusOffLimit(tx)
    BY <1>3
  <2>1. canState # "bus_off"
    BY <1>1, <1>3 DEF CanInv
  <2>2. QED
    BY <1>3, <2>1 DEF OnSet
<1>17. QED
  BY <1>7, <1>8, <1>10, <1>11, <1>12, <1>13, <1>15, <1>16 DEF CanInv

LEMMA RebootBusInv ==
  ASSUME CanInv, RebootBus
  PROVE  CanInv'
<1>1. /\ canState = "bus_off" /\ canState' = "error_active"
      /\ pushes' = <<Push("tx", 0)>> /\ alarmed' = FALSE
      /\ UNCHANGED <<txCount, rxCount, burst>>
  BY DEF RebootBus
<1>2. Push("tx", 0) \in CanPush
      /\ Push("tx", 0).count = "tx" /\ Push("tx", 0).value = 0
  BY DEF Push, CanPush
<1> HIDE DEF Push
<1>3. /\ pushes' \in Seq(CanPush)
      /\ Len(pushes') = 1 /\ DOMAIN pushes' = {1} /\ pushes'[1] = Push("tx", 0)
      /\ pushes' # <<>> /\ Head(pushes') = Push("tx", 0)
  BY <1>1, <1>2
<1>4. CanShape'
  BY <1>1, <1>3 DEF CanInv, CanShape
<1>5. Clearing' /\ txCount' > 0
  BY <1>1, <1>2, <1>3 DEF Clearing, CanInv
<1>6. QED
  BY <1>1, <1>2, <1>3, <1>4, <1>5 DEF CanInv

LEMMA CanInvHolds == CanSpec => []CanInv
<1>1. CanInv /\ UNCHANGED canVars => CanInv'
  BY DEF CanInv, CanShape, Clearing, canVars
<1>2. CanInv /\ CanNext => CanInv'
  BY BusErrorInv, PushDoneInv, RebootBusInv DEF CanNext
<1>3. QED
  BY <1>1, <1>2, CanInitInv, PTL DEF CanSpec

\* With no write under way the state agrees with the counters, although a bus
\* error is classified from the counts as they were and written later: both are
\* within the lower limit in error_active, after a recovery too, and a node off
\* the bus had its transmit count above the upper one.
THEOREM CanStateIsOfCounts == CanSpec => []CanStateFollowsCounts
<1>1. CanInv => CanStateFollowsCounts
  BY DEF CanInv, CanStateFollowsCounts, Clearing
<1>2. QED
  BY <1>1, CanInvHolds, PTL

\* A node that is in trouble, or off the bus, has alarmed the aSC of it.
THEOREM TroubleIsAlwaysTold == CanSpec => []TroubleIsTold
<1>1. CanInv => TroubleIsTold
  BY Zenon DEF CanInv, TroubleIsTold
<1>2. QED
  BY <1>1, CanInvHolds, PTL

-----------------------------------------------------------------------------
(* Commissioning *)

OpsShape ==
  /\ statuses \in [Unit -> Seq(BOOLEAN)]
  /\ ack \in [Unit \cup {0} -> BOOLEAN]

\* A busy bit that is on record, or on its way, is some device's; device 0, for
\* which the SC takes a frame without fields, is never busy.
OpsInv ==
  /\ OpsShape
  /\ \A u \in Unit : ack[u] => u \in witness
  /\ \A u \in Unit : \A i \in DOMAIN statuses[u] : statuses[u][i] => u \in witness
  /\ ack[0] = FALSE
  /\ DefaultsHaveAWitness

LEMMA OpsInitInv == OpsInit => OpsInv
BY OperationsAssumption DEF OpsInit, OpsInv, OpsShape, DefaultsHaveAWitness

LEMMA ReplyInv ==
  ASSUME OpsInv, NEW u \in Unit, NEW busy \in BOOLEAN, StatusReply(u, busy),
         UNCHANGED <<ack, configured>>
  PROVE  OpsInv'
<1>1. /\ statuses \in [Unit -> Seq(BOOLEAN)]
      /\ statuses' = [statuses EXCEPT ![u] = Append(statuses[u], busy)]
      /\ witness' = IF busy THEN witness \cup {u} ELSE witness
  BY DEF OpsInv, OpsShape, StatusReply
<1>2. /\ statuses[u] \in Seq(BOOLEAN) /\ Append(statuses[u], busy) \in Seq(BOOLEAN)
      /\ statuses' \in [Unit -> Seq(BOOLEAN)]
  BY <1>1
<1>3. ASSUME NEW v \in Unit, NEW i \in DOMAIN statuses'[v], statuses'[v][i]
      PROVE  v \in witness'
  <2>1. CASE v # u
    BY <1>1, <1>3, <2>1 DEF OpsInv
  <2>2. CASE v = u
    <3>1. statuses'[v] = Append(statuses[u], busy) /\ i \in 1..(Len(statuses[u]) + 1)
      BY <1>1, <1>2, <2>2
    <3>2. CASE i = Len(statuses[u]) + 1
      BY <1>1, <1>2, <1>3, <2>2, <3>1, <3>2
    <3>3. CASE i # Len(statuses[u]) + 1
      <4>1. i \in DOMAIN statuses[u] /\ statuses[u][i]
        BY <1>2, <1>3, <3>1, <3>3
      <4>2. QED
        BY <1>1, <2>2, <4>1 DEF OpsInv
    <3>4. QED
      BY <3>2, <3>3
  <2>3. QED
    BY <2>1, <2>2
<1>4. witness \subseteq witness'
  BY <1>1
<1>5. QED
  BY <1>2, <1>3, <1>4 DEF OpsInv, OpsShape, DefaultsHaveAWitness

\* What is neither a status nor a record of one changes nothing here.
LEMMA ApartInv ==
  ASSUME OpsInv, UNCHANGED <<statuses, ack, witness, configured>>
  PROVE  OpsInv'
BY DEF OpsInv, OpsShape, DefaultsHaveAWitness

LEMMA DeviceSideInv ==
  ASSUME OpsInv, NEW u \in Unit, DeviceSide(u)
  PROVE  OpsInv'
<1>1. ASSUME NEW busy \in BOOLEAN, DeviceAssignment(u, busy)
      PROVE  OpsInv'
  BY <1>1, ReplyInv DEF DeviceAssignment
<1>2. ASSUME NEW busy \in BOOLEAN, ChangeUnitState(u, busy)
      PROVE  OpsInv'
  BY <1>2, ReplyInv, ApartInv DEF ChangeUnitState
<1>3. ASSUME NEW busy \in BOOLEAN, UnitReady(u, busy)
      PROVE  OpsInv'
  BY <1>3, ReplyInv DEF UnitReady
<1>4. CASE UnitBusy(u)
  BY <1>4, ApartInv DEF UnitBusy
<1>5. QED
  BY <1>1, <1>2, <1>3, <1>4 DEF DeviceSide

LEMMA HearInv ==
  ASSUME OpsInv, NEW u \in Unit, HearStatus(u) \/ HearBareStatus(u)
  PROVE  OpsInv'
<1>1. /\ statuses \in [Unit -> Seq(BOOLEAN)] /\ statuses[u] # <<>>
      /\ statuses' = [statuses EXCEPT ![u] = Tail(statuses[u])]
      /\ UNCHANGED <<witness, configured>>
  BY DEF OpsInv, OpsShape, HearStatus, HearBareStatus
<1>2. /\ statuses[u] \in Seq(BOOLEAN)
      /\ Head(statuses[u]) \in BOOLEAN /\ Tail(statuses[u]) \in Seq(BOOLEAN)
      /\ Head(statuses[u]) = statuses[u][1] /\ 1 \in DOMAIN statuses[u]
      /\ \A i \in DOMAIN Tail(statuses[u]) :
           i + 1 \in DOMAIN statuses[u] /\ Tail(statuses[u])[i] = statuses[u][i + 1]
  BY <1>1
<1>3. statuses' \in [Unit -> Seq(BOOLEAN)]
  BY <1>1, <1>2
<1>4. \A v \in Unit : \A i \in DOMAIN statuses'[v] : statuses'[v][i] => v \in witness
  BY <1>1, <1>2 DEF OpsInv
<1>5. Head(statuses[u]) => u \in witness
  BY <1>2 DEF OpsInv
<1>6. \/ ack' = ack
      \/ ack' = [ack EXCEPT ![u] = Head(statuses[u])]
      \/ ack' = [ack EXCEPT ![0] = FALSE]
  BY DEF HearStatus, HearBareStatus, RecordBusy
<1>7. /\ ack' \in [Unit \cup {0} -> BOOLEAN] /\ ack'[0] = FALSE
      /\ \A v \in Unit : ack'[v] => ack[v] \/ (v = u /\ Head(statuses[u]))
  <2>1. ack \in [Unit \cup {0} -> BOOLEAN] /\ ack[0] = FALSE /\ u # 0
    BY OperationsAssumption DEF OpsInv, OpsShape
  <2> DEFINE busy == Head(statuses[u])
  <2>2. busy \in BOOLEAN
    BY <1>2
  <2> HIDE DEF busy
  <2>3. \/ ack' = ack \/ ack' = [ack EXCEPT ![u] = busy]
        \/ ack' = [ack EXCEPT ![0] = FALSE]
    BY <1>6 DEF busy
  <2>4. /\ ack' \in [Unit \cup {0} -> BOOLEAN] /\ ack'[0] = FALSE
        /\ \A v \in Unit : ack'[v] => ack[v] \/ (v = u /\ busy)
    BY <2>1, <2>2, <2>3
  <2>5. QED
    BY <2>4 DEF busy
<1>8. QED
  BY <1>1, <1>3, <1>4, <1>5, <1>7 DEF OpsInv, OpsShape, DefaultsHaveAWitness

LEMMA TimedOutInv ==
  ASSUME OpsInv, InstallationTimedOut
  PROVE  OpsInv'
<1>1. UNCHANGED <<statuses, ack, witness>> /\ AnyControlBusy
  BY DEF InstallationTimedOut
<1>2. PICK u \in Unit \cup {0} : ack[u]
  BY <1>1 DEF AnyControlBusy, OpsInv, OpsShape
<1>3. witness # {}
  BY <1>2 DEF OpsInv
<1>4. QED
  BY <1>1, <1>3 DEF OpsInv, OpsShape, DefaultsHaveAWitness

LEMMA OpsInvHolds == OpsSpec => []OpsInv
<1>1. OpsInv /\ UNCHANGED opsVars => OpsInv'
  BY ApartInv DEF opsVars, commissioning
<1>2. OpsInv /\ (AllUnitsReady \/ SubnetReset) => OpsInv'
  BY ApartInv DEF AllUnitsReady, SubnetReset
<1>3. OpsInv /\ Replacement => OpsInv'
  BY ApartInv DEF Replacement, Newcomer, AcceptCopy, DeclineCopy, CopyComplete,
                  TooManyDevices, ListChanges, commissioning
<1>4. OpsInv /\ OpsNext => OpsInv'
  BY <1>2, <1>3, DeviceSideInv, HearInv, TimedOutInv DEF OpsNext, Supervision
<1>5. QED
  BY <1>1, <1>4, OpsInitInv, PTL DEF OpsSpec

\* For any devices and any statuses late, bare or repeated, the subnet's
\* configuration is emptied (reset_subnet_to_defaults) only if some device reported
\* itself busy.
THEOREM DefaultsAlwaysHaveAWitness == OpsSpec => []DefaultsHaveAWitness
<1>1. OpsInv => DefaultsHaveAWitness
  BY DEF OpsInv
<1>2. QED
  BY <1>1, OpsInvHolds, PTL

-----------------------------------------------------------------------------
(* The alarm log *)

LogEntry == [no : AlarmNo, cleared : BOOLEAN]

LogShape ==
  /\ alarmLog \in Seq(LogEntry)
  /\ inForce \subseteq AlarmNo
  /\ pushed \in [AlarmNo -> 0..MaxLog]

\* Where the active entry of an alarm in force is: as many places before the end
\* as entries were logged since, until that takes it out of the log.
LogInv ==
  /\ LogShape
  /\ \A a \in AlarmNo : \A i, j \in Active(a) : i = j
  /\ \A a \in AlarmNo : a \notin inForce => Active(a) = {}
  /\ \A a \in inForce : pushed[a] < MaxLog => Len(alarmLog) - pushed[a] \in Active(a)

LEMMA LogBounds == MaxLog \in Nat \ {0} /\ MaxReports \in Nat \ {0}
BY AlarmsAssumption

\* How far the entries move when the oldest are dropped.
Dropped(log) == IF Len(log) > MaxLog THEN Len(log) - MaxLog ELSE 0

LEMMA NewestKeepsOrder ==
  ASSUME NEW S, NEW log \in Seq(S), Len(log) > 0
  PROVE  /\ Dropped(log) \in Nat /\ Dropped(log) < Len(log)
         /\ Newest(log) \in Seq(S) /\ Len(Newest(log)) = Len(log) - Dropped(log)
         /\ Dropped(log) > 0 => Len(Newest(log)) = MaxLog
         /\ \A i \in 1..Len(Newest(log)) : Newest(log)[i] = log[i + Dropped(log)]
<1>1. Len(log) \in Nat /\ MaxLog \in Nat \ {0}
  BY LogBounds
<1>2. Dropped(log) \in Nat /\ Dropped(log) < Len(log)
  BY <1>1 DEF Dropped
<1>3. Newest(log) = SubSeq(log, 1 + Dropped(log), Len(log))
  BY DEF Newest, Dropped
<1>4. \A i \in (1 + Dropped(log))..Len(log) : log[i] \in S
  BY <1>1, <1>2
<1>5. /\ Newest(log) \in Seq(S)
      /\ Len(Newest(log)) = Len(log) - (1 + Dropped(log)) + 1
      /\ \A i \in 1..(Len(log) - (1 + Dropped(log)) + 1) :
           Newest(log)[i] = log[(1 + Dropped(log)) + i - 1]
  <2>1. 1 + Dropped(log) \in Int /\ Len(log) \in Int /\ 1 + Dropped(log) <= Len(log)
    BY <1>1, <1>2
  <2> HIDE DEF Dropped
  <2>2. QED
    BY <1>3, <1>4, <2>1, SubSeqProperties
<1>6. Len(Newest(log)) = Len(log) - Dropped(log)
  BY <1>1, <1>2, <1>5
<1>7. Dropped(log) > 0 => Len(Newest(log)) = MaxLog
  BY <1>1, <1>6 DEF Dropped
<1>8. \A i \in 1..Len(Newest(log)) : Newest(log)[i] = log[i + Dropped(log)]
  BY <1>1, <1>2, <1>5
<1>9. QED
  BY <1>2, <1>5, <1>6, <1>7, <1>8

\* A first entry of an alarm: it is the newest, and the others keep their place
\* before the end.
LEMMA FirstEntryInv ==
  ASSUME LogInv, NEW a \in AlarmNo, Active(a) = {},
         alarmLog' = Newest(Append(alarmLog, Entry(a))),
         pushed' = [b \in AlarmNo |->
                      IF b = a THEN 0
                      ELSE IF pushed[b] < MaxLog THEN pushed[b] + 1 ELSE MaxLog],
         inForce' = inForce \cup {a}
  PROVE  LogInv'
<1> DEFINE log == Append(alarmLog, Entry(a))
           n   == Len(alarmLog)
           k   == Dropped(log)
<1>1. /\ alarmLog \in Seq(LogEntry) /\ n \in Nat /\ MaxLog \in Nat \ {0}
      /\ pushed \in [AlarmNo -> 0..MaxLog]
  BY LogBounds DEF LogInv, LogShape
<1>2. /\ Entry(a) \in LogEntry /\ Entry(a).no = a /\ Entry(a).cleared = FALSE
  BY DEF Entry, LogEntry
<1>3. /\ log \in Seq(LogEntry) /\ Len(log) = n + 1 /\ log[n + 1] = Entry(a)
      /\ \A i \in 1..n : log[i] = alarmLog[i]
  BY <1>1, <1>2
<1>4. /\ k \in Nat /\ k < n + 1
      /\ alarmLog' \in Seq(LogEntry) /\ Len(alarmLog') = n + 1 - k
      /\ k > 0 => Len(alarmLog') = MaxLog
      /\ \A i \in 1..(n + 1 - k) : alarmLog'[i] = log[i + k]
  <2>1. Len(log) > 0
    BY <1>1, <1>3
  <2> HIDE DEF log
  <2>2. /\ k \in Nat /\ k < Len(log)
        /\ Newest(log) \in Seq(LogEntry) /\ Len(Newest(log)) = Len(log) - k
        /\ k > 0 => Len(Newest(log)) = MaxLog
        /\ \A i \in 1..Len(Newest(log)) : Newest(log)[i] = log[i + k]
    BY <1>3, <2>1, NewestKeepsOrder
  <2>3. alarmLog' = Newest(log)
    BY DEF log
  <2> HIDE DEF k
  <2>4. QED
    BY <1>3, <2>2, <2>3
<1> HIDE DEF log, k
<1>5. DOMAIN alarmLog' = 1..(n + 1 - k) /\ DOMAIN alarmLog = 1..n
  BY <1>1, <1>4
<1>6. ASSUME NEW b \in AlarmNo, NEW i
      PROVE  i \in Active(b)' <=>
               /\ i \in 1..(n + 1 - k)
               /\ IF i + k = n + 1 THEN b = a ELSE i + k \in Active(b)
  <2>1. CASE i \notin 1..(n + 1 - k)
    BY <1>5, <2>1 DEF Active
  <2>2. CASE i \in 1..(n + 1 - k) /\ i + k = n + 1
    <3>1. alarmLog'[i] = Entry(a)
      BY <1>3, <1>4, <2>2
    <3>2. QED
      BY <1>2, <1>5, <2>2, <3>1 DEF Active
  <2>3. CASE i \in 1..(n + 1 - k) /\ i + k # n + 1
    <3>1. i + k \in 1..n
      BY <1>1, <1>4, <2>3
    <3>2. alarmLog'[i] = alarmLog[i + k]
      BY <1>3, <1>4, <2>3, <3>1
    <3>3. QED
      BY <1>5, <2>3, <3>1, <3>2 DEF Active
  <2>4. QED
    BY <2>1, <2>2, <2>3
<1>7. LogShape'
  <2>1. pushed' \in [AlarmNo -> 0..MaxLog]
    BY <1>1
  <2>2. inForce' \subseteq AlarmNo
    BY DEF LogInv, LogShape
  <2>3. QED
    BY <1>4, <2>1, <2>2 DEF LogShape
<1>8. ASSUME NEW b \in AlarmNo, NEW i \in Active(b)', NEW j \in Active(b)'
      PROVE  i = j
  <2>1. i \in 1..(n + 1 - k) /\ j \in 1..(n + 1 - k)
    BY <1>6
  <2>2. CASE b = a
    <3>1. i + k = n + 1
      BY <1>6, <2>2
    <3>2. j + k = n + 1
      BY <1>6, <2>2
    <3>3. QED
      BY <1>1, <1>4, <2>1, <3>1, <3>2
  <2>3. CASE b # a
    <3>1. i + k \in Active(b) /\ j + k \in Active(b)
      BY <1>6, <2>3
    <3>2. i + k = j + k
      BY <3>1 DEF LogInv
    <3>3. QED
      BY <1>4, <2>1, <3>2
  <2>4. QED
    BY <2>2, <2>3
<1>9. ASSUME NEW b \in AlarmNo, b \notin inForce'
      PROVE  Active(b)' = {}
  <2>1. b # a /\ b \notin inForce
    BY <1>9
  <2>2. Active(b) = {}
    BY <2>1 DEF LogInv
  <2>3. QED
    BY <1>6, <2>1, <2>2
<1>10. ASSUME NEW b \in inForce', pushed'[b] < MaxLog
       PROVE  Len(alarmLog') - pushed'[b] \in Active(b)'
  <2>1. b \in AlarmNo
    BY DEF LogInv, LogShape
  <2>2. CASE b = a
    <3>1. pushed'[b] = 0
      BY <2>1, <2>2
    <3>2. QED
      BY <1>1, <1>4, <1>6, <2>1, <2>2, <3>1
  <2>3. CASE b # a
    <3>1. pushed[b] \in Nat
      BY <1>1, <2>1
    <3>2. pushed'[b] = pushed[b] + 1 /\ pushed[b] < MaxLog
      BY <1>1, <1>10, <2>1, <2>3, <3>1
    <3>3. n - pushed[b] \in Active(b)
      BY <2>3, <3>2 DEF LogInv
    <3>4. n - pushed[b] \in 1..n
      BY <1>5, <3>3 DEF Active
    <3> DEFINE i == n - k - pushed[b]
    <3>5. n \in Nat /\ k \in Nat
      BY <1>1, <1>4
    <3>6. i + k = n - pushed[b] /\ i \in Int
      BY <3>1, <3>5
    <3>10. i \in 1..(n + 1 - k)
      <4>1. i <= n + 1 - k
        BY <3>1, <3>5
      <4>2. CASE k = 0
        BY <3>1, <3>4, <3>5, <4>1, <4>2
      <4>3. CASE k > 0
        <5>1. n + 1 - k = MaxLog /\ MaxLog \in Nat
          BY <1>1, <1>4, <4>3
        <5>2. pushed[b] + 1 < MaxLog
          BY <1>10, <3>2
        <5>3. QED
          BY <3>1, <3>5, <4>1, <5>1, <5>2
      <4>4. QED
        BY <3>5, <4>2, <4>3
    <3>11. Len(alarmLog') - pushed'[b] = i
      BY <1>4, <3>1, <3>2, <3>5
    <3> HIDE DEF i
    <3>7. i + k # n + 1
      BY <3>1, <3>5, <3>6
    <3>8. i \in Active(b)'
      BY <1>6, <2>1, <3>3, <3>6, <3>7, <3>10
    <3>9. QED
      BY <3>8, <3>11
  <2>4. QED
    BY <2>2, <2>3
<1>11. QED
  BY <1>7, <1>8, <1>9, <1>10 DEF LogInv

LEMMA RaiseInv ==
  ASSUME LogInv, NEW a \in AlarmNo, RaiseAlarm(a)
  PROVE  LogInv'
<1>1. inForce' = inForce \cup {a}
  BY DEF RaiseAlarm
<1>2. CASE Active(a) # {}
  <2>1. a \in inForce
    BY <1>2 DEF LogInv
  <2>2. UNCHANGED <<alarmLog, pushed>>
    BY <1>2 DEF RaiseAlarm, Logged, Coalesced
  <2>3. inForce' = inForce
    BY <1>1, <2>1
  <2>4. QED
    BY <2>2, <2>3 DEF LogInv, LogShape, Active
<1>3. CASE Active(a) = {}
  BY <1>1, <1>3, FirstEntryInv DEF RaiseAlarm, Logged, Coalesced
<1>4. QED
  BY <1>2, <1>3

LEMMA ClearInv ==
  ASSUME LogInv, NEW a \in AlarmNo, ClearAlarm(a)
  PROVE  LogInv'
<1>1. /\ alarmLog' = [i \in DOMAIN alarmLog |->
                        IF i \in Active(a) THEN [alarmLog[i] EXCEPT !.cleared = TRUE]
                                           ELSE alarmLog[i]]
      /\ inForce' = inForce \ {a} /\ pushed' = pushed
  BY DEF ClearAlarm
<1>2. /\ alarmLog \in Seq(LogEntry) /\ Len(alarmLog) \in Nat
      /\ DOMAIN alarmLog = 1..Len(alarmLog)
  BY DEF LogInv, LogShape
<1>3. ASSUME NEW i \in DOMAIN alarmLog
      PROVE  /\ alarmLog'[i] \in LogEntry /\ alarmLog'[i].no = alarmLog[i].no
             /\ alarmLog'[i].cleared <=> alarmLog[i].cleared \/ i \in Active(a)
  <2>1. alarmLog[i] \in LogEntry
    BY <1>2, ElementOfSeq
  <2>2. QED
    BY <1>1, <2>1 DEF LogEntry
<1>4. DOMAIN alarmLog' = DOMAIN alarmLog
  BY <1>1
<1>5. alarmLog' \in Seq(LogEntry) /\ Len(alarmLog') = Len(alarmLog)
  <2>1. alarmLog' \in [1..Len(alarmLog) -> LogEntry]
    BY <1>1, <1>2, <1>3
  <2>2. alarmLog' \in Seq(LogEntry)
    BY <1>2, <2>1, SeqDef
  <2>3. QED
    BY <1>2, <1>4, <2>2, LenProperties
<1>6. Active(a)' = {}
  BY <1>3, <1>4 DEF Active
<1>7. ASSUME NEW b \in AlarmNo, b # a
      PROVE  Active(b)' = Active(b)
  BY <1>3, <1>4, <1>7 DEF Active
<1>8. QED
  BY <1>1, <1>5, <1>6, <1>7 DEF LogInv, LogShape

LEMMA LogInvHolds == AlarmsSpec => []LogInv
<1>1. AlarmsInit => LogInv
  BY LogBounds DEF AlarmsInit, LogInv, LogShape, Active
<1>2. ASSUME LogInv, UNCHANGED <<alarmLog, inForce, pushed>>
      PROVE  LogInv'
  BY <1>2 DEF LogInv, LogShape, Active
<1>3. LogInv /\ UNCHANGED alarmVars => LogInv'
  BY <1>2 DEF alarmVars, diagVars
<1>4. LogInv /\ AlarmsNext => LogInv'
  BY <1>2, RaiseInv, ClearInv
     DEF AlarmsNext, DiagEnter, DiagExit, DiagnosticsPeriodic, SessionStart,
         StoreReport, AskNext, SessionEnd, SessionTimeout, diagVars
<1>5. QED
  BY <1>1, <1>3, <1>4, PTL DEF AlarmsSpec

\* The log tells the alarms in force, for any numbers and any size of it: each has
\* one active entry, unless newer ones pushed it out, however often it was raised,
\* repeated, cleared and raised again (alarm_log_entry, clear_alarm).
THEOREM LogAlwaysTells == AlarmsSpec => []LogTellsAlarms
<1>1. LogInv => LogTellsAlarms
  <2> SUFFICES ASSUME LogInv, NEW a \in AlarmNo
               PROVE  /\ Cardinality(Active(a)) <= 1
                      /\ a \in inForce /\ pushed[a] < MaxLog => Active(a) # {}
                      /\ a \notin inForce => Active(a) = {}
    BY DEF LogTellsAlarms
  <2>1. Cardinality(Active(a)) <= 1
    <3>1. CASE Active(a) = {}
      BY <3>1, FS_EmptySet
    <3>2. ASSUME NEW i \in Active(a)
          PROVE  Cardinality(Active(a)) <= 1
      <4>1. Active(a) = {i}
        BY DEF LogInv
      <4>2. QED
        BY <4>1, FS_Singleton
    <3>3. QED
      BY <3>1, <3>2
  <2>2. QED
    BY <2>1 DEF LogInv
<1>2. QED
  BY <1>1, LogInvHolds, PTL
=============================================================================
