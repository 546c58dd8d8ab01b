-------------------------------- MODULE Alarms --------------------------------
(***************************************************************************)
(* Diagnostics (diagnostics.py): the alarm log of a device with its        *)
(* diagnostic mode (DeviceDiagnostics), and the session in which a UI/G    *)
(* retrieves alarms (AlarmSession).  The first runs beside the startup     *)
(* machine of a device; the second is started by nothing yet.              *)
(***************************************************************************)
EXTENDS Naturals, Sequences, FiniteSets

CONSTANTS
  AlarmNo,      \* the alarm numbers
  MaxLog,       \* entries the log keeps: 128
  MaxReports    \* reports stored in a row

ASSUME AlarmsAssumption == {MaxLog, MaxReports} \subseteq Nat \ {0}

VARIABLES
  diagMode,     \* normal or level1, and ram["diag_mode"] with it
  alarmLog,     \* ram["alarm_log"], oldest first
  broadcast,    \* the frame last put into the transmit queue
  inForce,      \* alarms raised and not cleared since
  pushed,       \* pushed[a]: entries logged since a's last one, up to MaxLog
  session,      \* the session's state
  reports       \* the number of ram["session_reports"]

diagVars    == <<diagMode, alarmLog, inForce, pushed>>
sessionVars == <<session, reports>>
alarmVars   == <<diagVars, broadcast, sessionVars>>

-----------------------------------------------------------------------------
(* The alarm log *)

Entry(a) == [no |-> a, cleared |-> FALSE]

Active(a) == {i \in DOMAIN alarmLog : alarmLog[i].no = a /\ ~alarmLog[i].cleared}

\* Mutant: a repeat is counted in any entry of its number.
CoalescedWithCleared(a) == {i \in DOMAIN alarmLog : alarmLog[i].no = a}

\* The entries a repeat of the alarm is counted in; the count itself is read by
\* nobody.
Coalesced(a) == Active(a)

Newest(log) == SubSeq(log, 1 + (IF Len(log) > MaxLog THEN Len(log) - MaxLog ELSE 0),
                      Len(log))

\* alarm_log_entry for an event-type alarm
Logged(a) ==
  IF Coalesced(a) # {}
    THEN UNCHANGED <<alarmLog, pushed>>
    ELSE /\ alarmLog' = Newest(Append(alarmLog, Entry(a)))
         /\ pushed' = [b \in AlarmNo |->
                         IF b = a THEN 0
                         ELSE IF pushed[b] < MaxLog THEN pushed[b] + 1 ELSE MaxLog]

\* raise_alarm, in both modes
RaiseAlarm(a) ==
  /\ Logged(a)
  /\ broadcast' = [type |-> "DEVICE_ALARM_REPORT", no |-> a, set_clear |-> 0]
  /\ inForce' = inForce \cup {a}
  /\ UNCHANGED <<diagMode, sessionVars>>

\* clear_alarm: every active entry of that number
ClearAlarm(a) ==
  /\ alarmLog' = [i \in DOMAIN alarmLog |->
                    IF i \in Active(a) THEN [alarmLog[i] EXCEPT !.cleared = TRUE]
                                       ELSE alarmLog[i]]
  /\ broadcast' = [type |-> "DEVICE_ALARM_REPORT", no |-> a, set_clear |-> 1]
  /\ inForce' = inForce \ {a}
  /\ UNCHANGED <<diagMode, pushed, sessionVars>>

\* diag_enter
DiagEnter ==
  /\ diagMode = "normal" /\ diagMode' = "level1"
  /\ UNCHANGED <<alarmLog, inForce, pushed, broadcast, sessionVars>>

\* diag_exit or diag_timeout, to the entry of normal
DiagExit ==
  /\ diagMode = "level1" /\ diagMode' = "normal"
  /\ UNCHANGED <<alarmLog, inForce, pushed, broadcast, sessionVars>>

\* diagnostics_periodic: once a minute in Level 1 diagnostic mode
DiagnosticsPeriodic ==
  /\ diagMode = "level1"
  /\ broadcast' = [type |-> "DIAG_RESPONSE"]
  /\ UNCHANGED <<diagVars, sessionVars>>

-----------------------------------------------------------------------------
(* The retrieval session *)

\* session_ask
Ask == broadcast' = [type |-> "DIAG_QUERY"]

\* alarm_session_start, from idle and from ended
SessionStart ==
  /\ session \in {"idle", "ended"}
  /\ session' = "retrieving"
  /\ Ask
  /\ UNCHANGED <<reports, diagVars>>

\* session_store_report: an edge without a target, which does not restart the
\* window of the session.
StoreReport ==
  /\ session = "retrieving" /\ reports < MaxReports
  /\ reports' = reports + 1
  /\ UNCHANGED <<session, broadcast, diagVars>>

\* ask_for_device_alarm: the effect asks, and the entry asks once more.
AskNext ==
  /\ session = "retrieving"
  /\ Ask
  /\ UNCHANGED <<sessionVars, diagVars>>

\* session_end_ack
SessionEnd ==
  /\ session = "retrieving" /\ session' = "ended"
  /\ reports' = 0
  /\ UNCHANGED <<broadcast, diagVars>>

\* diag_session_timeout; session_timed_out is always true, since nothing calls
\* session_mark_ask.  The reports stay for the next session.
SessionTimeout ==
  /\ session = "retrieving" /\ session' = "idle"
  /\ UNCHANGED <<reports, broadcast, diagVars>>

-----------------------------------------------------------------------------
AlarmsInit ==
  /\ diagMode = "normal"
  /\ alarmLog = <<>>
  /\ broadcast = [type |-> "none"]
  /\ inForce = {}
  /\ pushed = [a \in AlarmNo |-> MaxLog]
  /\ session = "idle"
  /\ reports = 0

AlarmsNext ==
  \/ \E a \in AlarmNo : RaiseAlarm(a) \/ ClearAlarm(a)
  \/ DiagEnter \/ DiagExit \/ DiagnosticsPeriodic
  \/ SessionStart \/ StoreReport \/ AskNext \/ SessionEnd \/ SessionTimeout

AlarmsSpec == AlarmsInit /\ [][AlarmsNext]_alarmVars

-----------------------------------------------------------------------------
(* Properties *)

\* The log tells the alarms in force: each has exactly one active entry, unless
\* MaxLog newer entries pushed it out, however it was raised, repeated, cleared
\* and raised again; an alarm that is not in force has none.
LogTellsAlarms ==
  \A a \in AlarmNo :
    /\ Cardinality(Active(a)) <= 1
    /\ a \in inForce /\ pushed[a] < MaxLog => Active(a) # {}
    /\ a \notin inForce => Active(a) = {}
=============================================================================
