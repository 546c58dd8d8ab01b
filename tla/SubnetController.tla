-------------------------- MODULE SubnetController --------------------------
(***************************************************************************)
(* Subnet controllers (SCs) electing the active one on one RSBus subnet:   *)
(* the FIG. 13 machine of subnet_controller.py, one instance per SC, on a  *)
(* broadcast bus.  A step is one event run to completion by one machine: a *)
(* frame from its queue, a state timer, an event it dispatched to itself,  *)
(* one resumption of a background task, or an operator command; crashes,   *)
(* transport failures and the local controllers are the environment.       *)
(*                                                                         *)
(* A sent frame is appended at once to the queue of every other running    *)
(* SC.  The delay of the transmit queue, the bus and the receive queue is  *)
(* the time a frame waits there: a node sends in order, all nodes see one  *)
(* order, and a node never hears itself.                                   *)
(***************************************************************************)
EXTENDS ScRam, Sequences, SequencesExt

CONSTANTS
  Dev,          \* dds of the local controllers on the subnet
  Kind,         \* Kind[d]: the equipment type (et) device d announces
  Installed,    \* the units an earlier commissioning archived, with their et
  LinkLocal,    \* cfg.link_local
  MaxQueue,     \* no timer expires while a node holds this many frames
  MaxAudits,    \* audit tasks of one node beyond this many coalesce
  MaxDeadline,  \* expiries of passive's deadlines
  MaxCrash, MaxFault, MaxAnnounce, MaxCommand    \* environment events

ASSUME SubnetControllerAssumption ==
  /\ Dev \subseteq Nat \ {NoDD}
  /\ Dev \cap SC = {}
  /\ Kind \in [Dev -> Nat]
  /\ DOMAIN Installed \subseteq SC \cup Dev
  /\ Installed \in [DOMAIN Installed -> Nat]
  /\ LinkLocal \in BOOLEAN
  /\ MaxQueue \in Nat \ {0}
  /\ MaxAudits \in Nat \ {0}
  /\ {MaxDeadline, MaxCrash, MaxFault, MaxAnnounce, MaxCommand} \subseteq Nat

VARIABLES
  up,         \* the process runs
  linked,     \* its transport's sends succeed
  state,      \* the machine's leaf state
  ram,        \* instance.ram, cleared on entry to pre_startup
  scram,      \* the SC RAM list
  devRam,     \* the device RAM list
  soft,       \* instance.soft_disabled
  nvm,        \* what survives a crash
  queue,      \* frames sent to the node and not yet handled by it
  pend,       \* events the node scheduled for itself
  audits,     \* running audit tasks
  sweep,      \* devices its sweep tasks have yet to visit
  children,   \* targets of FIG. 14 children not yet seeded
  asked,      \* assignments that devices have taken and yet to acknowledge
  holds,      \* the et each device has been assigned, or 0
  waits,      \* devices in wait_for_assignment
  strays,     \* history: the et that a child took from another's announcement
  budget      \* deadlines and environment events left

node  == <<state, ram, soft>>
lists == <<scram, devRam>>
tasks == <<pend, audits, sweep, children>>
devs  == <<waits, strays>>
env   == <<up, linked, devs, budget>>
vars  == <<node, lists, tasks, nvm, queue, asked, holds, env>>

-----------------------------------------------------------------------------
(* States, events and frames *)

ActiveCoordinator == {"audit", "passing_token"}
HeartbeatOut      == {"heartbeat_out", "commissioned"}

State == ActiveCoordinator \cup HeartbeatOut \cup
  {"pre_startup", "post_startup", "passive", "inactive",
   "soft_disabled", "hard_disabled"}

SelfEvent == {"ui_g_hard_disable", "hard_enable_apply", "iu_reset_detected",
              "audit_pass_done", "assignment_phase_complete"}

FrameType ==
  {"SC_STARTUP", "SC_COORDINATOR", "SC_DECLARATION", "SC_QUERY",
   "SC_TOKEN_PASS", "SC_READY_TO_TAKE_OVER", "SC_CONFIGURATION_FINISHED",
   "aSC_HEARTBEAT", "SC_ASSIGNMENT", "DEVICE_ASSIGNMENT_ACK",
   "DEVICE_STARTUP", "DEVICE_DD", "DEVICE_SOFT_DISABLE_ALARM"}

\* Whatever announces itself or is listed as a device: update_device_ram
\* files the sender of an SC_COORDINATOR there too.
Unit == SC \cup Dev

\* The dd a frame carries: none, its sender's, or the addressee's.
Anonymous == {"SC_QUERY", "SC_TOKEN_PASS", "SC_READY_TO_TAKE_OVER",
              "SC_CONFIGURATION_FINISHED", "DEVICE_SOFT_DISABLE_ALARM"}
FromSc    == {"SC_STARTUP", "SC_COORDINATOR", "SC_DECLARATION", "aSC_HEARTBEAT"}

Designators(t) == IF t \in Anonymous THEN {NoDD}
                  ELSE IF t \in FromSc THEN SC
                  ELSE IF t \in {"DEVICE_STARTUP", "DEVICE_DD"} THEN Dev
                  ELSE Unit

\* A payload field the message does not define decodes as zero.  soft is the
\* cleared CF4 bit of an assignment.
Frame == {f \in [type : FrameType, dd : Unit \cup {NoDD}, et : Nat, rank : Nat,
                 soft : BOOLEAN] : f.dd \in Designators(f.type)}

Empty(t) == [type |-> t, dd |-> NoDD, et |-> 0, rank |-> 0, soft |-> FALSE]
From(t, d)        == [Empty(t) EXCEPT !.dd = d]
FromDevice(t, d, et) == [From(t, d) EXCEPT !.et = et]
Credentials(t, n) == [From(t, n) EXCEPT !.rank = Rank[n]]
Assignment(d, et, s) == [FromDevice("SC_ASSIGNMENT", d, et) EXCEPT !.soft = s]

\* The announcement of device d, with the et it was assigned or else asks for;
\* its answers to a coordinator carry no et.
Startup(d) ==
  FromDevice("DEVICE_STARTUP", d, IF holds[d] # 0 THEN holds[d] ELSE Kind[d])
Announcement(d) == {Startup(d), From("DEVICE_STARTUP", d), From("DEVICE_DD", d)}

\* The device RAM list, and the device records of nvm.
DeviceEntry == [status : {"none", "seen", "assigned"}, et : Nat]
NoDevice    == [status |-> "none", et |-> 0]
Archive     == [known : BOOLEAN, et : Nat]
NoArchive   == [known |-> FALSE, et |-> 0]

Known(n)    == {d \in Unit : devRam[n][d].status # "none"}
Unfinished(list) == {d \in Unit : list[d].status = "seen"}
Finished(list)   == {d \in Unit : list[d].status = "assigned"}

\* update_device_ram_from_startup on one entry: a zero et keeps the old one.
Announced(entry, et) ==
  [status |-> IF entry.status = "none" THEN "seen" ELSE entry.status,
   et     |-> IF et # 0 THEN et ELSE entry.et]

\* The frames each state has an edge for; the others are dropped.
Handled ==
  [pre_startup   |-> {"SC_STARTUP"},
   post_startup  |-> {"SC_STARTUP", "DEVICE_STARTUP", "DEVICE_DD",
                      "aSC_HEARTBEAT", "SC_CONFIGURATION_FINISHED",
                      "SC_COORDINATOR"},
   audit         |-> {"SC_DECLARATION", "SC_STARTUP", "DEVICE_STARTUP",
                      "DEVICE_DD", "SC_COORDINATOR", "SC_QUERY",
                      "SC_READY_TO_TAKE_OVER", "aSC_HEARTBEAT"},
   passing_token |-> {"SC_DECLARATION", "SC_STARTUP", "DEVICE_STARTUP",
                      "DEVICE_DD", "SC_COORDINATOR", "SC_QUERY",
                      "SC_READY_TO_TAKE_OVER", "aSC_HEARTBEAT"},
   passive       |-> FrameType \ {"SC_COORDINATOR", "DEVICE_ASSIGNMENT_ACK",
                                  "DEVICE_SOFT_DISABLE_ALARM"},
   heartbeat_out |-> {"SC_STARTUP", "SC_COORDINATOR", "aSC_HEARTBEAT",
                      "DEVICE_STARTUP", "DEVICE_DD", "DEVICE_ASSIGNMENT_ACK",
                      "DEVICE_SOFT_DISABLE_ALARM"},
   commissioned  |-> {"SC_STARTUP", "SC_COORDINATOR", "aSC_HEARTBEAT",
                      "DEVICE_STARTUP", "DEVICE_DD", "DEVICE_ASSIGNMENT_ACK",
                      "DEVICE_SOFT_DISABLE_ALARM"},
   inactive      |-> {"aSC_HEARTBEAT", "SC_STARTUP", "SC_COORDINATOR",
                      "SC_ASSIGNMENT"},
   soft_disabled |-> {"SC_STARTUP", "DEVICE_DD"},
   hard_disabled |-> {}]

\* Self-events likewise.
HandledEvent(e) ==
  CASE e = "ui_g_hard_disable"         -> State
    [] e = "hard_enable_apply"         -> {"hard_disabled"}
    [] e = "iu_reset_detected"         -> {"audit"}
    [] e = "audit_pass_done"           -> {"audit"}
    [] e = "assignment_phase_complete" -> HeartbeatOut

-----------------------------------------------------------------------------
(* The bus *)

\* q with the frames fs of SC n appended for every other running SC; a failed
\* send drops the frame for all of them.
OnBus(n, fs, q) ==
  [m \in SC |-> IF m # n /\ up[m] /\ linked[n] THEN q[m] \o fs ELSE q[m]]

\* What a device owes for an SC_ASSIGNMENT: its acknowledge, with the same et.
Owed == [dd : Dev, et : Nat]

\* Mutant: a device takes an assignment that is addressed to another.
AskedByAnyone(n, fs) ==
  {[dd |-> d, et |-> f.et] :
     d \in waits,
     f \in {g \in ToSet(fs) : linked[n] /\ g.type = "SC_ASSIGNMENT" /\ g.et # 0}}

\* record_assignment: the devices that take an SC_ASSIGNMENT among fs.  Only
\* wait_for_assignment has an edge for it, and an et of 0 is ignored.
Asked(n, fs) ==
  {[dd |-> f.dd, et |-> f.et] :
     f \in {g \in ToSet(fs) : /\ linked[n] /\ g.type = "SC_ASSIGNMENT"
                             /\ g.dd \in waits /\ g.et # 0}}

\* They store the et and owe an acknowledge.
Given(n, fs) ==
  /\ asked' = asked \cup Asked(n, fs)
  /\ holds' = [d \in Dev |-> IF \E o \in Asked(n, fs) : o.dd = d
                              THEN (CHOOSE o \in Asked(n, fs) : o.dd = d).et
                              ELSE holds[d]]

Send(n, fs)  == queue' = OnBus(n, fs, queue) /\ Given(n, fs)

\* The same, in the step that takes the frame at the head of n's queue.
Reply(n, fs) == queue' = OnBus(n, fs, [queue EXCEPT ![n] = Tail(@)]) /\ Given(n, fs)

Take(n) == Reply(n, <<>>)

Quiet == UNCHANGED <<queue, asked, holds>>

\* A timer and a periodic send wait until no backlog reaches MaxQueue.
Room == \A m \in SC : Len(queue[m]) < MaxQueue

\* A periodic frame is not repeated while the last one is still unheard.
Heard(n, f) == \A m \in SC \ {n} : f \notin ToSet(queue[m])

\* The hop to hard_disabled that boot schedules runs before the receive loop
\* and before any timer (app.start creates the loop after Started).
Ready(n) == up[n] /\ "ui_g_hard_disable" \notin pend[n]

\* n handles a frame of type t now, in one of the states S.
Hears(n, S, t) == /\ Ready(n) /\ state[n] \in S
                  /\ queue[n] # <<>> /\ Head(queue[n]).type = t

Sender(n) == Head(queue[n]).dd

-----------------------------------------------------------------------------
(* Entering a state: the state's Entry behaviours *)

Goto(n, s) == state' = [state EXCEPT ![n] = s]

ClearRam == [declaration_sent |-> FALSE, assignment_received |-> FALSE,
             token_candidate |-> NoDD, unresponsive |-> {},
             verification |-> FALSE]

\* Mutant: the hop is skipped, as if hard_disabled were kept in instance.ram.
EnterPreStartupForgetful(n, events) ==
  /\ Goto(n, "pre_startup")
  /\ ram' = [ram EXCEPT ![n] = ClearRam]
  /\ pend' = [pend EXCEPT ![n] = events]

\* reset_entry: instance.ram goes; the lists and soft_disabled do not.
EnterPreStartup(n, events) ==
  /\ Goto(n, "pre_startup")
  /\ ram' = [ram EXCEPT ![n] = ClearRam]
  /\ pend' = [pend EXCEPT ![n] = events \cup
                (IF nvm[n].hard_disabled THEN {"ui_g_hard_disable"} ELSE {})]

\* enter_passive_coordinator
EnterPassive(n) ==
  /\ Goto(n, "passive")
  /\ ram' = [ram EXCEPT ![n].declaration_sent = FALSE]

\* Mutant: entry starts a task only if there is an SC to query.
EnterAuditIfNeeded(n) ==
  /\ Goto(n, "audit")
  /\ audits' = [audits EXCEPT ![n] = IF Unanswered(scram[n]) # {} THEN 1 ELSE @]

\* query_unknown_scs: entry starts one more task; leaving cancels none.
EnterAudit(n) ==
  /\ Goto(n, "audit")
  /\ audits' = [audits EXCEPT ![n] = IF @ < MaxAudits THEN @ + 1 ELSE @]

\* enter_hard_disabled
EnterHardDisabled(n) ==
  /\ Goto(n, "hard_disabled")
  /\ nvm' = [nvm EXCEPT ![n].hard_disabled = TRUE]

\* enter_soft_disabled
EnterSoftDisabled(n) ==
  /\ Goto(n, "soft_disabled")
  /\ soft' = [soft EXCEPT ![n] = TRUE]

-----------------------------------------------------------------------------
(* Power, faults, operator commands *)

Spend(what) == /\ budget[what] > 0
               /\ budget' = [budget EXCEPT ![what] = @ - 1]

\* Start the process: everything but nvm is new, pre_startup is entered.
Boot(n) ==
  /\ ~up[n]
  /\ up' = [up EXCEPT ![n] = TRUE]
  /\ EnterPreStartup(n, {})
  /\ UNCHANGED <<soft, lists, audits, sweep, children, nvm, queue, asked, holds,
                 linked, devs, budget>>

\* Lose the process and all it holds in memory, its tasks and queues too.
Crash(n) ==
  /\ up[n]
  /\ Spend("crash")
  /\ up' = [up EXCEPT ![n] = FALSE]
  /\ Goto(n, "pre_startup")
  /\ ram' = [ram EXCEPT ![n] = ClearRam]
  /\ soft' = [soft EXCEPT ![n] = FALSE]
  /\ scram' = [scram EXCEPT ![n] = EmptyList]
  /\ devRam' = [devRam EXCEPT ![n] = [d \in Unit |-> NoDevice]]
  /\ queue' = [queue EXCEPT ![n] = <<>>]
  /\ pend' = [pend EXCEPT ![n] = {}]
  /\ audits' = [audits EXCEPT ![n] = 0]
  /\ sweep' = [sweep EXCEPT ![n] = {}]
  /\ children' = [children EXCEPT ![n] = {}]
  /\ UNCHANGED <<nvm, asked, holds, linked, devs>>

\* The transport's sends start or stop to fail.
LinkFail(n) ==
  /\ linked[n]
  /\ Spend("fault")
  /\ linked' = [linked EXCEPT ![n] = FALSE]
  /\ UNCHANGED <<node, lists, tasks, nvm, queue, asked, holds, up, devs>>

LinkRestore(n) ==
  /\ ~linked[n]
  /\ linked' = [linked EXCEPT ![n] = TRUE]
  /\ UNCHANGED <<node, lists, tasks, nvm, queue, asked, holds, up, devs,
                 budget>>

\* UI/G hard disable in any other state; hard_disabled only acknowledges it.
HardDisable(n) ==
  /\ Ready(n) /\ state[n] # "hard_disabled"
  /\ Spend("command")
  /\ EnterHardDisabled(n)
  /\ UNCHANGED <<ram, soft, lists, tasks, queue, asked, holds, up, linked, devs>>

\* prestartup_malfunction_detected
Malfunction(n) ==
  /\ Ready(n) /\ state[n] = "pre_startup"
  /\ Spend("command")
  /\ EnterHardDisabled(n)
  /\ UNCHANGED <<ram, soft, lists, tasks, queue, asked, holds, up, linked, devs>>

\* Mutant: the enable clears the flag and leaves no event behind.
HardEnableFlagOnly(n) ==
  /\ Ready(n) /\ state[n] = "hard_disabled"
  /\ Spend("command")
  /\ nvm' = [nvm EXCEPT ![n].hard_disabled = FALSE]
  /\ UNCHANGED <<node, lists, tasks, queue, asked, holds, up, linked, devs>>

\* UI/G hard enable: the flag is cleared now, the state left one event later.
HardEnable(n) ==
  /\ Ready(n) /\ state[n] = "hard_disabled"
  /\ Spend("command")
  /\ nvm' = [nvm EXCEPT ![n].hard_disabled = FALSE]
  /\ pend' = [pend EXCEPT ![n] = @ \cup {"hard_enable_apply"}]
  /\ UNCHANGED <<node, lists, audits, sweep, children, queue, asked, holds,
                 up, linked, devs>>

\* RESET_COMMAND
Reset(n) ==
  /\ Ready(n)
  /\ state[n] \in {"pre_startup", "passive", "inactive", "soft_disabled"}
  /\ Spend("command")
  /\ EnterPreStartup(n, pend[n])
  /\ UNCHANGED <<soft, lists, audits, sweep, children, nvm, queue, asked, holds,
                 up, linked, devs>>

\* soft_disable_commanded
SoftDisable(n) ==
  /\ Ready(n) /\ state[n] = "inactive"
  /\ Spend("command")
  /\ EnterSoftDisabled(n)
  /\ UNCHANGED <<ram, lists, tasks, nvm, queue, asked, holds, up, linked, devs>>

-----------------------------------------------------------------------------
(* The local controllers, as the SCs see them *)

\* What device d puts on the bus is heard by every running SC.
Says(f) ==
  queue' = [m \in SC |-> IF up[m] THEN Append(queue[m], f) ELSE queue[m]]

\* Device d enters wait_for_assignment, or repeats its entry there.
DeviceWaits(d) ==
  /\ Spend("announce")
  /\ waits' = waits \cup {d}
  /\ Says(Startup(d))
  /\ UNCHANGED <<node, lists, tasks, nvm, asked, holds, up, linked, strays>>

\* Reset, hard disable or power failure, by which an acknowledge not yet on the
\* bus may be lost.
DeviceLeaves(d) ==
  /\ d \in waits
  /\ waits' = waits \ {d}
  /\ asked' \in {asked, {o \in asked : o.dd # d}}
  /\ UNCHANGED <<node, lists, tasks, nvm, queue, holds, up, linked, strays, budget>>

\* Device d announces itself in any other way: while it starts, after it is
\* assigned, or as the answer to a coordinator.
DeviceAnnounce(d, f) ==
  /\ f \in Announcement(d)
  /\ Spend("announce")
  /\ Says(f)
  /\ UNCHANGED <<node, lists, tasks, nvm, asked, holds, up, linked, devs>>

\* Device d's acknowledge of an assignment that it took goes out.
DeviceAck(d) ==
  /\ \E o \in asked :
       /\ o.dd = d
       /\ asked' = asked \ {o}
       /\ Says(FromDevice("DEVICE_ASSIGNMENT_ACK", d, o.et))
  /\ UNCHANGED <<node, lists, tasks, nvm, holds, env>>

-----------------------------------------------------------------------------
(* Start-up and arbitration *)

\* pre_startup: the DD-derived delay elapsed.
StartupDelay(n) ==
  /\ Ready(n) /\ state[n] = "pre_startup" /\ Room
  /\ Goto(n, "post_startup")
  /\ Send(n, <<From("SC_STARTUP", n)>>)
  /\ UNCHANGED <<ram, soft, lists, tasks, nvm, env>>

\* pre_startup, inactive, soft_disabled: another SC started; announce and
\* rejoin.  The sender is not put on the list.
JoinStartup(n) ==
  /\ Hears(n, {"pre_startup", "inactive", "soft_disabled"}, "SC_STARTUP")
  /\ Goto(n, "post_startup")
  /\ Reply(n, <<From("SC_STARTUP", n)>>)
  /\ UNCHANGED <<ram, soft, lists, tasks, nvm, env>>

\* post_startup, audit: list the SC that started.
ListStartup(n) ==
  /\ Hears(n, {"post_startup", "audit"}, "SC_STARTUP")
  /\ scram' = [scram EXCEPT ![n] = WithStartup(@, Sender(n))]
  /\ Take(n)
  /\ UNCHANGED <<node, devRam, tasks, nvm, env>>

\* absorb_new_sc_startup
AbsorbStartup(n) ==
  /\ Hears(n, {"passing_token", "passive"}, "SC_STARTUP")
  /\ scram' = [scram EXCEPT ![n] = WithStartup(@, Sender(n))]
  /\ Reply(n, <<Credentials("SC_COORDINATOR", n)>>)
  /\ UNCHANGED <<node, devRam, tasks, nvm, env>>

\* post_startup: one second after our SC_STARTUP.  The arbiter's guard holds
\* always, nothing sets lost_arbitration.
ArbitrationWindow(n) ==
  /\ Ready(n) /\ state[n] = "post_startup" /\ Room
  /\ EnterAudit(n)
  /\ Send(n, <<Credentials("SC_COORDINATOR", n)>>)
  /\ UNCHANGED <<ram, soft, lists, pend, sweep, children, nvm, env>>

\* post_startup: another SC coordinates.  Its frame is filed as a device's.
YieldToCoordinator(n) ==
  /\ Hears(n, {"post_startup"}, "SC_COORDINATOR")
  /\ devRam' = [devRam EXCEPT ![n][Sender(n)] = Announced(@, 0)]
  /\ EnterPassive(n)
  /\ Take(n)
  /\ UNCHANGED <<soft, scram, tasks, nvm, env>>

\* remember_asc_and_wait: post_startup and the active coordinator stand back
\* for a heartbeat, post_startup also for SC_CONFIGURATION_FINISHED, a frame
\* without a dd.
YieldToAsc(n) ==
  /\ \/ Hears(n, {"post_startup"} \cup ActiveCoordinator, "aSC_HEARTBEAT")
     \/ Hears(n, {"post_startup"}, "SC_CONFIGURATION_FINISHED")
  /\ scram' = [scram EXCEPT ![n] = WithAsc(@, Sender(n))]
  /\ EnterPassive(n)
  /\ Take(n)
  /\ UNCHANGED <<soft, devRam, tasks, nvm, env>>

-----------------------------------------------------------------------------
(* The active coordinator: audit, choice, token pass *)

\* query_unknown_scs: one SC_QUERY of a running task.
AuditQuery(n) ==
  /\ Ready(n) /\ audits[n] > 0 /\ Unanswered(scram[n]) # {}
  /\ Room /\ Heard(n, Empty("SC_QUERY"))
  /\ Send(n, <<Empty("SC_QUERY")>>)
  /\ UNCHANGED <<node, lists, tasks, nvm, env>>

\* Mutant: the end of a task does not check that one runs.
AuditFinishedTwice(n) ==
  /\ Ready(n) /\ Unanswered(scram[n]) = {}
  /\ audits' = [audits EXCEPT ![n] = @ - 1]
  /\ pend' = [pend EXCEPT ![n] = @ \cup {"audit_pass_done"}]
  /\ Quiet
  /\ UNCHANGED <<node, lists, sweep, children, nvm, env>>

\* query_unknown_scs: a task finds no SC to query, schedules the event, ends.
AuditFinished(n) ==
  /\ Ready(n) /\ audits[n] > 0 /\ Unanswered(scram[n]) = {}
  /\ audits' = [audits EXCEPT ![n] = @ - 1]
  /\ pend' = [pend EXCEPT ![n] = @ \cup {"audit_pass_done"}]
  /\ Quiet
  /\ UNCHANGED <<node, lists, sweep, children, nvm, env>>

\* update_scram_with_declaration
RecordDeclaration(n) ==
  /\ Hears(n, ActiveCoordinator \cup {"passive"}, "SC_DECLARATION")
  /\ scram' = [scram EXCEPT ![n] =
                 WithDeclaration(@, Sender(n), Head(queue[n]).rank)]
  /\ Take(n)
  /\ UNCHANGED <<node, devRam, tasks, nvm, env>>

\* audit: an indoor unit's arrival starts the sweep from the top.
IuResetDetected(n) ==
  /\ Ready(n) /\ state[n] = "audit" /\ "iu_reset_detected" \in pend[n]
  /\ pend' = [pend EXCEPT ![n] = @ \ {"iu_reset_detected"}]
  /\ EnterAudit(n)
  /\ Quiet
  /\ UNCHANGED <<ram, soft, lists, sweep, children, nvm, env>>

\* The event audit_pass_done, with the effect mark_unresponsive_scs.
AuditPassDone(n) ==
  /\ Ready(n) /\ state[n] = "audit" /\ "audit_pass_done" \in pend[n]
  /\ pend' = [pend EXCEPT ![n] = @ \ {"audit_pass_done"}]

Silent(n) == ram[n].unresponsive \cup Unanswered(scram[n])

\* Mutant: the heartbeat is left to the broadcaster.
TakeLeadSilently(n) ==
  /\ AuditPassDone(n)
  /\ IsBestResponsive(scram[n], n)
  /\ Goto(n, "heartbeat_out")
  /\ ram' = [ram EXCEPT ![n].unresponsive = Silent(n)]
  /\ sweep' = [sweep EXCEPT ![n] = @ \cup Known(n)]
  /\ Send(n, <<Empty("SC_READY_TO_TAKE_OVER")>>)
  /\ UNCHANGED <<soft, lists, audits, children, nvm, env>>

\* Mutant: entry starts the broadcaster and no sweep.
TakeLeadUnswept(n) ==
  /\ AuditPassDone(n)
  /\ IsBestResponsive(scram[n], n)
  /\ Goto(n, "heartbeat_out")
  /\ ram' = [ram EXCEPT
       ![n].unresponsive = Silent(n),
       ![n].verification = /\ nvm[n].configured
                           /\ \E m \in Listed(scram[n]) : scram[n][m].valid]
  /\ Send(n, <<From("aSC_HEARTBEAT", n), Empty("SC_READY_TO_TAKE_OVER")>>)
  /\ UNCHANGED <<soft, lists, audits, sweep, children, nvm, env>>

\* best_responsive chooses heartbeat_out: heartbeat, then the state's entry
\* (send_ready_to_take_over, enter_heartbeat_out and the sweep it schedules).
TakeLead(n) ==
  /\ AuditPassDone(n)
  /\ IsBestResponsive(scram[n], n)
  /\ Goto(n, "heartbeat_out")
  /\ ram' = [ram EXCEPT
       ![n].unresponsive = Silent(n),
       ![n].verification = /\ nvm[n].configured
                           /\ \E m \in Listed(scram[n]) : scram[n][m].valid]
  /\ sweep' = [sweep EXCEPT ![n] = @ \cup Known(n)]
  /\ Send(n, <<From("aSC_HEARTBEAT", n), Empty("SC_READY_TO_TAKE_OVER")>>)
  /\ UNCHANGED <<soft, lists, audits, children, nvm, env>>

\* best_responsive chooses passing_token, whose entry is pass_token_to_best.
\* The frame does not carry the candidate.
PassToken(n) ==
  /\ AuditPassDone(n)
  /\ ~IsBestResponsive(scram[n], n)
  /\ Goto(n, "passing_token")
  /\ ram' = [ram EXCEPT ![n].unresponsive = Silent(n),
                        ![n].token_candidate = BestOther(scram[n])]
  /\ Send(n, <<Empty("SC_TOKEN_PASS")>>)
  /\ UNCHANGED <<soft, lists, audits, sweep, children, nvm, env>>

\* mark_candidate_unresponsive: no SC_COORDINATOR within 100 ms.
TokenAckWindow(n) ==
  /\ Ready(n) /\ state[n] = "passing_token" /\ Room
  /\ ram' = [ram EXCEPT ![n].unresponsive = @ \cup {ram[n].token_candidate}]
  /\ EnterAudit(n)
  /\ Quiet
  /\ UNCHANGED <<soft, lists, pend, sweep, children, nvm, env>>

\* Mutant: the challenger's spl, dpl and prn are not decoded.
MoreCredentialedByDd(n) ==
  LET f == Head(queue[n]) IN Outranks(0, f.dd, Rank[n], n)

\* challenger_more_credentialed, for the frame at the head of n's queue
MoreCredentialed(n) ==
  LET f == Head(queue[n]) IN Outranks(f.rank, f.dd, Rank[n], n)

\* passing_token takes any SC_COORDINATOR for the token's acknowledge; audit
\* and heartbeat_out give way to a better one.
YieldToBetter(n) ==
  /\ \/ Hears(n, {"passing_token"}, "SC_COORDINATOR")
     \/ /\ Hears(n, {"audit"} \cup HeartbeatOut, "SC_COORDINATOR")
        /\ MoreCredentialed(n)
  /\ EnterPassive(n)
  /\ Take(n)
  /\ UNCHANGED <<soft, lists, tasks, nvm, env>>

\* respond_with_coordinator, confirm_takeover_with_coordinator: the query and
\* the claim carry no dd, so the challenger never has better credentials.
Reassert(n) ==
  /\ \/ Hears(n, ActiveCoordinator, "SC_QUERY")
     \/ Hears(n, ActiveCoordinator, "SC_READY_TO_TAKE_OVER")
  /\ Reply(n, <<Credentials("SC_COORDINATOR", n)>>)
  /\ UNCHANGED <<node, lists, tasks, nvm, env>>

-----------------------------------------------------------------------------
(* The passive coordinator *)

\* respond_with_declaration, and the flag it leaves
Declare(n) ==
  /\ Reply(n, <<Credentials("SC_DECLARATION", n)>>)
  /\ ram' = [ram EXCEPT ![n].declaration_sent = TRUE]
  /\ UNCHANGED <<state, soft, lists, tasks, nvm, env>>

\* A query in passive, a coordinator in inactive, a device's DD in
\* soft_disabled are answered with our declaration.
AnswerDeclaration(n) ==
  /\ \/ Hears(n, {"passive"}, "SC_QUERY")
     \/ Hears(n, {"inactive"}, "SC_COORDINATOR")
     \/ Hears(n, {"soft_disabled"}, "DEVICE_DD")
  /\ Declare(n)

\* handle_ready_to_take_over: declare unless done since entry.
DeclareIfSilent(n) ==
  /\ Hears(n, {"passive"}, "SC_READY_TO_TAKE_OVER")
  /\ ~ram[n].declaration_sent
  /\ Declare(n)

AlreadyDeclared(n) ==
  /\ Hears(n, {"passive"}, "SC_READY_TO_TAKE_OVER")
  /\ ram[n].declaration_sent
  /\ Take(n)
  /\ UNCHANGED <<node, lists, tasks, nvm, env>>

\* Any SC_TOKEN_PASS makes a passive SC active; it names no candidate.
TakeToken(n) ==
  /\ Hears(n, {"passive"}, "SC_TOKEN_PASS")
  /\ EnterAudit(n)
  /\ Reply(n, <<Credentials("SC_COORDINATOR", n)>>)
  /\ UNCHANGED <<ram, soft, lists, pend, sweep, children, nvm, env>>

\* respond_with_assignment_ack, for an assignment to whichever dd.
Acknowledge(n) ==
  /\ Reply(n, <<FromDevice("DEVICE_ASSIGNMENT_ACK", n, Head(queue[n]).et)>>)
  /\ ram' = [ram EXCEPT ![n].assignment_received = TRUE]
  /\ UNCHANGED <<lists, tasks, nvm, env>>

\* The assignment's CF4 bit is clear: becomes_soft_disabled_device.
BecomeSoftDisabled(n) ==
  /\ Hears(n, {"passive", "inactive"}, "SC_ASSIGNMENT") /\ Head(queue[n]).soft
  /\ EnterSoftDisabled(n)
  /\ Acknowledge(n)

BecomeInactive(n) ==
  /\ Hears(n, {"passive", "inactive"}, "SC_ASSIGNMENT") /\ ~Head(queue[n]).soft
  /\ Goto(n, "inactive")
  /\ Acknowledge(n)
  /\ UNCHANGED soft

\* SC_CONFIGURATION_FINISHED after our assignment
FinishAsIsc(n) ==
  /\ Hears(n, {"passive"}, "SC_CONFIGURATION_FINISHED")
  /\ ram[n].assignment_received
  /\ Goto(n, "inactive")
  /\ Take(n)
  /\ UNCHANGED <<ram, soft, lists, tasks, nvm, env>>

\* SC_CONFIGURATION_FINISHED without one, and any heartbeat, remember the aSC.
RememberAsc(n) ==
  /\ \/ /\ Hears(n, {"passive"}, "SC_CONFIGURATION_FINISHED")
        /\ ~ram[n].assignment_received
     \/ Hears(n, {"passive", "inactive"}, "aSC_HEARTBEAT")
  /\ scram' = [scram EXCEPT ![n] = WithAsc(@, Sender(n))]
  /\ Take(n)
  /\ UNCHANGED <<node, devRam, tasks, nvm, env>>

\* The 60 s and 5 min deadlines of passive, and their Activity's events.
PassiveDeadline(n) ==
  /\ Ready(n) /\ state[n] = "passive"
  /\ Spend("deadline")
  /\ EnterPreStartup(n, pend[n])
  /\ Quiet
  /\ UNCHANGED <<soft, lists, audits, sweep, children, nvm, up, linked, devs>>

-----------------------------------------------------------------------------
(* Devices *)

\* is_iu
IsIndoorUnit(et) == et \in 16..31

\* update_device_ram_from_startup, outside heartbeat_out
DeviceArrival(n) ==
  /\ \/ Hears(n, {"post_startup", "passive"} \cup ActiveCoordinator,
              "DEVICE_STARTUP")
     \/ Hears(n, {"post_startup", "passive"} \cup ActiveCoordinator,
              "DEVICE_DD")
  /\ devRam' = [devRam EXCEPT ![n][Sender(n)] = Announced(@, Head(queue[n]).et)]
  /\ IF IsIndoorUnit(Head(queue[n]).et)
       THEN /\ scram' = [scram EXCEPT ![n] = Revoked(@)]
            /\ pend' = [pend EXCEPT ![n] = @ \cup {"iu_reset_detected"}]
       ELSE UNCHANGED <<scram, pend>>
  /\ Take(n)
  /\ UNCHANGED <<node, audits, sweep, children, nvm, env>>

\* assign_et_si_for_device(n, d), for an event that carries et.  A stranger in
\* verification is told to soft-disable, with the flag that says it is not; an
\* archived device gets its et; any other a FIG. 14 child.
Stranger(n, d) == ram[n].verification /\ ~nvm[n].devices[d].known
Archived(n, d) == ~Stranger(n, d) /\ nvm[n].devices[d].et # 0

AssignFrames(n, d) ==
  <<From("aSC_HEARTBEAT", n)>> \o
  CASE Stranger(n, d) -> <<Assignment(d, 0, FALSE),
                           Empty("DEVICE_SOFT_DISABLE_ALARM")>>
    [] Archived(n, d) -> <<Assignment(d, nvm[n].devices[d].et, soft[n])>>
    [] OTHER          -> <<>>

AssignEtSi(n, d, et) ==
  LET entry == IF d \in Known(n) THEN devRam[n][d] ELSE Announced(NoDevice, et)
  IN /\ devRam' = [devRam EXCEPT ![n][d] = entry]
     /\ children' = [children EXCEPT ![n] =
          IF Stranger(n, d) \/ Archived(n, d)
            THEN @ ELSE @ \cup {[dd |-> d, et |-> entry.et]}]

\* heartbeat_out: a device announces itself.
AssignArrival(n) ==
  /\ \/ Hears(n, HeartbeatOut, "DEVICE_STARTUP")
     \/ Hears(n, HeartbeatOut, "DEVICE_DD")
  /\ AssignEtSi(n, Sender(n), Head(queue[n]).et)
  /\ Reply(n, AssignFrames(n, Sender(n)))
  /\ UNCHANGED <<node, scram, pend, audits, sweep, nvm, env>>

\* _sweep_device_ram: one visit of a sweep task, in whatever state n is now.
SweepVisit(n, d) ==
  /\ Ready(n) /\ d \in sweep[n]
  /\ sweep' = [sweep EXCEPT ![n] = @ \ {d}]
  /\ AssignEtSi(n, d, devRam[n][d].et)
  /\ Send(n, AssignFrames(n, d))
  /\ UNCHANGED <<node, scram, pend, audits, nvm, env>>

\* Mutant: the child's own device counts as its rival.
HasRivalItself(n, c) == \E e \in Unfinished(devRam[n]) : devRam[n][e].et = c.et

\* another_unknown_with_same_et
HasRival(n, c) ==
  \E e \in Unfinished(devRam[n]) \ {c.dd} : devRam[n][e].et = c.et

\* A DEVICE_STARTUP that the SC takes next is dispatched to every machine of its
\* process: a child that has started and not had its seed yet takes it for that
\* seed, whichever device sent it.
StraySeed(n, c) ==
  /\ Hears(n, State, "DEVICE_STARTUP") /\ c \in children[n]
  /\ LET f == Head(queue[n])
         taken == [c EXCEPT !.et = f.et]
     IN /\ children' = [children EXCEPT ![n] = (@ \ {c}) \cup {taken}]
        /\ strays' = IF f.dd = c.dd THEN strays ELSE strays \cup {taken}
  /\ Quiet
  /\ UNCHANGED <<node, lists, pend, audits, sweep, nvm, up, linked, waits, budget>>

\* The FIG. 14 child c acts on its seed event: it assigns the reported et and
\* ends; with a rival it goes to candidate, whose events nothing raises.
ChildSeeded(n, c) ==
  /\ Ready(n) /\ c \in children[n]
  /\ children' = [children EXCEPT ![n] = @ \ {c}]
  /\ Send(n, IF HasRival(n, c) THEN <<>> ELSE <<Assignment(c.dd, c.et, FALSE)>>)
  /\ UNCHANGED <<node, lists, pend, audits, sweep, nvm, env>>

\* Mutant: the acknowledge marks the device and leaves nvm for later.
RecordAckInRam(n) ==
  /\ Hears(n, HeartbeatOut, "DEVICE_ASSIGNMENT_ACK")
  /\ devRam' = [devRam EXCEPT ![n][Sender(n)] =
       IF Sender(n) \in Known(n) THEN [@ EXCEPT !.status = "assigned"] ELSE @]
  /\ Take(n)
  /\ UNCHANGED <<node, scram, tasks, nvm, env>>

\* record_assignment_ack: the device list and nvm with the sender of f, then
\* the question whether every listed device is assigned.
Recorded(entry, et) == [Announced(entry, et) EXCEPT !.status = "assigned"]

AllAssigned(list) == Finished(list) # {} /\ Unfinished(list) = {}

RecordAck(n) ==
  /\ Hears(n, HeartbeatOut, "DEVICE_ASSIGNMENT_ACK")
  /\ LET d == Sender(n)
         entry == Recorded(devRam[n][d], Head(queue[n]).et)
     IN IF d \in Known(n)
          THEN /\ devRam' = [devRam EXCEPT ![n][d] = entry]
               /\ nvm' = [nvm EXCEPT ![n].devices[d] =
                                   [known |-> TRUE, et |-> entry.et]]
          ELSE UNCHANGED <<devRam, nvm>>
  /\ pend' = [pend EXCEPT ![n] = @ \cup
       IF AllAssigned(devRam'[n]) THEN {"assignment_phase_complete"} ELSE {}]
  /\ Take(n)
  /\ UNCHANGED <<node, scram, audits, sweep, children, env>>

-----------------------------------------------------------------------------
(* The leader: heartbeat_out and commissioned *)

\* heartbeat_broadcaster
HeartbeatPeriod(n) ==
  /\ Ready(n) /\ state[n] \in HeartbeatOut
  /\ Room /\ Heard(n, From("aSC_HEARTBEAT", n))
  /\ Send(n, <<From("aSC_HEARTBEAT", n)>>)
  /\ UNCHANGED <<node, lists, tasks, nvm, env>>

\* A new SC: back to the audit.
ReenterAudit(n) ==
  /\ Hears(n, HeartbeatOut, "SC_STARTUP")
  /\ scram' = [scram EXCEPT ![n] = WithStartup(@, Sender(n))]
  /\ EnterAudit(n)
  /\ Take(n)
  /\ UNCHANGED <<ram, soft, devRam, pend, sweep, children, nvm, env>>

\* Mutant: the link-local setting is not asked.
BestPerAnyMode(n) ==
  /\ ~ram[n].verification
  /\ Outranks(Rank[n], n, 0, Sender(n))

\* credentials_best_per_mode: verification needs an NVM record of the rival
\* that nothing writes; the heartbeat's rank reads as zero.
BestPerMode(n) ==
  /\ ~ram[n].verification
  /\ LinkLocal
  /\ Outranks(Rank[n], n, 0, Sender(n))

\* Mutant: the better leader ignores the heartbeat.
IgnoreHeartbeat(n) ==
  /\ Hears(n, HeartbeatOut, "aSC_HEARTBEAT") /\ BestPerMode(n)
  /\ Take(n)
  /\ UNCHANGED <<node, lists, tasks, nvm, env>>

AnswerHeartbeat(n) ==
  /\ Hears(n, HeartbeatOut, "aSC_HEARTBEAT") /\ BestPerMode(n)
  /\ Reply(n, <<From("aSC_HEARTBEAT", n)>>)
  /\ UNCHANGED <<node, lists, tasks, nvm, env>>

YieldToHeartbeat(n) ==
  /\ Hears(n, HeartbeatOut, "aSC_HEARTBEAT") /\ ~BestPerMode(n)
  /\ Goto(n, "inactive")
  /\ Take(n)
  /\ UNCHANGED <<ram, soft, lists, tasks, nvm, env>>

\* Another leader's alarm is repeated.
RepeatAlarm(n) ==
  /\ Hears(n, HeartbeatOut, "DEVICE_SOFT_DISABLE_ALARM")
  /\ Reply(n, <<Empty("DEVICE_SOFT_DISABLE_ALARM")>>)
  /\ UNCHANGED <<node, lists, tasks, nvm, env>>

\* assignment_phase_complete: send_configuration_finished, commissioned, and
\* send_asc_change_state, which takes every waiting device to assigned.
AssignmentPhaseComplete(n) ==
  /\ Ready(n) /\ state[n] \in HeartbeatOut
  /\ "assignment_phase_complete" \in pend[n]
  /\ pend' = [pend EXCEPT ![n] = @ \ {"assignment_phase_complete"}]
  /\ Goto(n, "commissioned")
  /\ nvm' = [nvm EXCEPT ![n].configured = TRUE]
  /\ Send(n, <<Empty("SC_CONFIGURATION_FINISHED")>>)
  /\ waits' = IF linked[n] THEN {} ELSE waits
  /\ UNCHANGED <<ram, soft, lists, audits, sweep, children, up, linked, strays, budget>>

-----------------------------------------------------------------------------
(* Hard disable, and what no state handles *)

\* The hop boot schedules when NVM says hard-disabled.
HopToHardDisabled(n) ==
  /\ up[n] /\ "ui_g_hard_disable" \in pend[n]
  /\ pend' = [pend EXCEPT ![n] = @ \ {"ui_g_hard_disable"}]
  /\ EnterHardDisabled(n)
  /\ Quiet
  /\ UNCHANGED <<ram, soft, lists, audits, sweep, children, env>>

HardEnableApply(n) ==
  /\ Ready(n) /\ state[n] = "hard_disabled" /\ "hard_enable_apply" \in pend[n]
  /\ EnterPreStartup(n, pend[n] \ {"hard_enable_apply"})
  /\ Quiet
  /\ UNCHANGED <<soft, lists, audits, sweep, children, nvm, env>>

\* A self-event that arrives in a state without an edge for it.
DropEvent(n, e) ==
  /\ Ready(n) /\ e \in pend[n] /\ state[n] \notin HandledEvent(e)
  /\ pend' = [pend EXCEPT ![n] = @ \ {e}]
  /\ Quiet
  /\ UNCHANGED <<node, lists, audits, sweep, children, nvm, env>>

\* A frame no edge of the state accepts.
DropFrame(n) ==
  /\ Ready(n) /\ queue[n] # <<>>
  /\ \/ Head(queue[n]).type \notin Handled[state[n]]
     \/ /\ Hears(n, {"audit"} \cup HeartbeatOut, "SC_COORDINATOR")
        /\ ~MoreCredentialed(n)
  /\ Take(n)
  /\ UNCHANGED <<node, lists, tasks, nvm, env>>
-----------------------------------------------------------------------------
(* The specification *)

Init ==
  /\ up = [n \in SC |-> FALSE]
  /\ linked = [n \in SC |-> TRUE]
  /\ state = [n \in SC |-> "pre_startup"]
  /\ ram = [n \in SC |-> ClearRam]
  /\ scram = [n \in SC |-> EmptyList]
  /\ devRam = [n \in SC |-> [d \in Unit |-> NoDevice]]
  /\ soft = [n \in SC |-> FALSE]
  /\ nvm = [n \in SC |->
       [hard_disabled |-> FALSE,
        configured    |-> DOMAIN Installed \ {n} # {},
        devices       |-> [d \in Unit |->
                             IF d \in DOMAIN Installed \ {n}
                               THEN [known |-> TRUE, et |-> Installed[d]]
                               ELSE NoArchive]]]
  /\ queue = [n \in SC |-> <<>>]
  /\ pend = [n \in SC |-> {}]
  /\ audits = [n \in SC |-> 0]
  /\ sweep = [n \in SC |-> {}]
  /\ children = [n \in SC |-> {}]
  /\ asked = {} /\ waits = {} /\ strays = {}
  /\ holds = [d \in Dev |-> IF d \in DOMAIN Installed THEN Installed[d] ELSE 0]
  /\ budget = [deadline |-> MaxDeadline, crash |-> MaxCrash, fault |-> MaxFault,
               announce |-> MaxAnnounce, command |-> MaxCommand]

\* A frame n takes from its queue.
Receive(n) ==
  \/ JoinStartup(n) \/ ListStartup(n) \/ AbsorbStartup(n)
  \/ YieldToCoordinator(n) \/ YieldToAsc(n)
  \/ RecordDeclaration(n) \/ YieldToBetter(n) \/ Reassert(n)
  \/ AnswerDeclaration(n) \/ DeclareIfSilent(n) \/ AlreadyDeclared(n)
  \/ TakeToken(n) \/ BecomeSoftDisabled(n) \/ BecomeInactive(n)
  \/ FinishAsIsc(n) \/ RememberAsc(n)
  \/ DeviceArrival(n) \/ AssignArrival(n) \/ RecordAck(n)
  \/ ReenterAudit(n) \/ AnswerHeartbeat(n) \/ YieldToHeartbeat(n)
  \/ RepeatAlarm(n) \/ DropFrame(n)

\* A state timer of n, one per state.
Timer(n) ==
  \/ StartupDelay(n) \/ ArbitrationWindow(n) \/ TokenAckWindow(n)
  \/ PassiveDeadline(n)

\* An event n scheduled for itself arrives.
Scheduled(n) ==
  \/ IuResetDetected(n) \/ TakeLead(n) \/ PassToken(n)
  \/ AssignmentPhaseComplete(n) \/ HopToHardDisabled(n) \/ HardEnableApply(n)
  \/ \E e \in SelfEvent : DropEvent(n, e)

\* A background task of n runs to its next pause.
AuditStep(n) == AuditQuery(n) \/ AuditFinished(n)
SeedChild(n) == \E c \in children[n] : ChildSeeded(n, c)

Task(n) ==
  \/ AuditStep(n) \/ SeedChild(n) \/ HeartbeatPeriod(n)
  \/ \E c \in children[n] : StraySeed(n, c)
  \/ \E d \in Unit : SweepVisit(n, d)

Environment(n) ==
  \/ Crash(n) \/ LinkFail(n) \/ LinkRestore(n)
  \/ HardDisable(n) \/ Malfunction(n) \/ HardEnable(n)
  \/ Reset(n) \/ SoftDisable(n)

Next ==
  \/ \E n \in SC : \/ Boot(n) \/ Receive(n) \/ Timer(n) \/ Scheduled(n)
                  \/ Task(n) \/ Environment(n)
  \/ \E d \in Dev : \/ DeviceWaits(d) \/ DeviceLeaves(d) \/ DeviceAck(d)
                    \/ \E f \in Announcement(d) : DeviceAnnounce(d, f)

Spec == Init /\ [][Next]_vars

\* The event loop delivers every frame and scheduled event and resumes every
\* task, timers expire, a node that is off is switched on, a device answers.
\* A send that waits for Room, a guard of the model, is strongly fair.
Fairness ==
  /\ \A n \in SC :
       /\ WF_vars(Boot(n)) /\ WF_vars(Receive(n))
       /\ SF_vars(Timer(n)) /\ WF_vars(Scheduled(n))
       /\ SF_vars(AuditStep(n)) /\ WF_vars(SeedChild(n))
       /\ WF_vars(HeartbeatPeriod(n))
       /\ \A d \in Unit : WF_vars(SweepVisit(n, d))
  /\ \A d \in Dev : WF_vars(DeviceAck(d))

FairSpec == Spec /\ Fairness

-----------------------------------------------------------------------------
(* Properties *)

RamType == [declaration_sent : BOOLEAN, assignment_received : BOOLEAN,
            token_candidate : Address, unresponsive : SUBSET Address,
            verification : BOOLEAN]

NvmType == [hard_disabled : BOOLEAN, configured : BOOLEAN,
            devices : [Unit -> Archive]]

\* Every variable keeps its type; in particular no frame or list names an
\* address outside the subnet, whatever the handlers read from payloads.
TypeOK ==
  /\ up \in [SC -> BOOLEAN]
  /\ linked \in [SC -> BOOLEAN]
  /\ state \in [SC -> State]
  /\ ram \in [SC -> RamType]
  /\ scram \in [SC -> ScList]
  /\ devRam \in [SC -> [Unit -> DeviceEntry]]
  /\ soft \in [SC -> BOOLEAN]
  /\ nvm \in [SC -> NvmType]
  /\ queue \in [SC -> Seq(Frame)]
  /\ pend \in [SC -> SUBSET SelfEvent]
  /\ audits \in [SC -> 0..MaxAudits]
  /\ sweep \in [SC -> SUBSET Unit]
  /\ children \in [SC -> SUBSET [dd : Unit, et : Nat]]
  /\ asked \subseteq Owed
  /\ holds \in [Dev -> Nat]
  /\ waits \subseteq Dev
  /\ strays \subseteq [dd : Unit, et : Nat]
  /\ budget \in [{"deadline", "crash", "fault", "announce", "command"} -> Nat]

\* A hard disable outlives resets and power cycles (reset_entry's hop): a
\* running SC whose nvm says hard-disabled is in hard_disabled, or hops there
\* before anything else; and it leaves only after an enable cleared nvm.
HardDisableDurable ==
  \A n \in SC : up[n] =>
    /\ nvm[n].hard_disabled =>
         \/ state[n] = "hard_disabled"
         \/ "ui_g_hard_disable" \in pend[n]
    /\ state[n] = "hard_disabled" =>
         \/ nvm[n].hard_disabled
         \/ "hard_enable_apply" \in pend[n]

\* The audit never strands its state: audit has no timer, so a running audit
\* task or the event it scheduled must be there to end it.
AuditHasDriver ==
  \A n \in SC : up[n] /\ state[n] = "audit" =>
    \/ audits[n] > 0
    \/ "audit_pass_done" \in pend[n]

Leader(n) == up[n] /\ state[n] \in HeartbeatOut

Told(a, b) == From("aSC_HEARTBEAT", a) \in ToSet(queue[b])

NoSendFailed == budget.fault = MaxFault

\* Until a send fails, no two leaders miss each other: the heartbeat of one,
\* which makes the other step down or answer, is on its way.
RivalLeadersWillMeet ==
  NoSendFailed =>
    \A a, b \in SC : a # b /\ Leader(a) /\ Leader(b) => Told(a, b) \/ Told(b, a)

\* Failing sends included, two leaders do not last: each steps down for the
\* other's heartbeat (heartbeat_out's row for aSC_HEARTBEAT).
RivalryEnds ==
  \A a, b \in SC :
    a # b => (Leader(a) /\ Leader(b) ~> ~(Leader(a) /\ Leader(b)))

\* What the device list says is assigned is archived (record_assignment_ack),
\* and an SC is configured only once a device is.
AssignedIsArchived ==
  \A n \in SC :
    /\ \A d \in Finished(devRam[n]) : nvm[n].devices[d].known
    /\ nvm[n].configured => \E d \in Unit : nvm[n].devices[d].known

\* A device that n's list has seen, with a type, and not yet assigned
Waiting(n, d) == d \in Unfinished(devRam[n]) /\ devRam[n][d].et # 0

\* A device that goes on waiting for its assignment, once seen with an et, is
\* assigned, unless the SC is hard-disabled or forgets the device in a crash, or
\* a child took the wrong announcement: nothing that arrives while a sweep, a
\* FIG. 14 child or an acknowledge is under way gets lost.
SeenIsAssigned ==
  \A n \in SC, d \in Dev :
    Waiting(n, d) ~> (~Waiting(n, d) \/ d \notin waits \/ strays # {}
                      \/ state[n] = "hard_disabled")

\* Two devices of one type get types of their own (FIG. 14): of two that still
\* wait for one, an active SC that has swept its list has a child at work for one
\* at least, or an assignment or a frame of one under way.
RivalsAreServed ==
  \A n \in SC : Leader(n) /\ sweep[n] = {} =>
    \A d, e \in Unfinished(devRam[n]) :
      d # e /\ devRam[n][d].et = devRam[n][e].et /\ devRam[n][d].et # 0 =>
        \/ \E c \in children[n] : c.dd \in {d, e}
        \/ \E o \in asked : o.dd \in {d, e}
        \/ \E i \in DOMAIN queue[n] : queue[n][i].dd \in {d, e}

\* The types device d may have: the one it asks for, the one an earlier
\* commissioning gave it, and those that a child of its took from another.
Types(d) == {Kind[d]} \cup {Installed[i] : i \in DOMAIN Installed \cap {d}}
            \cup ({s.et : s \in {r \in strays : r.dd = d}} \ {0})

\* Whatever acknowledges, stale children and archives of several SCs meet: a
\* device is archived with a type of its own; another's gets there by one way
\* only, a child that took the other's announcement for its seed.
ArchivedTypeIsOwn ==
  \A n \in SC, d \in Dev :
    nvm[n].devices[d].known => nvm[n].devices[d].et \in Types(d)

\* Something is under way to assign d, which waits: a visit, a child, the
\* acknowledge it owes, or a frame of its own.
DeviceWord == {"DEVICE_STARTUP", "DEVICE_DD", "DEVICE_ASSIGNMENT_ACK"}

Served(n, d) ==
  \/ d \in sweep[n]
  \/ \E c \in children[n] : c.dd = d /\ c.et # 0
  \/ \E o \in asked : o.dd = d
  \/ \E f \in ToSet(queue[n]) : f.type \in DeviceWord /\ f.dd = d

\* No two devices of a site have a type in common.
NoRivals == \A d, e \in Dev : d # e => Types(d) \cap Types(e) = {}

\* The leader forgets nobody, in whichever order announcements, sweeps, children,
\* acknowledges, resets of devices and changes of leader come: until a send
\* fails or a child takes the wrong announcement, and unless two devices are of
\* one type, a device in wait_for_assignment that the leader lists unassigned is
\* served, but for a stranger in verification, which gets no assignment.
WaitingIsServed ==
  NoSendFailed /\ NoRivals /\ strays = {} =>
    \A n \in SC : Leader(n) =>
      \A d \in waits : Waiting(n, d) /\ ~Stranger(n, d) => Served(n, d)

\* The audit's sweep covers its list: while no send fails, an SC that audits
\* gets the declarations it waits for, or yields.
AuditEnds ==
  [](\A n \in SC : linked[n]) =>
    \A n \in SC : (up[n] /\ state[n] = "audit") ~> (state[n] # "audit")

\* Whoever takes the lead is the best of the SCs whose declarations it has
\* (best_responsive and its guard is_best_responsive_sc).
OnlyBestLeads ==
  [][\A n \in SC : ~Leader(n) /\ Leader(n)' =>
       \A m \in SC : scram[n][m].known /\ scram[n][m].valid
                     => ~Outranks(Rank[m], m, Rank[n], n)]_vars
=============================================================================
