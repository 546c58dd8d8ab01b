----------------------------- MODULE EquipmentType -----------------------------
(***************************************************************************)
(* Equipment type assignment (equipment_type_assignment.py, FIG. 14): the  *)
(* child machines that the active SC starts, one per arrival of a device   *)
(* it has no type for, on the SC's device list and archive.  Children run  *)
(* on one loop and every received frame is an event for all of them, so    *)
(* a child may take another device's DEVICE_STARTUP or acknowledge for its *)
(* own.  Nothing in the program raises candidate_free, candidate_collides  *)
(* or a status with an acknowledge: a driver does, as in the tests.        *)
(*                                                                         *)
(* Types are numbers modulo EtSpace on the bus, and not in the machine.    *)
(***************************************************************************)
EXTENDS Integers, Sequences

CONSTANTS
  EtDev,        \* the devices
  Child,        \* child machines that may run at a time
  Reported,     \* the types a DEVICE_STARTUP may carry
  EtSpace,      \* types on the bus: 256
  MaxWalk,      \* candidates one child may try
  MaxOffer      \* assignments on their way to one device

ASSUME EquipmentTypeAssumption ==
  /\ Reported \subseteq Nat
  /\ {EtSpace, MaxWalk, MaxOffer} \subseteq Nat \ {0}

VARIABLES
  child,        \* the machines: state, target_dd and ram
  timers,       \* timers[c]: acknowledge timeouts scheduled and not yet fired
  listed,       \* host.device_ram: known, et, assigned
  archived,     \* {et} of each device in nvm, or {}
  offers,       \* the types in assignments on their way to each device
  offered       \* the types each device was ever sent

etVars == <<child, timers, listed, archived, offers, offered>>

Verdict == {"accepted", "too_high", "too_low", "other"}   \* absent: accepted

Masked(et) == et % EtSpace

\* _assign: SC_ASSIGNMENT of a type, cut to its field
Offer(d, et) ==
  /\ Len(offers[d]) < MaxOffer
  /\ offers' = [offers EXCEPT ![d] = Append(@, Masked(et))]
  /\ offered' = [offered EXCEPT ![d] = @ \cup {Masked(et)}]

Done == [state |-> "done", dd |-> 0, start |-> 0, new |-> 0, increment |-> 0,
         walked |-> 0]

Running(c) == child[c].state # "done"

-----------------------------------------------------------------------------
(* Arrivals *)

\* await_device_startup
Armed(d) == [state |-> "awaiting_startup", dd |-> d, start |-> 0, new |-> 0,
             increment |-> 1, walked |-> 0]

\* A device announces itself to an active SC out of verification: it is listed
\* as it reports itself, unless it is listed.  One with an archived type is sent
\* that, any other has a child started for it, even where one runs already.
Arrive(d, et) ==
  /\ listed' = IF listed[d].known THEN listed
               ELSE [listed EXCEPT ![d] = [known |-> TRUE, et |-> et, assigned |-> FALSE]]
  /\ \/ /\ archived[d] \subseteq {0}
        /\ \E c \in Child : ~Running(c) /\ child' = [child EXCEPT ![c] = Armed(d)]
        /\ UNCHANGED <<offers, offered>>
     \/ /\ \E own \in archived[d] \ {0} : Offer(d, own)
        /\ UNCHANGED child
  /\ UNCHANGED <<timers, archived>>

\* It announces itself in a state that only refreshes the list, which is where
\* the type of a listed device changes.
Announce(d, et) ==
  /\ listed' = [listed EXCEPT ![d].known = TRUE,
                              ![d].et = IF et # 0 THEN et ELSE @]
  /\ UNCHANGED <<child, timers, archived, offers, offered>>

\* another_unknown_with_same_et; pending_unknown_ets is written by nothing
Rival(d, et) ==
  \E e \in EtDev \ {d} : listed[e].known /\ listed[e].et = et /\ ~listed[e].assigned

Candidate(c, start, new, increment) ==
  [child[c] EXCEPT !.state = "candidate", !.start = start,
                   !.increment = increment, !.new = new + increment,
                   !.walked = @ + 1]

\* DEVICE_STARTUP in awaiting_startup, whoever sent it: the type as reported is
\* offered to the target, or the walk begins (init_candidate, step_candidate).
Seed(c, et) ==
  /\ child[c].state = "awaiting_startup"
  /\ IF Rival(child[c].dd, et)
       THEN /\ child' = [child EXCEPT ![c] = Candidate(c, et, et, 1)]
            /\ UNCHANGED <<offers, offered>>
       ELSE /\ child' = [child EXCEPT ![c] = Done]
            /\ Offer(child[c].dd, et)
  /\ UNCHANGED <<timers, listed, archived>>

-----------------------------------------------------------------------------
(* The walk *)

\* candidate_et_free
Free(c) == \A d \in EtDev \ {child[c].dd} :
             listed[d].known => listed[d].et # child[c].new

\* candidate_free: issue_new_et_assignment
CandidateFree(c) ==
  /\ child[c].state = "candidate" /\ Free(c)
  /\ timers[c] < MaxOffer
  /\ child' = [child EXCEPT ![c].state = "acknowledging"]
  /\ Offer(child[c].dd, child[c].new)
  /\ timers' = [timers EXCEPT ![c] = @ + 1]
  /\ UNCHANGED <<listed, archived>>

\* step_candidate, once more
StepCandidate(c) ==
  /\ child[c].walked < MaxWalk
  /\ child' = [child EXCEPT ![c] = Candidate(c, @.start, @.new, @.increment)]

CandidateCollides(c) ==
  /\ child[c].state = "candidate"
  /\ StepCandidate(c)
  /\ UNCHANGED <<timers, listed, archived, offers, offered>>

\* assignment_ack_timeout: of whichever assignment, it moves a child on that
\* waits for the acknowledge of another.
AckTimeout(c) ==
  /\ timers[c] > 0
  /\ timers' = [timers EXCEPT ![c] = @ - 1]
  /\ IF child[c].state = "acknowledging" THEN StepCandidate(c) ELSE UNCHANGED child
  /\ UNCHANGED <<listed, archived, offers, offered>>

-----------------------------------------------------------------------------
(* Acknowledges *)

\* Mutant: a success records the type the walk began with.
SuccessAtStart(c) == child[c].start

\* The type record_success records: newET, which the mask has not cut.
Success(c) == child[c].new

\* ack_verdict: what the child does next.  Too low soft-disables the device, by
\* an assignment of type 0 that a device ignores, and ends the child.
Judged(c, verdict) ==
  CASE verdict = "too_high" -> Candidate(c, child[c].start, child[c].start, -1)
    [] verdict = "other"    -> Candidate(c, child[c].start, child[c].new,
                                         child[c].increment)
    [] verdict \in {"accepted", "too_low"} -> Done

\* A device takes the oldest assignment sent to it.  It ignores type 0 and
\* acknowledges another; the SC records the acknowledge whatever its verdict
\* (record_assignment_ack), then every child that waits for one takes it as its
\* own, in some order: the last to record a device is the one that lasts.
Acknowledge(d, verdict) ==
  LET et      == Head(offers[d])
      waiting == {c \in Child : child[c].state = "acknowledging"}
      mine(e) == {c \in waiting : child[c].dd = e /\ verdict = "accepted"}
  IN /\ offers[d] # <<>> /\ et # 0
     /\ \A c \in waiting : child[c].walked < MaxWalk
     /\ \E last \in [EtDev -> Child] :
          /\ \A e \in EtDev : mine(e) # {} => last[e] \in mine(e)
          /\ LET records(e) == listed[e].known /\ (mine(e) # {} \/ e = d)
                 record(e)  == IF mine(e) # {} THEN Success(last[e]) ELSE et
             IN /\ listed' = [e \in EtDev |->
                     IF records(e) THEN [listed[e] EXCEPT !.et = record(e),
                                                          !.assigned = TRUE]
                                   ELSE listed[e]]
                /\ archived' = [e \in EtDev |->
                     IF records(e) THEN {record(e)} ELSE archived[e]]
     /\ child' = [c \in Child |-> IF c \in waiting THEN Judged(c, verdict) ELSE child[c]]
     /\ timers' = [c \in Child |-> IF c \in waiting /\ Judged(c, verdict) = Done
                                      THEN 0 ELSE timers[c]]
     /\ offers' = [offers EXCEPT ![d] = Tail(@)]
     /\ UNCHANGED offered

\* An assignment of type 0 is ignored; any may be lost, or its acknowledge.
LoseOffer(d) ==
  /\ offers[d] # <<>>
  /\ offers' = [offers EXCEPT ![d] = Tail(@)]
  /\ UNCHANGED <<child, timers, listed, archived, offered>>

-----------------------------------------------------------------------------
EtInit ==
  /\ child = [c \in Child |-> Done]
  /\ timers = [c \in Child |-> 0]
  /\ listed = [d \in EtDev |-> [known |-> FALSE, et |-> 0, assigned |-> FALSE]]
  /\ archived = [d \in EtDev |-> {}]
  /\ offers = [d \in EtDev |-> <<>>]
  /\ offered = [d \in EtDev |-> {}]

EtNext ==
  \/ \E d \in EtDev, et \in Reported : Arrive(d, et) \/ Announce(d, et)
  \/ \E c \in Child, et \in Reported : Seed(c, et)
  \/ \E c \in Child : CandidateFree(c) \/ CandidateCollides(c) \/ AckTimeout(c)
  \/ \E d \in EtDev, v \in Verdict : Acknowledge(d, v)
  \/ \E d \in EtDev : LoseOffer(d)

EtSpec == EtInit /\ [][EtNext]_etVars

-----------------------------------------------------------------------------
(* Properties *)

\* A type is archived for a device only if the device was sent it, whichever
\* child recorded it, on whichever acknowledge, after whatever timeouts: newET
\* does not move on while a child waits (issue_new_et_assignment,
\* record_success).
ArchivedWasOffered ==
  \A d \in EtDev : \A et \in archived[d] : Masked(et) \in offered[d]
=============================================================================
