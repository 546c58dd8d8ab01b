-------------------------- MODULE EquipmentTypeProofs --------------------------
(***************************************************************************)
(* Proofs about EquipmentType, for any devices, children, types and walks. *)
(***************************************************************************)
EXTENDS EquipmentType, TLAPS

\* The states in which a child is about a device of its own.
Busy == {"awaiting_startup", "candidate", "acknowledging"}

ChildRam == [state : Busy \cup {"done"}, dd : EtDev \cup {0}, start : Int, new : Int,
             increment : Int, walked : Nat]

EtShape ==
  /\ child \in [Child -> ChildRam]
  /\ timers \in [Child -> Nat]
  /\ listed \in [EtDev -> [known : BOOLEAN, et : Int, assigned : BOOLEAN]]
  /\ archived \in [EtDev -> SUBSET Int]
  /\ offers \in [EtDev -> Seq(Int)]
  /\ offered \in [EtDev -> SUBSET Int]

\* Whatever might be recorded for a device was offered to it: by a child that
\* waits for the acknowledge, or by the assignment that is acknowledged.
Offered ==
  /\ \A c \in Child : child[c].state \in Busy => child[c].dd \in EtDev
  /\ \A c \in Child : child[c].state = "acknowledging" =>
       Masked(child[c].new) \in offered[child[c].dd]
  /\ \A d \in EtDev : \A i \in DOMAIN offers[d] :
       Masked(offers[d][i]) \in offered[d]
  /\ ArchivedWasOffered

EtInv == EtShape /\ Offered

LEMMA MaskShape == \A et \in Int : Masked(et) \in 0..(EtSpace - 1)
BY EquipmentTypeAssumption DEF Masked

\* Cutting a type to its field twice is cutting it once.
LEMMA MaskOnce == \A et \in Int : Masked(et) \in Int /\ Masked(Masked(et)) = Masked(et)
<1>1. \A et \in 0..(EtSpace - 1) : Masked(et) = et
  BY EquipmentTypeAssumption DEF Masked
<1>2. QED
  BY <1>1, MaskShape, EquipmentTypeAssumption

LEMMA EtInitInv == EtInit => EtInv
<1> SUFFICES ASSUME EtInit
             PROVE  EtInv
  OBVIOUS
<1>1. \A c \in Child : child[c] = Done
  BY DEF EtInit
<1>2. Done \in ChildRam /\ Done.state = "done"
  BY DEF Done, ChildRam
<1>3. child \in [Child -> ChildRam]
  BY <1>2 DEF EtInit
<1>4. EtShape
  BY <1>3 DEF EtInit, EtShape
<1>5. "done" \notin Busy
  BY DEF Busy
<1>6. Offered
  BY <1>1, <1>2, <1>5 DEF EtInit, Offered, ArchivedWasOffered, Busy
<1>7. QED
  BY <1>4, <1>6 DEF EtInv

\* An offer keeps what was offered, and all that is on its way was offered.
LEMMA OfferKeeps ==
  ASSUME EtInv, NEW d \in EtDev, NEW et \in Int, Offer(d, et)
  PROVE  /\ offers' \in [EtDev -> Seq(Int)] /\ offered' \in [EtDev -> SUBSET Int]
         /\ \A e \in EtDev : offered[e] \subseteq offered'[e]
         /\ Masked(et) \in offered'[d]
         /\ \A e \in EtDev : \A i \in DOMAIN offers'[e] :
              Masked(offers'[e][i]) \in offered'[e]
<1>1. /\ offers \in [EtDev -> Seq(Int)] /\ offered \in [EtDev -> SUBSET Int]
      /\ Masked(et) \in Int /\ Masked(Masked(et)) = Masked(et)
  BY MaskOnce DEF EtInv, EtShape
<1> DEFINE m == Masked(et)
<1>2. /\ offers' = [offers EXCEPT ![d] = Append(@, m)]
      /\ offered' = [offered EXCEPT ![d] = @ \cup {m}]
  BY DEF Offer
<1>3. m \in Int /\ Masked(m) = m
  BY <1>1
<1> HIDE DEF m
<1>4. offers[d] \in Seq(Int) /\ Append(offers[d], m) \in Seq(Int)
  BY <1>1, <1>3
<1>5. /\ offers' \in [EtDev -> Seq(Int)] /\ offered' \in [EtDev -> SUBSET Int]
      /\ offers'[d] = Append(offers[d], m) /\ offered'[d] = offered[d] \cup {m}
      /\ \A e \in EtDev \ {d} : offers'[e] = offers[e] /\ offered'[e] = offered[e]
  BY <1>1, <1>2, <1>3, <1>4
<1>6. \A e \in EtDev : offered[e] \subseteq offered'[e]
  BY <1>5
<1>7. ASSUME NEW e \in EtDev, NEW i \in DOMAIN offers'[e]
      PROVE  Masked(offers'[e][i]) \in offered'[e]
  <2>1. ASSUME e = d, i = Len(offers[d]) + 1
        PROVE  Masked(offers'[e][i]) \in offered'[e]
    <3>1. offers'[e][i] = m
      BY <1>4, <1>5, <2>1
    <3>2. QED
      BY <1>3, <1>5, <2>1, <3>1
  <2>2. ASSUME e # d \/ i # Len(offers[d]) + 1
        PROVE  Masked(offers'[e][i]) \in offered'[e]
    <3>1. i \in DOMAIN offers[e] /\ offers'[e][i] = offers[e][i]
      <4>1. CASE e = d
        <5>1. i \in DOMAIN Append(offers[d], m) /\ i # Len(offers[d]) + 1
          BY <1>5, <2>2, <4>1
        <5>2. i \in DOMAIN offers[d] /\ Append(offers[d], m)[i] = offers[d][i]
          BY <1>4, <5>1
        <5>3. QED
          BY <1>5, <4>1, <5>2
      <4>2. CASE e # d
        BY <1>5, <4>2
      <4>3. QED
        BY <4>1, <4>2
    <3>2. Masked(offers[e][i]) \in offered[e]
      BY <3>1 DEF EtInv, Offered
    <3>3. QED
      BY <1>6, <3>1, <3>2
  <2>3. QED
    BY <2>1, <2>2
<1>8. Masked(et) \in offered'[d]
  BY <1>5 DEF m
<1>9. QED
  BY <1>5, <1>6, <1>7, <1>8

\* What remains of the invariant where no child starts to wait and nothing is
\* archived.
LEMMA QuietChildren ==
  ASSUME EtInv, EtShape', archived' = archived,
         \A d \in EtDev : offered[d] \subseteq offered'[d],
         \A d \in EtDev : \A i \in DOMAIN offers'[d] :
           Masked(offers'[d][i]) \in offered'[d],
         \A c \in Child :
           \/ child'[c] = child[c]
           \/ child'[c].state = "done"
           \/ child'[c].state # "acknowledging" /\ child'[c].dd \in EtDev
  PROVE  EtInv'
<1>1. \A c \in Child : child'[c].state \in Busy => child'[c].dd \in EtDev
  BY DEF EtInv, Offered, Busy
<1>2. ASSUME NEW c \in Child, child'[c].state = "acknowledging"
      PROVE  Masked(child'[c].new) \in offered'[child'[c].dd]
  <2>1. child'[c] = child[c]
    BY <1>2
  <2>2. child[c].dd \in EtDev /\ Masked(child[c].new) \in offered[child[c].dd]
    BY <1>2, <2>1 DEF EtInv, Offered, Busy
  <2>3. QED
    BY <2>1, <2>2
<1>3. ArchivedWasOffered'
  BY DEF EtInv, Offered, ArchivedWasOffered, EtShape
<1>4. QED
  BY <1>1, <1>2, <1>3 DEF EtInv, Offered

LEMMA CandidateShape ==
  ASSUME EtInv, NEW c \in Child, NEW start \in Int, NEW new \in Int,
         NEW increment \in Int
  PROVE  /\ Candidate(c, start, new, increment) \in ChildRam
         /\ Candidate(c, start, new, increment).state = "candidate"
         /\ Candidate(c, start, new, increment).dd = child[c].dd
<1>1. child[c] \in ChildRam
  BY DEF EtInv, EtShape
<1>2. new + increment \in Int /\ child[c].walked + 1 \in Nat
  BY <1>1 DEF ChildRam
<1>3. QED
  BY <1>1, <1>2 DEF Candidate, ChildRam, Busy

LEMMA DoneShape == Done \in ChildRam /\ Done.state = "done"
BY DEF Done, ChildRam

LEMMA StepCandidateShape ==
  ASSUME EtInv, NEW c \in Child, StepCandidate(c)
  PROVE  /\ child' \in [Child -> ChildRam]
         /\ \A b \in Child : b # c => child'[b] = child[b]
         /\ child'[c].state = "candidate" /\ child'[c].dd = child[c].dd
<1>1. child[c] \in ChildRam /\ child \in [Child -> ChildRam]
  BY DEF EtInv, EtShape
<1>2. child[c].start \in Int /\ child[c].new \in Int /\ child[c].increment \in Int
  BY <1>1 DEF ChildRam
<1> DEFINE next == Candidate(c, child[c].start, child[c].new, child[c].increment)
<1>3. next \in ChildRam /\ next.state = "candidate" /\ next.dd = child[c].dd
  BY <1>2, CandidateShape
<1>4. child' = [child EXCEPT ![c] = next]
  BY DEF StepCandidate
<1> HIDE DEF next
<1>5. QED
  BY <1>1, <1>3, <1>4

LEMMA StayOffered ==
  ASSUME EtInv, UNCHANGED <<offers, offered>>
  PROVE  /\ offers' \in [EtDev -> Seq(Int)] /\ offered' \in [EtDev -> SUBSET Int]
         /\ \A d \in EtDev : offered[d] \subseteq offered'[d]
         /\ \A d \in EtDev : \A i \in DOMAIN offers'[d] :
              Masked(offers'[d][i]) \in offered'[d]
BY DEF EtInv, EtShape, Offered

LEMMA ArriveInv ==
  ASSUME EtInv, NEW d \in EtDev, NEW et \in Reported, Arrive(d, et)
  PROVE  EtInv'
<1>1. et \in Int
  BY EquipmentTypeAssumption
<1>2. listed' \in [EtDev -> [known : BOOLEAN, et : Int, assigned : BOOLEAN]]
  <2>1. [known |-> TRUE, et |-> et, assigned |-> FALSE]
          \in [known : BOOLEAN, et : Int, assigned : BOOLEAN]
    BY <1>1
  <2>2. QED
    BY <2>1 DEF Arrive, EtInv, EtShape
<1>3. UNCHANGED <<timers, archived>>
  BY DEF Arrive
<1>4. CASE /\ \E c \in Child : ~Running(c) /\ child' = [child EXCEPT ![c] = Armed(d)]
           /\ UNCHANGED <<offers, offered>>
  <2>1. PICK c \in Child : child' = [child EXCEPT ![c] = Armed(d)]
    BY <1>4
  <2>2. Armed(d) \in ChildRam /\ Armed(d).state = "awaiting_startup" /\ Armed(d).dd = d
    BY DEF Armed, ChildRam, Busy
  <2>3. child' \in [Child -> ChildRam]
    BY <2>1, <2>2 DEF EtInv, EtShape
  <2>4. \A b \in Child :
          \/ child'[b] = child[b]
          \/ child'[b].state # "acknowledging" /\ child'[b].dd \in EtDev
    BY <2>1, <2>2 DEF EtInv, EtShape
  <2>5. EtShape'
    BY <1>2, <1>3, <1>4, <2>3, StayOffered DEF EtInv, EtShape
  <2>6. QED
    BY <1>3, <1>4, <2>4, <2>5, StayOffered, QuietChildren
<1>5. ASSUME NEW own \in archived[d] \ {0}, Offer(d, own), UNCHANGED child
      PROVE  EtInv'
  <2>1. own \in Int
    BY DEF EtInv, EtShape
  <2>2. EtShape'
    BY <1>2, <1>3, <1>5, <2>1, OfferKeeps DEF EtInv, EtShape
  <2>3. QED
    BY <1>3, <1>5, <2>1, <2>2, OfferKeeps, QuietChildren
<1>6. QED
  BY <1>4, <1>5 DEF Arrive

LEMMA AnnounceInv ==
  ASSUME EtInv, NEW d \in EtDev, NEW et \in Reported, Announce(d, et)
  PROVE  EtInv'
<1>1. et \in Int
  BY EquipmentTypeAssumption
<1>2. listed' \in [EtDev -> [known : BOOLEAN, et : Int, assigned : BOOLEAN]]
  <2> DEFINE entry == [listed[d] EXCEPT !.known = TRUE,
                                        !.et = IF et # 0 THEN et ELSE @]
  <2>1. /\ listed[d] \in [known : BOOLEAN, et : Int, assigned : BOOLEAN]
        /\ listed \in [EtDev -> [known : BOOLEAN, et : Int, assigned : BOOLEAN]]
    BY DEF EtInv, EtShape
  <2>2. listed' = [listed EXCEPT ![d] = entry]
    BY <2>1 DEF Announce
  <2>3. entry \in [known : BOOLEAN, et : Int, assigned : BOOLEAN]
    <3> DEFINE said == IF et # 0 THEN et ELSE listed[d].et
    <3>1. said \in Int
      BY <1>1, <2>1
    <3>2. entry = [listed[d] EXCEPT !.known = TRUE, !.et = said]
      OBVIOUS
    <3> HIDE DEF said, entry
    <3>3. QED
      BY <2>1, <3>1, <3>2
  <2> HIDE DEF entry
  <2>4. QED
    BY <2>1, <2>2, <2>3
<1>3. UNCHANGED <<child, timers, archived, offers, offered>>
  BY DEF Announce
<1>4. EtShape'
  BY <1>2, <1>3 DEF EtInv, EtShape
<1>5. QED
  BY <1>3, <1>4, StayOffered, QuietChildren

LEMMA SeedInv ==
  ASSUME EtInv, NEW c \in Child, NEW et \in Reported, Seed(c, et)
  PROVE  EtInv'
<1>1. et \in Int /\ child \in [Child -> ChildRam]
  BY EquipmentTypeAssumption DEF EtInv, EtShape
<1>2. UNCHANGED <<timers, listed, archived>>
  BY DEF Seed
<1>3. child[c].state = "awaiting_startup" /\ child[c].dd \in EtDev
  BY DEF Seed, EtInv, Offered, Busy
<1>4. CASE Rival(child[c].dd, et)
  <2>1. /\ Candidate(c, et, et, 1) \in ChildRam
        /\ Candidate(c, et, et, 1).state = "candidate"
        /\ Candidate(c, et, et, 1).dd \in EtDev
    BY <1>1, <1>3, CandidateShape
  <2>2. /\ child' = [child EXCEPT ![c] = Candidate(c, et, et, 1)]
        /\ UNCHANGED <<offers, offered>>
    BY <1>4 DEF Seed
  <2>3. EtShape'
    BY <1>1, <1>2, <2>1, <2>2, StayOffered DEF EtInv, EtShape
  <2>4. \A b \in Child :
          \/ child'[b] = child[b]
          \/ child'[b].state # "acknowledging" /\ child'[b].dd \in EtDev
    BY <1>1, <2>1, <2>2
  <2>5. QED
    BY <1>2, <2>2, <2>3, <2>4, StayOffered, QuietChildren
<1>5. CASE ~Rival(child[c].dd, et)
  <2>1. child' = [child EXCEPT ![c] = Done] /\ Offer(child[c].dd, et)
    BY <1>5 DEF Seed
  <2>2. EtShape'
    BY <1>1, <1>2, <1>3, <2>1, DoneShape, OfferKeeps DEF EtInv, EtShape
  <2>3. \A b \in Child : child'[b] = child[b] \/ child'[b].state = "done"
    BY <1>1, <2>1, DoneShape
  <2>4. QED
    BY <1>1, <1>2, <1>3, <2>1, <2>2, <2>3, OfferKeeps, QuietChildren
<1>6. QED
  BY <1>4, <1>5

\* The one step after which a child waits: what it waits for it has just offered.
LEMMA CandidateFreeInv ==
  ASSUME EtInv, NEW c \in Child, CandidateFree(c)
  PROVE  EtInv'
<1>1. child \in [Child -> ChildRam] /\ child[c] \in ChildRam
  BY DEF EtInv, EtShape
<1>2. child[c].dd \in EtDev /\ child[c].new \in Int
  BY <1>1 DEF CandidateFree, EtInv, Offered, Busy, ChildRam
<1>3. /\ child' = [child EXCEPT ![c].state = "acknowledging"]
      /\ Offer(child[c].dd, child[c].new)
      /\ timers' = [timers EXCEPT ![c] = @ + 1]
      /\ UNCHANGED <<listed, archived>>
  BY DEF CandidateFree
<1>4. /\ child'[c].dd = child[c].dd /\ child'[c].new = child[c].new
      /\ child' \in [Child -> ChildRam]
      /\ \A b \in Child \ {c} : child'[b] = child[b]
  BY <1>1, <1>3 DEF ChildRam, Busy
<1>5. timers' \in [Child -> Nat]
  BY <1>3 DEF EtInv, EtShape
<1>6. EtShape'
  BY <1>2, <1>3, <1>4, <1>5, OfferKeeps DEF EtInv, EtShape
<1>7. ASSUME NEW b \in Child
      PROVE  /\ child'[b].state \in Busy => child'[b].dd \in EtDev
             /\ child'[b].state = "acknowledging" =>
                  Masked(child'[b].new) \in offered'[child'[b].dd]
  <2>1. CASE b = c
    BY <1>2, <1>3, <1>4, <2>1, OfferKeeps
  <2>2. CASE b # c
    <3>1. child'[b] = child[b]
      BY <1>4, <2>2
    <3>2. child[b].state = "acknowledging" => child[b].dd \in EtDev
      BY DEF EtInv, Offered, Busy
    <3>3. \A e \in EtDev : offered[e] \subseteq offered'[e]
      BY <1>2, <1>3, OfferKeeps
    <3>4. QED
      BY <3>1, <3>2, <3>3 DEF EtInv, Offered
  <2>3. QED
    BY <2>1, <2>2
<1>8. /\ \A e \in EtDev : offered[e] \subseteq offered'[e]
      /\ \A e \in EtDev : \A i \in DOMAIN offers'[e] :
           Masked(offers'[e][i]) \in offered'[e]
  BY <1>2, <1>3, OfferKeeps
<1>9. ArchivedWasOffered'
  BY <1>3, <1>8 DEF EtInv, Offered, ArchivedWasOffered
<1>10. QED
  BY <1>6, <1>7, <1>8, <1>9 DEF EtInv, Offered

LEMMA WalkInv ==
  ASSUME EtInv, NEW c \in Child, CandidateCollides(c) \/ AckTimeout(c)
  PROVE  EtInv'
<1>1. UNCHANGED <<listed, archived, offers, offered>>
  BY DEF CandidateCollides, AckTimeout
<1>2. timers' \in [Child -> Nat]
  BY DEF CandidateCollides, AckTimeout, EtInv, EtShape
<1>3. CASE StepCandidate(c) /\ child[c].state \in Busy
  <2>1. child[c].dd \in EtDev
    BY <1>3 DEF EtInv, Offered
  <2>2. EtShape'
    BY <1>1, <1>2, <1>3, StepCandidateShape DEF EtInv, EtShape
  <2>3. \A b \in Child :
          \/ child'[b] = child[b]
          \/ child'[b].state # "acknowledging" /\ child'[b].dd \in EtDev
    BY <1>3, <2>1, StepCandidateShape
  <2>4. QED
    BY <1>1, <2>2, <2>3, StayOffered, QuietChildren
<1>4. CASE UNCHANGED child
  <2>1. EtShape'
    BY <1>1, <1>2, <1>4 DEF EtInv, EtShape
  <2>2. QED
    BY <1>1, <1>4, <2>1, StayOffered, QuietChildren
<1>5. QED
  BY <1>3, <1>4 DEF CandidateCollides, AckTimeout, Busy

\* The oldest assignment on its way is taken or lost.
LEMMA OneOfferLess ==
  ASSUME EtInv, NEW d \in EtDev, offers[d] # <<>>,
         offers' = [offers EXCEPT ![d] = Tail(@)], offered' = offered
  PROVE  /\ offers' \in [EtDev -> Seq(Int)]
         /\ \A e \in EtDev : \A i \in DOMAIN offers'[e] :
              Masked(offers'[e][i]) \in offered'[e]
         /\ Head(offers[d]) \in Int /\ Masked(Head(offers[d])) \in offered[d]
<1>1. offers \in [EtDev -> Seq(Int)] /\ offers[d] \in Seq(Int)
  BY DEF EtInv, EtShape
<1>2. /\ Tail(offers[d]) \in Seq(Int) /\ Head(offers[d]) \in Int
      /\ Head(offers[d]) = offers[d][1] /\ 1 \in DOMAIN offers[d]
      /\ \A i \in DOMAIN Tail(offers[d]) :
           i + 1 \in DOMAIN offers[d] /\ Tail(offers[d])[i] = offers[d][i + 1]
  BY <1>1
<1>3. \A e \in EtDev : offers'[e] = IF e = d THEN Tail(offers[d]) ELSE offers[e]
  BY <1>1
<1>4. offers' \in [EtDev -> Seq(Int)]
  BY <1>1, <1>2
<1>5. \A e \in EtDev : \A i \in DOMAIN offers[e] :
        Masked(offers[e][i]) \in offered[e]
  BY DEF EtInv, Offered
<1>6. ASSUME NEW e \in EtDev, NEW i \in DOMAIN offers'[e]
      PROVE  Masked(offers'[e][i]) \in offered[e]
  <2>1. CASE e = d
    BY <1>2, <1>3, <1>5, <2>1
  <2>2. CASE e # d
    BY <1>3, <1>5, <2>2
  <2>3. QED
    BY <2>1, <2>2
<1>7. QED
  BY <1>2, <1>4, <1>5, <1>6

LEMMA LoseOfferInv ==
  ASSUME EtInv, NEW d \in EtDev, LoseOffer(d)
  PROVE  EtInv'
<1>1. /\ offers[d] # <<>> /\ offers' = [offers EXCEPT ![d] = Tail(@)]
      /\ UNCHANGED <<child, timers, listed, archived, offered>>
  BY DEF LoseOffer
<1>2. EtShape'
  BY <1>1, OneOfferLess DEF EtInv, EtShape
<1>3. QED
  BY <1>1, <1>2, OneOfferLess, QuietChildren

LEMMA JudgedShape ==
  ASSUME EtInv, NEW c \in Child, child[c].state = "acknowledging",
         NEW verdict \in Verdict
  PROVE  /\ Judged(c, verdict) \in ChildRam
         /\ \/ Judged(c, verdict).state = "done"
            \/ /\ Judged(c, verdict).state # "acknowledging"
               /\ Judged(c, verdict).dd \in EtDev
<1>1. child[c] \in ChildRam
  BY DEF EtInv, EtShape
<1>2. /\ child[c].start \in Int /\ child[c].new \in Int /\ child[c].increment \in Int
      /\ -1 \in Int
  BY <1>1 DEF ChildRam
<1>3. child[c].dd \in EtDev
  BY DEF EtInv, Offered, Busy
<1>4. CASE verdict = "too_high"
  BY <1>2, <1>3, <1>4, CandidateShape DEF Judged
<1>5. CASE verdict = "other"
  BY <1>2, <1>3, <1>5, CandidateShape DEF Judged
<1>6. CASE verdict \in {"accepted", "too_low"}
  BY <1>6, DoneShape DEF Judged
<1>7. QED
  BY <1>4, <1>5, <1>6 DEF Verdict

\* Whichever child takes the acknowledge for its own records what it offered.
LEMMA AcknowledgeInv ==
  ASSUME EtInv, NEW d \in EtDev, NEW verdict \in Verdict, Acknowledge(d, verdict)
  PROVE  EtInv'
<1> DEFINE et      == Head(offers[d])
           waiting == {c \in Child : child[c].state = "acknowledging"}
           mine(e) == {c \in waiting : child[c].dd = e /\ verdict = "accepted"}
<1>1. PICK last \in [EtDev -> Child] :
        /\ \A e \in EtDev : mine(e) # {} => last[e] \in mine(e)
        /\ LET records(e) == listed[e].known /\ (mine(e) # {} \/ e = d)
               record(e)  == IF mine(e) # {} THEN Success(last[e]) ELSE et
           IN /\ listed' = [e \in EtDev |->
                   IF records(e) THEN [listed[e] EXCEPT !.et = record(e),
                                                        !.assigned = TRUE]
                                 ELSE listed[e]]
              /\ archived' = [e \in EtDev |->
                   IF records(e) THEN {record(e)} ELSE archived[e]]
  BY DEF Acknowledge
<1> DEFINE records(e) == listed[e].known /\ (mine(e) # {} \/ e = d)
           record(e)  == IF mine(e) # {} THEN Success(last[e]) ELSE et
<1>2. /\ offers[d] # <<>> /\ offers' = [offers EXCEPT ![d] = Tail(@)]
      /\ offered' = offered
      /\ child' = [c \in Child |->
                     IF c \in waiting THEN Judged(c, verdict) ELSE child[c]]
      /\ timers' = [c \in Child |-> IF c \in waiting /\ Judged(c, verdict) = Done
                                      THEN 0 ELSE timers[c]]
  BY DEF Acknowledge
<1>3. et \in Int /\ Masked(et) \in offered[d]
  BY <1>2, OneOfferLess
<1>4. ASSUME NEW e \in EtDev, records(e)
      PROVE  record(e) \in Int /\ Masked(record(e)) \in offered[e]
  <2>1. CASE mine(e) # {}
    <3>1. last[e] \in Child /\ child[last[e]].state = "acknowledging"
          /\ child[last[e]].dd = e
      BY <1>1, <2>1
    <3>2. child[last[e]].new \in Int
      BY <3>1 DEF EtInv, EtShape, ChildRam
    <3>3. QED
      BY <2>1, <3>1, <3>2 DEF EtInv, Offered, Success
  <2>2. CASE mine(e) = {}
    BY <1>3, <1>4, <2>2
  <2>3. QED
    BY <2>1, <2>2
<1>5. /\ listed' = [e \in EtDev |->
                     IF records(e) THEN [listed[e] EXCEPT !.et = record(e),
                                                          !.assigned = TRUE]
                                   ELSE listed[e]]
      /\ archived' = [e \in EtDev |->
                     IF records(e) THEN {record(e)} ELSE archived[e]]
  BY <1>1
<1> HIDE DEF records, record, et
<1>6. listed' \in [EtDev -> [known : BOOLEAN, et : Int, assigned : BOOLEAN]]
  <2>1. ASSUME NEW e \in EtDev
        PROVE  listed'[e] \in [known : BOOLEAN, et : Int, assigned : BOOLEAN]
    <3>1. listed[e] \in [known : BOOLEAN, et : Int, assigned : BOOLEAN]
      BY DEF EtInv, EtShape
    <3>2. CASE records(e)
      <4>1. record(e) \in Int
        BY <1>4, <3>2
      <4>2. listed'[e] = [listed[e] EXCEPT !.et = record(e), !.assigned = TRUE]
        BY <1>5, <3>2
      <4>3. QED
        BY <3>1, <4>1, <4>2
    <3>3. CASE ~records(e)
      BY <1>5, <3>1, <3>3
    <3>4. QED
      BY <3>2, <3>3
  <2>2. QED
    BY <1>5, <2>1
<1>7. archived' \in [EtDev -> SUBSET Int]
  <2>1. \A e \in EtDev : archived[e] \in SUBSET Int
    BY DEF EtInv, EtShape
  <2>2. \A e \in EtDev : records(e) => {record(e)} \in SUBSET Int
    BY <1>4
  <2>3. QED
    BY <1>5, <2>1, <2>2
<1>8. ArchivedWasOffered'
  <2> SUFFICES ASSUME NEW e \in EtDev, NEW k \in archived'[e]
               PROVE  Masked(k) \in offered[e]
    BY <1>2 DEF ArchivedWasOffered
  <2>1. CASE records(e)
    BY <1>4, <1>5, <2>1
  <2>2. CASE ~records(e)
    BY <1>5, <2>2 DEF EtInv, Offered, ArchivedWasOffered
  <2>3. QED
    BY <2>1, <2>2
<1>9. child' \in [Child -> ChildRam]
  BY <1>2, JudgedShape DEF EtInv, EtShape
<1>10. timers' \in [Child -> Nat]
  BY <1>2 DEF EtInv, EtShape
<1>11. EtShape'
  BY <1>2, <1>6, <1>7, <1>9, <1>10, OneOfferLess DEF EtInv, EtShape
<1>12. ASSUME NEW c \in Child
       PROVE  \/ child'[c] = child[c] /\ child[c].state # "acknowledging"
              \/ child'[c].state = "done"
              \/ child'[c].state # "acknowledging" /\ child'[c].dd \in EtDev
  BY <1>2, JudgedShape
<1>13. \A c \in Child : child'[c].state \in Busy => child'[c].dd \in EtDev
  BY <1>12 DEF EtInv, Offered, Busy
<1>14. \A c \in Child : child'[c].state # "acknowledging"
  BY <1>12
<1>15. \A e \in EtDev : \A i \in DOMAIN offers'[e] :
         Masked(offers'[e][i]) \in offered'[e]
  BY <1>2, OneOfferLess
<1>16. QED
  BY <1>8, <1>11, <1>13, <1>14, <1>15 DEF EtInv, Offered

LEMMA EtInvHolds == EtSpec => []EtInv
<1>1. EtInv /\ UNCHANGED etVars => EtInv'
  BY DEF EtInv, EtShape, Offered, ArchivedWasOffered, etVars
<1>2. EtInv /\ EtNext => EtInv'
  BY ArriveInv, AnnounceInv, SeedInv, CandidateFreeInv, WalkInv, AcknowledgeInv,
     LoseOfferInv DEF EtNext
<1>3. QED
  BY <1>1, <1>2, EtInitInv, PTL DEF EtSpec

\* A type is archived for a device only if the device was sent it, for any number
\* of children and however they take each other's acknowledges and timeouts for
\* their own (issue_new_et_assignment, record_success).
THEOREM ArchivedWasAlwaysOffered == EtSpec => []ArchivedWasOffered
<1>1. EtInv => ArchivedWasOffered
  BY DEF EtInv, Offered
<1>2. QED
  BY <1>1, EtInvHolds, PTL
=============================================================================
