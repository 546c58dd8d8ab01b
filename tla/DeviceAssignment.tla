-------------------------- MODULE DeviceAssignment --------------------------
(***************************************************************************)
(* What the commissioning of a device promises, without the protocol: a    *)
(* device comes to hold the equipment type it asked for, and only then the *)
(* active SC archives it as assigned, with that type.  A device may lose   *)
(* its memory for good; what is archived stays archived.  A device that    *)
(* the SC mixed up with others may get a type of theirs.                   *)
(***************************************************************************)
EXTENDS Naturals

CONSTANTS
  Dev,        \* the devices
  Kind        \* Kind[d]: the equipment type d asks for, not 0

VARIABLES
  held,       \* the et each device has stored, or 0
  broken,     \* devices whose memory is lost
  mixed,      \* devices mixed up with others
  archived    \* the et the SC archived for each device, or 0

assignment == <<held, broken, mixed, archived>>

\* What device d may be given.
Due(d) == {Kind[e] : e \in {x \in Dev : x = d \/ d \in mixed}}

AInit ==
  /\ held = [d \in Dev |-> 0]
  /\ broken = {} /\ mixed = {}
  /\ archived = [d \in Dev |-> 0]

Hold(d) ==
  /\ d \notin broken
  /\ \E et \in Due(d) : held' = [held EXCEPT ![d] = et]
  /\ UNCHANGED <<broken, mixed, archived>>

Break(d) ==
  /\ broken' = broken \cup {d}
  /\ UNCHANGED <<held, mixed, archived>>

MixUp(d) ==
  /\ mixed' = mixed \cup {d}
  /\ UNCHANGED <<held, broken, archived>>

\* A device that was mixed up may be archived with another type than it holds.
Archive(d) ==
  /\ held[d] # 0
  /\ \E et \in Due(d) :
       /\ et = held[d] \/ d \in mixed
       /\ archived' = [archived EXCEPT ![d] = et]
  /\ UNCHANGED <<held, broken, mixed>>

ANext == \E d \in Dev : Hold(d) \/ Break(d) \/ MixUp(d) \/ Archive(d)

ASpec == AInit /\ [][ANext]_assignment
=============================================================================
