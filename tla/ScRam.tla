------------------------------- MODULE ScRam -------------------------------
(***************************************************************************)
(* The SC RAM list: what one subnet controller (SC) records of the others, *)
(* and the credential order the election compares.  SCInfo and             *)
(* NodeRuntime.remember_asc / best_other_sc / we_outrank in runtime.py,    *)
(* the list-keeping effects and guards in subnet_controller.py.            *)
(*                                                                         *)
(* A list is a total function from addresses to entries; known says that   *)
(* the dictionary has the key.  A rank stands for the (SPL, DPL, PRN)      *)
(* triple, encoded order-preservingly; rank 0 is the triple (0, 0, 0).     *)
(***************************************************************************)
EXTENDS Naturals

CONSTANTS
  SC,     \* the device designators (dd) of the subnet controllers
  Rank    \* Rank[n]: n's own credentials, without the dd

\* A payload without a dd decodes as dd 0, which no node has.
NoDD == 0

ASSUME ScRamAssumption ==
  /\ SC \subseteq Nat \ {NoDD}
  /\ Rank \in [SC -> Nat]

\* The keys a list can have: remember_asc does not exclude dd 0.
Address == SC \cup {NoDD}

Entry == [known : BOOLEAN, rank : Nat, valid : BOOLEAN]

ScList == [Address -> Entry]

EmptyList == [m \in Address |-> [known |-> FALSE, rank |-> 0, valid |-> FALSE]]

Listed(list) == {m \in Address : list[m].known}

\* The SCs an audit still has to query: listed, without a declaration.
Unanswered(list) == {m \in Listed(list) : ~list[m].valid}

\* Tuple comparison on (SPL, DPL, PRN, DD).
Outranks(rank1, dd1, rank2, dd2) ==
  \/ rank1 > rank2
  \/ rank1 = rank2 /\ dd1 > dd2

\* An SC_STARTUP lists its sender; an entry already there is kept.
WithStartup(list, m) == [list EXCEPT ![m].known = TRUE]

\* An SC_DECLARATION validates its sender's entry; a zero rank in the
\* payload keeps the recorded one.
WithDeclaration(list, m, rank) ==
  [list EXCEPT ![m] = [known |-> TRUE,
                       rank  |-> IF rank # 0 THEN rank ELSE @.rank,
                       valid |-> TRUE]]

\* remember_asc: none of its callers' frames carries credentials, so the
\* entry's rank becomes zero; the valid flag stays.
WithAsc(list, m) ==
  [list EXCEPT ![m] = [known |-> TRUE, rank |-> 0, valid |-> @.valid]]

\* An indoor unit's startup revokes every declaration.
Revoked(list) == [m \in Address |-> [list[m] EXCEPT !.valid = FALSE]]

\* No SC with a declaration on n's list has better credentials than n.
IsBestResponsive(list, n) ==
  \A m \in Listed(list) :
    list[m].valid => ~Outranks(list[m].rank, m, Rank[n], n)

\* best_other_sc: the highest entry of the list, declared or not, responsive or
\* not; None, which callers read as dd 0, when the list is empty.
BestOther(list) ==
  LET best == {m \in Listed(list) : \A k \in Listed(list) \ {m} :
                                      Outranks(list[m].rank, m, list[k].rank, k)}
  IN IF best = {} THEN NoDD ELSE CHOOSE m \in best : TRUE
=============================================================================
