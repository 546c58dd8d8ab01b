------------------------------- MODULE MCSite -------------------------------
(* One SC and one device. *)
EXTENDS Site

OneSCs   == {1}
OneRanks == [n \in OneSCs |-> 1]
OneDev   == {8}

\* A device whose type is its own, and one whose type stands for its kind.
Furnace == [d \in OneDev |-> 16]
Sensor  == [d \in OneDev |-> 64]

NewSite == [d \in {} |-> 0]
=============================================================================
