------------------------------ MODULE MCDevice ------------------------------
(* One device by itself. *)
EXTENDS LocalController

OneDev     == {8}
OneRequest == [d \in OneDev |-> 64]
OneEt      == {[et |-> 64, subnet |-> 1]}
=============================================================================
