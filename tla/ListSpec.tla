------------------------------ MODULE ListSpec ------------------------------
(***************************************************************************)
(* What linked_list.h promises: a sequence of data that grows at either end *)
(* and shrinks at the front.                                                *)
(***************************************************************************)
EXTENDS Sequences

CONSTANT Data
VARIABLE list

Init == list = <<>>

Prepend == \E d \in Data : list' = <<d>> \o list
AppendLast == \E d \in Data : list' = Append(list, d)
RemoveFirst == list # <<>> /\ list' = Tail(list)

Next == Prepend \/ AppendLast \/ RemoveFirst

Spec == Init /\ [][Next]_list
=============================================================================
