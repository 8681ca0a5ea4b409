----------------------------- MODULE LinkedList -----------------------------
(***************************************************************************)
(* linked_list.c as cells and pointers, under the two kinds of concurrency  *)
(* the program has.                                                         *)
(*                                                                         *)
(* The owner of a list prepends, removes, finds and destroys with nobody    *)
(* else inside: the list is private or its mutex is held.  But the miner    *)
(* appends to the published chain without the mutex, while the server or    *)
(* the broadcast thread walks it (linked_list_length, blockchain_serialize): *)
(* linked_list_append is split at its accesses to the list, and so is the   *)
(* reader's loop.                                                          *)
(*                                                                         *)
(* Stores become visible in program order, as they do without optimization  *)
(* (CMakeLists.txt sets none) on x86-64; the code has no barrier of its own. *)
(***************************************************************************)
EXTENDS Integers, Sequences, FiniteSets

CONSTANTS
    Cells,     \* the addresses malloc may return
    NULL,
    Data       \* the data of the nodes

ASSUME ConstantsAssumption ==
    /\ NULL \notin Cells /\ NULL \notin Data
    /\ IsFiniteSet(Cells)

VARIABLES
    alive,            \* the list exists
    head,             \* linked_list->head
    data, next,       \* the contents of the cells
    allocated,        \* the cells malloc has given out
    op,               \* what the owner is doing
    arg, ptr, node,   \* its datum, the node it has reached, the node it made
    rPc, rPtr, rLen,  \* the reader
    rMin              \* the list's length when the reader took its head

list == <<alive, head, data, next, allocated>>
owner == <<op, arg, ptr, node>>
reader == <<rPc, rPtr, rLen, rMin>>
vars == <<list, owner, reader>>

-----------------------------------------------------------------------------
Junk == "junk"    \* what a cell holds before it is written

\* The pointer that i steps from the head reach, counted from one.
Reached[i \in 1..Cardinality(Cells)] ==
    IF i = 1 THEN head
    ELSE LET p == Reached[i - 1] IN IF p \in Cells THEN next[p] ELSE NULL

\* The nodes of the list, in the order of their pointers.
Nodes == [i \in {j \in DOMAIN Reached : Reached[j] \in Cells} |-> Reached[i]]

Idle == op = "idle" /\ alive

\* Mutant: the owner does not wait until the list is out of a reader's reach.
ExclusiveNoReader == Idle

\* The miner gives up a list it shared only after it has left the mutex with
\* another one published.
Exclusive == Idle /\ rPc = "idle"

Done == op' = "idle" /\ arg' = NULL /\ ptr' = NULL /\ node' = NULL

Init ==
    /\ alive = TRUE /\ head = NULL
    /\ data = [c \in Cells |-> Junk] /\ next = [c \in Cells |-> Junk]
    /\ allocated = {}
    /\ op = "idle" /\ arg = NULL /\ ptr = NULL /\ node = NULL
    /\ rPc = "idle" /\ rPtr = NULL /\ rLen = 0 /\ rMin = 0

-----------------------------------------------------------------------------
(* The operations with nobody else inside.                                 *)

\* linked_list_create
Create ==
    /\ op = "idle" /\ ~alive
    /\ alive' = TRUE /\ head' = NULL
    /\ UNCHANGED <<data, next, allocated, owner, reader>>

\* linked_list_prepend; when malloc fails nothing changes.
Prepend ==
    /\ Exclusive
    /\ \E c \in Cells \ allocated, d \in Data :
          /\ data' = [data EXCEPT ![c] = d]
          /\ next' = [next EXCEPT ![c] = head]
          /\ allocated' = allocated \cup {c}
          /\ head' = c
    /\ UNCHANGED <<alive, owner, reader>>

\* Mutant: the node itself is not freed.
UnlinkFirstOnly ==
    /\ head # NULL
    /\ head' = next[head]
    /\ UNCHANGED <<alive, data, next, allocated>>

\* Mutant: where there is a second node, that one goes.
UnlinkSecond ==
    /\ head # NULL
    /\ LET gone == IF next[head] \in Cells THEN next[head] ELSE head IN
       /\ head' = IF gone = head THEN NULL ELSE head
       /\ allocated' = allocated \ {gone}
       /\ data' = [data EXCEPT ![gone] = Junk]
       /\ next' = [c \in Cells |-> IF c = gone THEN Junk
                                  ELSE IF c = head THEN next[gone] ELSE next[c]]
    /\ UNCHANGED alive

\* The head moves on before the first node and its data are freed.
UnlinkFirst ==
    /\ head # NULL
    /\ head' = next[head]
    /\ allocated' = allocated \ {head}
    /\ data' = [data EXCEPT ![head] = Junk]
    /\ next' = [next EXCEPT ![head] = Junk]
    /\ UNCHANGED alive

\* linked_list_remove_first; an empty list is an error and stays as it is.
RemoveFirst == Exclusive /\ UnlinkFirst /\ UNCHANGED <<owner, reader>>

DestroyStart ==
    /\ Exclusive
    /\ op' = "destroy"
    /\ UNCHANGED <<list, arg, ptr, node, reader>>

\* One round of the loop of linked_list_destroy.
DestroyStep == op = "destroy" /\ UnlinkFirst /\ UNCHANGED <<owner, reader>>

DestroyEnd ==
    /\ op = "destroy" /\ head = NULL
    /\ alive' = FALSE /\ Done
    /\ UNCHANGED <<head, data, next, allocated, reader>>

\* Mutant: the caller's pointer is not initialised to NULL.
FindStartUnset ==
    /\ Exclusive
    /\ \E d \in Data : arg' = d
    /\ op' = "find" /\ ptr' = head /\ node' = Junk
    /\ UNCHANGED <<list, reader>>

\* linked_list_find
FindStart ==
    /\ Exclusive
    /\ \E d \in Data : arg' = d
    /\ op' = "find" /\ ptr' = head
    /\ UNCHANGED <<list, node, reader>>

\* Mutant: the last node is not compared.
FindStepShort ==
    /\ op = "find" /\ ptr # NULL
    /\ \/ data[ptr] = arg /\ next[ptr] # NULL /\ node' = ptr /\ op' = "found" /\ UNCHANGED ptr
       \/ data[ptr] # arg /\ ptr' = next[ptr] /\ UNCHANGED <<op, node>>
       \/ data[ptr] = arg /\ next[ptr] = NULL /\ ptr' = NULL /\ UNCHANGED <<op, node>>
    /\ UNCHANGED <<list, arg, reader>>

FindStep ==
    /\ op = "find" /\ ptr # NULL
    /\ \/ data[ptr] = arg /\ node' = ptr /\ op' = "found" /\ UNCHANGED ptr
       \/ data[ptr] # arg /\ ptr' = next[ptr] /\ UNCHANGED <<op, node>>
    /\ UNCHANGED <<list, arg, reader>>

FindEnd ==
    /\ op = "find" /\ ptr = NULL
    /\ op' = "found"
    /\ UNCHANGED <<list, arg, ptr, node, reader>>

FindReturn == op = "found" /\ Done /\ UNCHANGED <<list, reader>>

-----------------------------------------------------------------------------
(* linked_list_append, which a reader may watch.                           *)

AppendStart ==
    /\ Idle
    /\ \E d \in Data : arg' = d
    /\ op' = "append" /\ ptr' = head
    /\ UNCHANGED <<list, node, reader>>

\* linked_list_get_last
AppendWalk ==
    /\ op = "append" /\ ptr # NULL /\ next[ptr] # NULL
    /\ ptr' = next[ptr]
    /\ UNCHANGED <<list, op, arg, node, reader>>

\* The last node is reached, or the list is empty.
AppendAlloc ==
    /\ op = "append" /\ (ptr \in Cells => next[ptr] = NULL)
    /\ \/ /\ \E c \in Cells \ allocated :
                allocated' = allocated \cup {c} /\ node' = c /\ op' = "fill"
          /\ UNCHANGED <<arg, ptr>>
       \/ Done /\ UNCHANGED allocated
    /\ UNCHANGED <<alive, head, data, next, reader>>

AppendFill ==
    /\ op = "fill"
    /\ data' = [data EXCEPT ![node] = arg]
    /\ next' = [next EXCEPT ![node] = NULL]
    /\ op' = "link"
    /\ UNCHANGED <<alive, head, allocated, arg, ptr, node, reader>>

AppendLink ==
    /\ op = "link"
    /\ \/ ptr = NULL /\ head' = node /\ UNCHANGED next
       \/ ptr # NULL /\ next' = [next EXCEPT ![ptr] = node] /\ UNCHANGED head
    /\ Done
    /\ UNCHANGED <<alive, data, allocated, reader>>

-----------------------------------------------------------------------------
(* The reader: linked_list_length under the mutex of the chain.            *)

ReaderStart ==
    /\ rPc = "idle" /\ alive /\ op \notin {"destroy", "find", "found"}
    /\ rPc' = "walk" /\ rPtr' = head /\ rLen' = 0 /\ rMin' = Len(Nodes)
    /\ UNCHANGED <<list, owner>>

\* Mutant: stops at the last node instead of behind it.
ReaderStepShort ==
    /\ rPc = "walk" /\ rPtr # NULL
    /\ rLen' = IF next[rPtr] = NULL THEN rLen ELSE rLen + 1
    /\ rPtr' = next[rPtr]
    /\ UNCHANGED <<list, owner, rPc, rMin>>

ReaderStep ==
    /\ rPc = "walk" /\ rPtr # NULL
    /\ rLen' = rLen + 1 /\ rPtr' = next[rPtr]
    /\ UNCHANGED <<list, owner, rPc, rMin>>

ReaderEnd ==
    /\ rPc = "walk" /\ rPtr = NULL
    /\ rPc' = "idle" /\ rLen' = 0 /\ rMin' = 0
    /\ UNCHANGED <<list, owner, rPtr>>

-----------------------------------------------------------------------------
Next ==
    \/ Create \/ Prepend \/ RemoveFirst
    \/ DestroyStart \/ DestroyStep \/ DestroyEnd
    \/ FindStart \/ FindStep \/ FindEnd \/ FindReturn
    \/ AppendStart \/ AppendWalk \/ AppendAlloc \/ AppendFill \/ AppendLink
    \/ ReaderStart \/ ReaderStep \/ ReaderEnd

Spec == Init /\ [][Next]_vars

-----------------------------------------------------------------------------
(* Correctness.                                                            *)

Pointer == Cells \cup {NULL}

TypeOK ==
    /\ alive \in BOOLEAN /\ head \in Pointer
    /\ data \in [Cells -> Data \cup {Junk}]
    /\ next \in [Cells -> Pointer \cup {Junk}]
    /\ allocated \subseteq Cells
    /\ op \in {"idle", "destroy", "find", "found", "append", "fill", "link"}
    /\ arg \in Data \cup {NULL} /\ ptr \in Pointer /\ node \in Pointer
    /\ rPc \in {"idle", "walk"} /\ rPtr \in Pointer
    /\ rLen \in Nat /\ rMin \in Nat

(* Through its pointers the list is the sequence ListSpec speaks of: every   *)
(* operation changes it at one end, in one step, whatever the reader does.  *)
Contents == [i \in DOMAIN Nodes |-> data[Nodes[i]]]
Abstract == INSTANCE ListSpec WITH list <- Contents
IsList == Abstract!Spec

(* Every node that malloc gave out is in the list or about to be linked:    *)
(* removing and destroying free each node once, and a failed append leaves  *)
(* nothing behind.                                                          *)
NoLostNode ==
    allocated = {Nodes[i] : i \in DOMAIN Nodes}
                  \cup (IF op \in {"fill", "link"} THEN {node} ELSE {})

(* linked_list_append links a node only when it is complete, so a thread    *)
(* that walks the chain while the miner appends reads no unset field.       *)
ReaderSeesOnlyWholeNodes ==
    rPc = "walk" /\ rPtr # NULL =>
        rPtr \in allocated /\ data[rPtr] \in Data /\ next[rPtr] \in Pointer

(* The length a reader comes to is one the list had while it was walking.   *)
ReaderCountsSnapshot ==
    rPc = "walk" /\ rPtr = NULL => rLen \in rMin..Len(Nodes)

(* linked_list_find fills node with the first match, or leaves it NULL.     *)
FindsFirst ==
    op = "found" =>
        IF node = NULL THEN \A i \in DOMAIN Contents : Contents[i] # arg
        ELSE \E i \in DOMAIN Contents :
                /\ Nodes[i] = node /\ Contents[i] = arg
                /\ \A j \in 1..(i - 1) : Contents[j] # arg
=============================================================================
