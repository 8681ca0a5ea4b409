--------------------------- MODULE LinkedListProofs ---------------------------
(***************************************************************************)
(* linked_list.c for any finite memory and any data.  The pointers are those *)
(* of a path: a sequence of different cells, which grows and shrinks at its  *)
(* ends as the list does.  The invariant says that there is such a path and  *)
(* where on it the owner and the reader are; that the nodes reached through  *)
(* the pointers are the path follows by induction along it.                  *)
(***************************************************************************)
EXTENDS LinkedList, LeastElement, FiniteSetTheorems, TLAPS

\* The i-th node of the path, and NULL behind its end.
At(s, i) == IF i \in 1..Len(s) THEN s[i] ELSE NULL

\* The pointers are those of the path s, whose nodes differ and are complete.
Linked(s) ==
    /\ head = At(s, 1)
    /\ \A i \in 1..Len(s) : next[s[i]] = At(s, i + 1) /\ data[s[i]] \in Data
    /\ \A i, j \in 1..Len(s) : s[i] = s[j] => i = j

\* malloc gave out the nodes of the path and the one that is being appended.
Owned(s) ==
    /\ \A i \in 1..Len(s) : s[i] \in allocated
    /\ \A c \in allocated : \/ \E i \in 1..Len(s) : c = s[i]
                            \/ op \in {"fill", "link"} /\ c = node
    /\ op \in {"fill", "link"} =>
           node \in allocated /\ \A i \in 1..Len(s) : s[i] # node

\* No node before the k-th has the datum the owner looks for.
NoneBefore(s, k) == \A j \in 1..(k - 1) : data[s[j]] # arg

\* Where the owner is.
OwnerAt(s) ==
    /\ ~alive => head = NULL /\ op = "idle" /\ rPc = "idle"
    /\ op \in {"destroy", "find", "found"} => rPc = "idle"
    /\ op \in {"idle", "destroy", "find", "append"} => node = NULL
    /\ op \in {"find", "found", "append", "fill", "link"} => arg \in Data
    /\ op = "find" => \E k \in 1..(Len(s) + 1) : ptr = At(s, k) /\ NoneBefore(s, k)
    /\ op = "found" =>
           \/ node = NULL /\ NoneBefore(s, Len(s) + 1)
           \/ \E k \in 1..Len(s) :
                 node = s[k] /\ data[s[k]] = arg /\ NoneBefore(s, k)
    /\ op = "append" =>
           \E k \in 1..(Len(s) + 1) : ptr = At(s, k) /\ (k > Len(s) => Len(s) = 0)
    /\ op \in {"fill", "link"} => ptr = At(s, Len(s))
    /\ op = "link" => data[node] = arg /\ next[node] = NULL

\* Where the reader is: behind the end that it met, or at the node after those
\* it has counted.
ReaderAt(s) ==
    rPc = "walk" =>
        /\ rMin <= Len(s) /\ rLen <= Len(s)
        /\ \/ rPtr = NULL /\ rMin <= rLen
           \/ rLen < Len(s) /\ rPtr = s[rLen + 1]

Path(s) == Linked(s) /\ Owned(s) /\ OwnerAt(s) /\ ReaderAt(s)

PathInv == \E s \in Seq(Cells) : Path(s)

-----------------------------------------------------------------------------
(* Paths.                                                                  *)

\* The places of a path that begins with c.
LEMMA PrependPlaces ==
    ASSUME NEW s \in Seq(Cells), NEW c \in Cells, NEW t, t = <<c>> \o s
    PROVE  /\ t \in Seq(Cells) /\ Len(t) = Len(s) + 1 /\ t[1] = c
           /\ \A i \in 2..Len(t) : i - 1 \in 1..Len(s) /\ t[i] = s[i - 1]
<1>1. t \in Seq(Cells) /\ Len(t) = Len(s) + 1 /\ Len(s) \in Nat /\ t[1] = c
  OBVIOUS
<1>2. \A i \in 2..Len(t) : i - 1 \in 1..Len(s) /\ t[i] = s[i - 1]
  BY <1>1
<1>3. QED
  BY <1>1, <1>2

\* The places of a path without its first node.
LEMMA TailPlaces ==
    ASSUME NEW s \in Seq(Cells), Len(s) > 0, NEW t, t = Tail(s)
    PROVE  /\ t \in Seq(Cells) /\ Len(t) = Len(s) - 1
           /\ \A i \in 1..Len(t) : i + 1 \in 1..Len(s) /\ t[i] = s[i + 1]
           /\ \A i \in 1..(Len(t) + 1) : At(t, i) = At(s, i + 1)
<1>1. t \in Seq(Cells) /\ Len(t) = Len(s) - 1 /\ Len(s) \in Nat /\ Len(t) \in Nat
  BY s # <<>>
<1>2. \A i \in 1..Len(t) : i + 1 \in 1..Len(s) /\ t[i] = s[i + 1]
  BY <1>1, s # <<>>
<1>3. ASSUME NEW i \in 1..(Len(t) + 1) PROVE At(t, i) = At(s, i + 1)
  <2>1. CASE i \in 1..Len(t)
    BY <1>1, <1>2, <2>1 DEF At
  <2>2. CASE i = Len(t) + 1
    BY <1>1, <2>2 DEF At
  <2>3. Len(t) \in Nat => i \in 1..Len(t) \/ i = Len(t) + 1
    OBVIOUS
  <2>4. QED
    BY <1>1, <2>1, <2>2, <2>3
<1>4. QED
  BY <1>1, <1>2, <1>3

\* The places of a path that ends with c.
LEMMA AppendPlaces ==
    ASSUME NEW s \in Seq(Cells), NEW c \in Cells, NEW t, t = Append(s, c)
    PROVE  /\ t \in Seq(Cells) /\ Len(t) = Len(s) + 1 /\ t[Len(t)] = c
           /\ \A i \in 1..Len(s) : i \in 1..Len(t) /\ t[i] = s[i]
<1>1. t \in Seq(Cells) /\ Len(t) = Len(s) + 1 /\ Len(s) \in Nat /\ t[Len(t)] = c
  OBVIOUS
<1>2. \A i \in 1..Len(s) : i \in 1..Len(t) /\ t[i] = s[i]
  BY <1>1
<1>3. QED
  BY <1>1, <1>2

\* What stands at a place of a path is a pointer, and a node just on the path.
LEMMA AtPointer ==
    ASSUME NEW s \in Seq(Cells), NEW i \in Nat
    PROVE  /\ At(s, i) \in Pointer
           /\ At(s, i) = NULL <=> i \notin 1..Len(s)
           /\ i \in 1..Len(s) => At(s, i) = s[i] /\ s[i] \in Cells
<1>1. i \in 1..Len(s) => s[i] \in Cells
  OBVIOUS
<1>2. QED
  BY <1>1, ConstantsAssumption DEF At, Pointer

\* A path of different cells is not longer than the memory.
LEMMA PathFits ==
    ASSUME NEW s \in Seq(Cells), \A i, j \in 1..Len(s) : s[i] = s[j] => i = j
    PROVE  Len(s) <= Cardinality(Cells) /\ Cardinality(Cells) \in Nat
<1>1. IsFiniteSet(Cells) /\ Cardinality(Cells) \in Nat /\ Len(s) \in Nat
  BY ConstantsAssumption, FS_CardinalityType
<1>2. IsFiniteSet(1..Len(s)) /\ Cardinality(1..Len(s)) = Len(s)
  <2>1. 1 \in Int /\ Len(s) \in Int
    BY <1>1
  <2>2. /\ IsFiniteSet(1..Len(s))
        /\ Cardinality(1..Len(s)) = IF 1 > Len(s) THEN 0 ELSE Len(s) - 1 + 1
    BY <2>1, FS_Interval
  <2>3. (IF 1 > Len(s) THEN 0 ELSE Len(s) - 1 + 1) = Len(s)
    BY <1>1
  <2>4. QED
    BY <2>2, <2>3
<1>3. s \in [1..Len(s) -> Cells]
  OBVIOUS
<1>4. ASSUME Cardinality(Cells) < Cardinality(1..Len(s)) PROVE FALSE
  <2>1. \E x, y \in 1..Len(s) : x # y /\ s[x] = s[y]
    BY <1>1, <1>2, <1>3, <1>4, FS_PigeonHole
  <2>2. QED
    BY <2>1
<1>5. QED
  BY <1>1, <1>2, <1>4

\* Following the pointers from the head reaches the nodes of the path and then NULL.
LEMMA ReachedPath ==
    ASSUME NEW s \in Seq(Cells), Linked(s)
    PROVE  Reached = [i \in 1..Cardinality(Cells) |-> At(s, i)]
<1> DEFINE N == Cardinality(Cells)
           Follow(f) == [i \in 1..N |->
                           IF i = 1 THEN head
                           ELSE LET p == f[i - 1] IN IF p \in Cells THEN next[p] ELSE NULL]
           g == [i \in 1..N |-> At(s, i)]
<1>1. N \in Nat /\ Len(s) \in Nat
  BY PathFits DEF Linked
<1>2. g = Follow(g)
  <2>1. ASSUME NEW i \in 1..N
        PROVE  At(s, i) = IF i = 1 THEN head
                          ELSE LET p == g[i - 1] IN IF p \in Cells THEN next[p] ELSE NULL
    <3>1. CASE i = 1
      BY <3>1 DEF Linked
    <3>2. CASE i # 1
      <4>1. i \in Nat /\ i - 1 \in 1..N /\ g[i - 1] = At(s, i - 1)
        BY <1>1, <3>2
      <4>2. CASE i - 1 \in 1..Len(s)
        <5>1. At(s, i - 1) = s[i - 1] /\ s[i - 1] \in Cells
          BY <4>2, AtPointer
        <5>2. next[s[i - 1]] = At(s, (i - 1) + 1)
          BY <4>2 DEF Linked
        <5>3. QED
          BY <3>2, <4>1, <5>1, <5>2
      <4>3. CASE i - 1 \notin 1..Len(s)
        <5>1. At(s, i - 1) = NULL /\ At(s, i) = NULL
          BY <1>1, <3>2, <4>1, <4>3 DEF At
        <5>2. QED
          BY <3>2, <4>1, <5>1, ConstantsAssumption
      <4>4. QED
        BY <4>2, <4>3
    <3>3. QED
      BY <3>1, <3>2
  <2>2. QED
    BY <2>1
<1>3. Reached = CHOOSE f : f = Follow(f)
  BY DEF Reached
<1>4. Reached = Follow(Reached)
  <2> HIDE DEF g, Follow
  <2>1. \E f : f = Follow(f)
    BY <1>2
  <2>2. QED
    BY <1>3, <2>1
<1>5. ASSUME NEW i \in 1..N, Reached[i] # g[i] PROVE FALSE
  <2> DEFINE Off == {j \in 1..N : Reached[j] # g[j]}
  <2>1. Off \subseteq Nat /\ Off # {}
    BY <1>5
  <2>2. PICK j \in Off : \A e \in Off : j <= e
    BY <2>1, LeastNat
  <2>3. j \in 1..N /\ Reached[j] # g[j]
    BY <2>2
  <2>4. CASE j = 1
    BY <1>2, <1>4, <2>3, <2>4
  <2>5. CASE j # 1
    <3>1. j - 1 \in 1..N /\ ~(j <= j - 1)
      BY <1>1, <2>3, <2>5
    <3>2. Reached[j - 1] = g[j - 1]
      BY <2>2, <3>1
    <3>3. Reached[j] = LET p == Reached[j - 1] IN IF p \in Cells THEN next[p] ELSE NULL
      BY <1>4, <2>3, <2>5
    <3>4. g[j] = LET p == g[j - 1] IN IF p \in Cells THEN next[p] ELSE NULL
      BY <1>2, <2>3, <2>5
    <3>5. QED
      BY <2>3, <3>2, <3>3, <3>4
  <2>6. QED
    BY <2>4, <2>5
<1>6. DOMAIN Reached = 1..N /\ Reached = [i \in 1..N |-> Reached[i]]
  BY <1>4
<1>7. QED
  BY <1>5, <1>6

\* The nodes of the list are the path.
LEMMA NodesPath ==
    ASSUME NEW s \in Seq(Cells), Linked(s)
    PROVE  Nodes = s
<1>1. Reached = [i \in 1..Cardinality(Cells) |-> At(s, i)]
  BY ReachedPath
<1>2. Cardinality(Cells) \in Nat /\ Len(s) <= Cardinality(Cells) /\ Len(s) \in Nat
  BY PathFits DEF Linked
<1>3. {j \in DOMAIN Reached : Reached[j] \in Cells} = 1..Len(s)
  <2>1. ASSUME NEW j \in 1..Cardinality(Cells) PROVE At(s, j) \in Cells <=> j \in 1..Len(s)
    <3>1. j \in Nat
      BY <1>2
    <3>2. QED
      BY <3>1, AtPointer, ConstantsAssumption DEF Pointer
  <2>2. QED
    BY <1>1, <1>2, <2>1
<1>4. \A j \in 1..Len(s) : Reached[j] = s[j]
  BY <1>1, <1>2 DEF At
<1>5. Nodes = [i \in 1..Len(s) |-> Reached[i]]
  BY <1>3 DEF Nodes
<1>6. QED
  BY <1>4, <1>5

-----------------------------------------------------------------------------
(* Types.                                                                  *)

\* A list that is created is empty and nobody is inside.
LEMMA InitTypeOK == Init => TypeOK
BY DEF Init, TypeOK, Pointer

\* What is read through a pointer to a node of the path is a pointer again.
LEMMA FollowTyped ==
    ASSUME NEW s \in Seq(Cells), Linked(s), NEW i \in Nat, At(s, i) # NULL
    PROVE  /\ i \in 1..Len(s) /\ At(s, i) = s[i] /\ s[i] \in Cells
           /\ next[s[i]] = At(s, i + 1) /\ next[s[i]] \in Pointer /\ data[s[i]] \in Data
<1>1. i \in 1..Len(s) /\ At(s, i) = s[i] /\ s[i] \in Cells
  BY AtPointer
<1>2. next[s[i]] = At(s, i + 1) /\ data[s[i]] \in Data
  BY <1>1 DEF Linked
<1>3. i + 1 \in Nat
  OBVIOUS
<1>4. QED
  BY <1>1, <1>2, <1>3, AtPointer

\* Every step keeps the types.
LEMMA NextTypeOK == TypeOK /\ PathInv /\ [Next]_vars => TypeOK'
<1> SUFFICES ASSUME TypeOK, NEW s \in Seq(Cells), Path(s), [Next]_vars PROVE TypeOK'
  BY DEF PathInv
<1>l. Linked(s) /\ Len(s) \in Nat
  BY DEF Path
<1> USE DEF TypeOK, list, owner, reader
<1>u. ASSUME UnlinkFirst PROVE head' \in Pointer /\ data' \in [Cells -> Data \cup {Junk}]
                               /\ next' \in [Cells -> Pointer \cup {Junk}] /\ allocated' \subseteq Cells
                               /\ alive' = alive
  <2>1. head = At(s, 1) /\ head # NULL
    BY <1>l, <1>u DEF Linked, UnlinkFirst
  <2>2. next[head] \in Pointer
    BY <1>l, <2>1, FollowTyped
  <2>3. QED
    BY <1>u, <2>2 DEF UnlinkFirst
<1>a. CASE Create
  BY <1>a DEF Create, Pointer
<1>b. CASE Prepend
  BY <1>b DEF Prepend, Pointer
<1>c. CASE RemoveFirst
  BY <1>c, <1>u DEF RemoveFirst
<1>d. CASE DestroyStart
  BY <1>d DEF DestroyStart
<1>e. CASE DestroyStep
  BY <1>e, <1>u DEF DestroyStep
<1>f. CASE DestroyEnd
  BY <1>f DEF DestroyEnd, Done, Pointer
<1>g. CASE FindStart
  BY <1>g DEF FindStart
<1>h. CASE FindStep
  <2>1. PICK k \in 1..(Len(s) + 1) : ptr = At(s, k)
    BY <1>h DEF FindStep, Path, OwnerAt
  <2>2. ptr # NULL
    BY <1>h DEF FindStep
  <2>3. next[ptr] \in Pointer
    BY <1>l, <2>1, <2>2, FollowTyped
  <2>4. QED
    BY <1>h, <2>3 DEF FindStep
<1>i. CASE FindEnd
  BY <1>i DEF FindEnd
<1>j. CASE FindReturn
  BY <1>j DEF FindReturn, Done, Pointer
<1>k. CASE AppendStart
  BY <1>k DEF AppendStart
<1>m. CASE AppendWalk
  <2>1. PICK k \in 1..(Len(s) + 1) : ptr = At(s, k)
    BY <1>m DEF AppendWalk, Path, OwnerAt
  <2>2. ptr # NULL
    BY <1>m DEF AppendWalk
  <2>3. next[ptr] \in Pointer
    BY <1>l, <2>1, <2>2, FollowTyped
  <2>4. QED
    BY <1>m, <2>3 DEF AppendWalk
<1>n. CASE AppendAlloc
  BY <1>n DEF AppendAlloc, Done, Pointer
<1>o. CASE AppendFill
  <2>1. arg \in Data
    BY <1>o DEF AppendFill, Path, OwnerAt
  <2>2. QED
    BY <1>o, <2>1 DEF AppendFill, Pointer
<1>p. CASE AppendLink
  BY <1>p DEF AppendLink, Done, Pointer
<1>q. CASE ReaderStart
  <2>1. Nodes = s
    BY <1>l, NodesPath
  <2>2. QED
    BY <1>l, <1>q, <2>1 DEF ReaderStart
<1>r. CASE ReaderStep
  <2>1. rPc = "walk" /\ rPtr # NULL
    BY <1>r DEF ReaderStep
  <2>2. rLen < Len(s) /\ rPtr = s[rLen + 1]
    BY <2>1 DEF Path, ReaderAt
  <2>3. rLen + 1 \in Nat /\ At(s, rLen + 1) = rPtr
    BY <1>l, <2>2 DEF At
  <2>4. next[rPtr] \in Pointer
    BY <1>l, <2>1, <2>2, <2>3, FollowTyped
  <2>5. QED
    BY <1>r, <2>4 DEF ReaderStep
<1>s. CASE ReaderEnd
  BY <1>s DEF ReaderEnd
<1>t. CASE UNCHANGED vars
  BY <1>t DEF vars
<1>v. QED
  BY <1>a, <1>b, <1>c, <1>d, <1>e, <1>f, <1>g, <1>h, <1>i, <1>j, <1>k, <1>m, <1>n, <1>o,
     <1>p, <1>q, <1>r, <1>s, <1>t
  DEF Next

-----------------------------------------------------------------------------
(* The path.                                                               *)

\* Unlinking the first node leaves the rest of the path.
LEMMA UnlinkPath ==
    ASSUME TypeOK, NEW s \in Seq(Cells), Linked(s), Owned(s),
           op \notin {"fill", "link"}, op' = op, UnlinkFirst
    PROVE  Len(s) > 0 /\ Tail(s) \in Seq(Cells) /\ Linked(Tail(s))' /\ Owned(Tail(s))'
<1> DEFINE t == Tail(s)
<1>1. head = At(s, 1) /\ head # NULL
  BY DEF Linked, UnlinkFirst
<1>2. /\ 1 \in 1..Len(s) /\ head = s[1] /\ s[1] \in Cells /\ next[head] = At(s, 2)
      /\ Len(s) \in Nat /\ Len(s) > 0
  BY <1>1, FollowTyped
<1>3. /\ t \in Seq(Cells) /\ Len(t) = Len(s) - 1
      /\ \A i \in 1..Len(t) : i + 1 \in 1..Len(s) /\ t[i] = s[i + 1]
      /\ \A i \in 1..(Len(t) + 1) : At(t, i) = At(s, i + 1)
  BY <1>2, TailPlaces
<1>4. /\ head' = next[head] /\ allocated' = allocated \ {s[1]}
      /\ data' = [data EXCEPT ![s[1]] = Junk] /\ next' = [next EXCEPT ![s[1]] = Junk]
  BY <1>2 DEF UnlinkFirst
<1> HIDE DEF t
<1>5. ASSUME NEW i \in 1..Len(t)
      PROVE  /\ t[i] \in Cells /\ t[i] # s[1] /\ t[i] \in allocated
             /\ next'[t[i]] = At(t, i + 1) /\ data'[t[i]] \in Data
  <2>1. i + 1 \in 1..Len(s) /\ t[i] = s[i + 1] /\ i + 1 # 1 /\ i \in Nat
    BY <1>2, <1>3
  <2>2. /\ t[i] \in Cells /\ t[i] # s[1] /\ t[i] \in allocated
        /\ next[t[i]] = At(s, (i + 1) + 1) /\ data[t[i]] \in Data
    BY <1>2, <2>1 DEF Linked, Owned
  <2>3. At(t, i + 1) = At(s, (i + 1) + 1)
    BY <1>2, <1>3, <2>1
  <2>4. next'[t[i]] = next[t[i]] /\ data'[t[i]] = data[t[i]]
    BY <1>4, <2>2 DEF TypeOK
  <2>5. QED
    BY <2>2, <2>3, <2>4
<1>6. \A i, j \in 1..Len(t) : t[i] = t[j] => i = j
  <2> SUFFICES ASSUME NEW i \in 1..Len(t), NEW j \in 1..Len(t), t[i] = t[j] PROVE i = j
    OBVIOUS
  <2>1. i + 1 = j + 1
    BY <1>3 DEF Linked
  <2>2. QED
    BY <1>2, <1>3, <2>1
<1>7. head' = At(t, 1)
  BY <1>2, <1>3, <1>4
<1>8. Linked(t)'
  BY <1>5, <1>6, <1>7 DEF Linked
<1>9. ASSUME NEW c \in allocated' PROVE \E i \in 1..Len(t) : c = t[i]
  <2>1. c \in allocated /\ c # s[1]
    BY <1>4
  <2>2. PICK k \in 1..Len(s) : c = s[k]
    BY <2>1 DEF Owned
  <2>3. k - 1 \in 1..Len(t) /\ (k - 1) + 1 = k
    BY <1>2, <1>3, <2>1, <2>2
  <2>4. t[k - 1] = s[k]
    BY <1>3, <2>3
  <2>5. QED
    BY <2>2, <2>3, <2>4
<1>10. Owned(t)'
  BY <1>4, <1>5, <1>9 DEF Owned
<1>11. QED
  BY <1>2, <1>3, <1>8, <1>10 DEF t

\* A node in front of the head makes a path with one node more.
LEMMA PrependPath ==
    ASSUME TypeOK, NEW s \in Seq(Cells), Linked(s), Owned(s),
           op \notin {"fill", "link"}, op' = op,
           NEW c \in Cells \ allocated, NEW d \in Data,
           data' = [data EXCEPT ![c] = d], next' = [next EXCEPT ![c] = head],
           allocated' = allocated \cup {c}, head' = c
    PROVE  <<c>> \o s \in Seq(Cells) /\ Linked(<<c>> \o s)' /\ Owned(<<c>> \o s)'
<1> DEFINE t == <<c>> \o s
<1>0. t = <<c>> \o s /\ Len(s) \in Nat
  OBVIOUS
<1> HIDE DEF t
<1>1. /\ t \in Seq(Cells) /\ Len(t) = Len(s) + 1 /\ Len(s) \in Nat /\ t[1] = c
      /\ \A i \in 2..Len(t) : i - 1 \in 1..Len(s) /\ t[i] = s[i - 1]
      /\ \A i \in 2..(Len(t) + 1) : At(t, i) = At(s, i - 1)
  <2>1. t \in Seq(Cells) /\ Len(t) = Len(s) + 1 /\ t[1] = c
    BY <1>0, PrependPlaces
  <2>2. \A i \in 2..Len(t) : i - 1 \in 1..Len(s) /\ t[i] = s[i - 1]
    BY <1>0, PrependPlaces
  <2>3. Len(s) \in Nat
    OBVIOUS
  <2>4. \A i \in 2..(Len(t) + 1) : At(t, i) = At(s, i - 1)
    BY <2>1, <2>2, <2>3 DEF At
  <2>5. QED
    BY <2>1, <2>2, <2>3, <2>4
<1>2. At(t, 1) = c /\ At(t, 2) = At(s, 1)
  BY <1>1 DEF At
<1>3. ASSUME NEW i \in 2..Len(t)
      PROVE  /\ t[i] \in Cells /\ t[i] # c /\ t[i] \in allocated
             /\ next'[t[i]] = At(t, i + 1) /\ data'[t[i]] \in Data
  <2>1. i - 1 \in 1..Len(s) /\ t[i] = s[i - 1] /\ i + 1 \in 2..(Len(t) + 1)
    BY <1>1
  <2>2. /\ t[i] \in allocated /\ t[i] \in Cells
        /\ next[t[i]] = At(s, (i - 1) + 1) /\ data[t[i]] \in Data
    BY <2>1 DEF Linked, Owned
  <2>3. At(t, i + 1) = At(s, (i + 1) - 1) /\ (i + 1) - 1 = (i - 1) + 1
    BY <1>1, <2>1
  <2>4. next'[t[i]] = next[t[i]] /\ data'[t[i]] = data[t[i]] /\ t[i] # c
    BY <2>2 DEF TypeOK
  <2>5. QED
    BY <2>2, <2>3, <2>4
<1>4. next'[t[1]] = At(t, 2) /\ data'[t[1]] \in Data
  BY <1>1, <1>2 DEF TypeOK, Linked
<1>5. \A i \in 1..Len(t) : i = 1 \/ i \in 2..Len(t)
  BY <1>1
<1>6. \A i \in 1..Len(t) : next'[t[i]] = At(t, i + 1) /\ data'[t[i]] \in Data
  BY <1>3, <1>4, <1>5
<1>7. ASSUME NEW i \in 1..Len(t), NEW j \in 1..Len(t), t[i] = t[j] PROVE i = j
  <2>1. CASE i \in 2..Len(t) /\ j \in 2..Len(t)
    <3>1. i - 1 = j - 1
      BY <1>1, <1>7, <2>1 DEF Linked
    <3>2. QED
      BY <1>1, <2>1, <3>1
  <2>2. CASE i = 1 \/ j = 1
    BY <1>1, <1>3, <1>5, <1>7, <2>2
  <2>3. QED
    BY <1>5, <2>1, <2>2
<1>8. Linked(t)'
  BY <1>2, <1>6, <1>7 DEF Linked
<1>9. ASSUME NEW e \in allocated' PROVE \E i \in 1..Len(t) : e = t[i]
  <2>1. CASE e = c
    BY <1>1, <2>1
  <2>2. CASE e \in allocated
    <3>1. PICK k \in 1..Len(s) : e = s[k]
      BY <2>2 DEF Owned
    <3>2. k + 1 \in 2..Len(t) /\ (k + 1) - 1 = k /\ k + 1 \in 1..Len(t)
      BY <1>1
    <3>3. t[k + 1] = s[k]
      BY <1>1, <3>2
    <3>4. QED
      BY <3>1, <3>2, <3>3
  <2>3. QED
    BY <2>1, <2>2
<1>10. \A i \in 1..Len(t) : t[i] \in allocated'
  BY <1>1, <1>3, <1>5
<1>11. Owned(t)'
  BY <1>9, <1>10 DEF Owned
<1>12. QED
  BY <1>1, <1>8, <1>11 DEF t

\* Linking the complete node makes a path with that node at its end.
LEMMA LinkPath ==
    ASSUME TypeOK, NEW s \in Seq(Cells), Path(s), AppendLink, NEW c \in Cells, c = node
    PROVE  Append(s, c) \in Seq(Cells) /\ Linked(Append(s, c))' /\ Owned(Append(s, c))'
<1> DEFINE t == Append(s, c)
<1>1. /\ op = "link" /\ op' = "idle" /\ UNCHANGED <<data, allocated>>
      /\ \/ ptr = NULL /\ head' = node /\ UNCHANGED next
         \/ ptr # NULL /\ next' = [next EXCEPT ![ptr] = node] /\ UNCHANGED head
  BY DEF AppendLink, Done
<1>2. /\ Linked(s) /\ ptr = At(s, Len(s)) /\ data[node] \in Data /\ next[node] = NULL
      /\ node \in allocated /\ \A i \in 1..Len(s) : s[i] # node
      /\ Len(s) \in Nat
  BY <1>1 DEF Path, OwnerAt, Owned
<1>3. t = Append(s, c) /\ node \in Cells
  OBVIOUS
<1> HIDE DEF t
<1>4. /\ t \in Seq(Cells) /\ Len(t) = Len(s) + 1 /\ t[Len(t)] = node
      /\ \A i \in 1..Len(s) : i \in 1..Len(t) /\ t[i] = s[i] /\ At(t, i) = s[i]
      /\ At(t, Len(t)) = node /\ At(t, Len(t) + 1) = NULL
  <2>1. t \in Seq(Cells) /\ Len(t) = Len(s) + 1 /\ t[Len(t)] = c
    BY <1>3, AppendPlaces
  <2>2. \A i \in 1..Len(s) : i \in 1..Len(t) /\ t[i] = s[i]
    BY <1>3, AppendPlaces
  <2>3. /\ \A i \in 1..Len(s) : At(t, i) = s[i]
        /\ At(t, Len(t)) = c /\ At(t, Len(t) + 1) = NULL
    BY <1>2, <2>1, <2>2 DEF At
  <2>4. QED
    BY <2>1, <2>2, <2>3
<1>5. ptr = NULL <=> Len(s) = 0
  BY <1>2, AtPointer
<1>6. ptr # NULL => Len(s) \in 1..Len(s) /\ ptr = s[Len(s)] /\ ptr \in Cells
  BY <1>2, AtPointer
<1>7. head' = At(t, 1)
  <2>1. CASE ptr = NULL
    BY <1>1, <1>4, <1>5, <2>1
  <2>2. CASE ptr # NULL
    <3>1. 1 \in 1..Len(s)
      BY <1>2, <1>6, <2>2
    <3>2. QED
      BY <1>1, <1>2, <1>4, <2>2, <3>1 DEF Linked, At
  <2>3. QED
    BY <2>1, <2>2
<1>8. next'[node] = NULL
  <2>1. ptr # node
    BY <1>2, <1>3, <1>6, ConstantsAssumption
  <2>2. QED
    BY <1>1, <1>2, <1>3, <2>1 DEF TypeOK
<1>9. ASSUME NEW i \in 1..Len(s) PROVE next'[s[i]] = At(t, i + 1)
  <2>1. s[i] \in Cells /\ next[s[i]] = At(s, i + 1) /\ ptr # NULL
    BY <1>2, <1>5 DEF Linked
  <2>2. CASE i = Len(s)
    BY <1>1, <1>4, <1>6, <2>1, <2>2 DEF TypeOK
  <2>3. CASE i # Len(s)
    <3>1. i + 1 \in 1..Len(s) /\ s[i] # s[Len(s)]
      BY <1>2, <1>6, <2>1, <2>3 DEF Linked
    <3>2. next'[s[i]] = next[s[i]]
      BY <1>1, <1>6, <2>1, <3>1 DEF TypeOK
    <3>3. At(s, i + 1) = s[i + 1] /\ At(t, i + 1) = s[i + 1]
      BY <1>4, <3>1 DEF At
    <3>4. QED
      BY <2>1, <3>2, <3>3
  <2>4. QED
    BY <2>2, <2>3
<1>10. \A i \in 1..Len(t) : i \in 1..Len(s) \/ i = Len(t)
  BY <1>2, <1>4
<1>11. \A i \in 1..Len(t) : next'[t[i]] = At(t, i + 1) /\ data'[t[i]] \in Data
  <2>1. \A i \in 1..Len(s) : data'[s[i]] \in Data
    BY <1>1, <1>2 DEF Linked
  <2>2. QED
    BY <1>1, <1>2, <1>4, <1>8, <1>9, <1>10, <2>1
<1>12. \A i, j \in 1..Len(t) : t[i] = t[j] => i = j
  BY <1>2, <1>4, <1>10 DEF Linked
<1>13. Linked(t)'
  BY <1>7, <1>11, <1>12 DEF Linked
<1>14. \A i \in 1..Len(t) : t[i] \in allocated
  BY <1>2, <1>4, <1>10 DEF Path, Owned
<1>15. ASSUME NEW e \in allocated PROVE \E i \in 1..Len(t) : e = t[i]
  <2>1. CASE e = node
    BY <1>2, <1>4, <2>1
  <2>2. CASE \E i \in 1..Len(s) : e = s[i]
    BY <1>4, <2>2
  <2>3. QED
    BY <2>1, <2>2 DEF Path, Owned
<1>16. Owned(t)'
  BY <1>1, <1>14, <1>15 DEF Owned
<1>17. QED
  BY <1>4, <1>13, <1>16 DEF t

\* Filling the new node touches no node of the path.
LEMMA FillPath ==
    ASSUME TypeOK, NEW s \in Seq(Cells), Path(s), AppendFill
    PROVE  Linked(s)' /\ \A i \in 1..Len(s) : data'[s[i]] = data[s[i]]
<1>1. /\ op = "fill" /\ head' = head
      /\ data' = [data EXCEPT ![node] = arg] /\ next' = [next EXCEPT ![node] = NULL]
  BY DEF AppendFill
<1>2. node \in Cells /\ \A i \in 1..Len(s) : s[i] # node /\ s[i] \in Cells
  BY <1>1 DEF Path, Owned, TypeOK
<1>3. \A i \in 1..Len(s) : next'[s[i]] = next[s[i]] /\ data'[s[i]] = data[s[i]]
  BY <1>1, <1>2 DEF TypeOK
<1>4. Linked(s)'
  BY <1>1, <1>3 DEF Path, Linked
<1>5. QED
  BY <1>3, <1>4

\* A new list is the empty path.
LEMMA InitPath == Init => PathInv
<1> SUFFICES ASSUME Init PROVE Path(<<>>)
  <2>1. <<>> \in Seq(Cells)
    OBVIOUS
  <2>2. QED
    BY <2>1 DEF PathInv
<1>1. Len(<<>>) = 0
  OBVIOUS
<1>2. At(<<>>, 1) = NULL
  BY <1>1 DEF At
<1>3. QED
  BY <1>1, <1>2 DEF Init, Path, Linked, Owned, OwnerAt, ReaderAt

\* Every step leaves a path, with the owner and the reader on it.
LEMMA NextPath == TypeOK /\ PathInv /\ [Next]_vars => PathInv'
<1> SUFFICES ASSUME TypeOK, NEW s \in Seq(Cells), Path(s), [Next]_vars PROVE PathInv'
  BY DEF PathInv
<1>l. Linked(s) /\ Owned(s) /\ OwnerAt(s) /\ ReaderAt(s) /\ Len(s) \in Nat
  BY DEF Path
<1>k. ASSUME NEW t \in Seq(Cells), Linked(t)', Owned(t)', OwnerAt(t)', ReaderAt(t)'
      PROVE  PathInv'
  BY <1>k DEF PathInv, Path
<1>s. ASSUME Linked(s)', Owned(s)', OwnerAt(s)', ReaderAt(s)' PROVE PathInv'
  BY <1>s, <1>k
<1>h. ASSUME UNCHANGED <<head, data, next>> PROVE Linked(s)'
  BY <1>h, <1>l DEF Linked
<1>r. ASSUME UNCHANGED reader PROVE ReaderAt(s)'
  BY <1>r, <1>l DEF ReaderAt, reader
<1>o. ASSUME UNCHANGED allocated, op \notin {"fill", "link"}, op' \notin {"fill", "link"}
      PROVE  Owned(s)'
  BY <1>o, <1>l DEF Owned
<1>a. CASE Create
  <2>1. UNCHANGED <<data, next, allocated, op, arg, ptr, node, reader>> /\ head' = NULL /\ alive'
        /\ op = "idle" /\ ~alive
    BY <1>a DEF Create, owner
  <2>2. head = NULL
    BY <1>l, <2>1 DEF OwnerAt
  <2>3. Linked(s)' /\ Owned(s)' /\ ReaderAt(s)'
    BY <1>h, <1>r, <1>o, <2>1, <2>2
  <2>4. OwnerAt(s)'
    BY <1>l, <2>1 DEF OwnerAt
  <2>5. QED
    BY <1>s, <2>3, <2>4
<1>b. CASE Prepend
  <2>1. PICK c \in Cells \ allocated, d \in Data :
            /\ data' = [data EXCEPT ![c] = d] /\ next' = [next EXCEPT ![c] = head]
            /\ allocated' = allocated \cup {c} /\ head' = c
    BY <1>b DEF Prepend
  <2>2. UNCHANGED <<alive, op, arg, ptr, node, reader>> /\ op = "idle" /\ alive /\ rPc = "idle"
    BY <1>b DEF Prepend, Exclusive, Idle, owner
  <2>3. <<c>> \o s \in Seq(Cells) /\ Linked(<<c>> \o s)' /\ Owned(<<c>> \o s)'
    BY <1>l, <2>1, <2>2, PrependPath
  <2> DEFINE t == <<c>> \o s
  <2> HIDE DEF t
  <2>4. OwnerAt(t)'
    BY <1>l, <2>2 DEF OwnerAt
  <2>5. ReaderAt(t)'
    BY <2>2 DEF ReaderAt, reader
  <2>6. QED
    BY <1>k, <2>3, <2>4, <2>5 DEF t
<1>c. CASE RemoveFirst
  <2>1. UnlinkFirst /\ UNCHANGED <<op, arg, ptr, node, reader>>
        /\ op = "idle" /\ alive /\ rPc = "idle"
    BY <1>c DEF RemoveFirst, Exclusive, Idle, owner
  <2>2. Tail(s) \in Seq(Cells) /\ Linked(Tail(s))' /\ Owned(Tail(s))'
    BY <1>l, <2>1, UnlinkPath
  <2> DEFINE t == Tail(s)
  <2> HIDE DEF t
  <2>3. OwnerAt(t)'
    BY <1>l, <2>1 DEF OwnerAt, UnlinkFirst
  <2>4. ReaderAt(t)'
    BY <2>1 DEF ReaderAt, reader
  <2>5. QED
    BY <1>k, <2>2, <2>3, <2>4 DEF t
<1>d. CASE DestroyStart
  <2>1. UNCHANGED <<alive, head, data, next, allocated, arg, ptr, node, reader>>
        /\ op = "idle" /\ op' = "destroy" /\ alive /\ rPc = "idle" /\ rPc' = "idle"
    BY <1>d DEF DestroyStart, Exclusive, Idle, list, reader
  <2>2. OwnerAt(s)'
    BY <1>l, <2>1 DEF OwnerAt
  <2>3. QED
    BY <1>s, <1>h, <1>r, <1>o, <2>1, <2>2
<1>e. CASE DestroyStep
  <2>1. UnlinkFirst /\ UNCHANGED <<op, arg, ptr, node, reader>> /\ op = "destroy"
    BY <1>e DEF DestroyStep, owner
  <2>2. Tail(s) \in Seq(Cells) /\ Linked(Tail(s))' /\ Owned(Tail(s))'
    BY <1>l, <2>1, UnlinkPath
  <2>3. alive /\ alive' /\ rPc = "idle" /\ rPc' = "idle"
    BY <1>l, <2>1 DEF OwnerAt, UnlinkFirst, reader
  <2> DEFINE t == Tail(s)
  <2> HIDE DEF t
  <2>4. OwnerAt(t)'
    BY <1>l, <2>1, <2>3 DEF OwnerAt
  <2>5. ReaderAt(t)'
    BY <2>3 DEF ReaderAt
  <2>6. QED
    BY <1>k, <2>2, <2>4, <2>5 DEF t
<1>f. CASE DestroyEnd
  <2>1. UNCHANGED <<head, data, next, allocated, reader>>
        /\ op = "destroy" /\ op' = "idle" /\ head = NULL /\ node' = NULL
    BY <1>f DEF DestroyEnd, Done
  <2>2. rPc' = "idle"
    BY <1>l, <2>1 DEF OwnerAt, reader
  <2>3. OwnerAt(s)'
    BY <2>1, <2>2 DEF OwnerAt
  <2>4. QED
    BY <1>s, <1>h, <1>r, <1>o, <2>1, <2>3
<1>g. CASE FindStart
  <2>1. UNCHANGED <<alive, head, data, next, allocated, node, reader>>
        /\ op = "idle" /\ op' = "find" /\ alive /\ rPc = "idle" /\ rPc' = "idle"
        /\ ptr' = head /\ arg' \in Data
    BY <1>g DEF FindStart, Exclusive, Idle, list, reader
  <2>2. 1 \in 1..(Len(s) + 1) /\ ptr' = At(s, 1) /\ NoneBefore(s, 1)'
    BY <1>l, <2>1 DEF Linked, NoneBefore
  <2>3. OwnerAt(s)'
    BY <1>l, <2>1, <2>2 DEF OwnerAt
  <2>4. QED
    BY <1>s, <1>h, <1>r, <1>o, <2>1, <2>3
<1>i. CASE FindStep
  <2>1. /\ UNCHANGED <<alive, head, data, next, allocated, arg, reader>>
        /\ op = "find" /\ ptr # NULL
        /\ \/ data[ptr] = arg /\ node' = ptr /\ op' = "found" /\ UNCHANGED ptr
           \/ data[ptr] # arg /\ ptr' = next[ptr] /\ UNCHANGED <<op, node>>
    BY <1>i DEF FindStep, list
  <2>2. PICK k \in 1..(Len(s) + 1) : ptr = At(s, k) /\ NoneBefore(s, k)
    BY <1>l, <2>1 DEF OwnerAt
  <2>3. k \in 1..Len(s) /\ ptr = s[k] /\ next[ptr] = At(s, k + 1)
    BY <1>l, <2>1, <2>2, FollowTyped
  <2>4. alive /\ alive' /\ rPc = "idle" /\ rPc' = "idle" /\ arg' \in Data /\ node = NULL
    BY <1>l, <2>1 DEF OwnerAt, reader
  <2>5. NoneBefore(s, k)'
    BY <2>1, <2>2 DEF NoneBefore
  <2>6. CASE data[ptr] = arg /\ node' = ptr /\ op' = "found" /\ UNCHANGED ptr
    <3>1. \E x \in 1..Len(s) : node' = s[x] /\ data'[s[x]] = arg' /\ NoneBefore(s, x)'
      BY <2>1, <2>3, <2>5, <2>6
    <3>2. OwnerAt(s)'
      BY <2>4, <2>6, <3>1 DEF OwnerAt
    <3>3. QED
      BY <1>s, <1>h, <1>r, <1>o, <2>1, <2>6, <3>2
  <2>7. CASE data[ptr] # arg /\ ptr' = next[ptr] /\ UNCHANGED <<op, node>>
    <3>1. NoneBefore(s, k + 1)'
      <4>1. \A j \in 1..((k + 1) - 1) : j = k \/ j \in 1..(k - 1)
        BY <1>l, <2>3
      <4>2. data'[s[k]] # arg'
        BY <2>1, <2>3, <2>7
      <4>3. QED
        BY <2>5, <4>1, <4>2 DEF NoneBefore
    <3>2. k + 1 \in 1..(Len(s) + 1) /\ ptr' = At(s, k + 1)
      BY <1>l, <2>3, <2>7
    <3>3. OwnerAt(s)'
      BY <2>1, <2>4, <2>7, <3>1, <3>2 DEF OwnerAt
    <3>4. QED
      BY <1>s, <1>h, <1>r, <1>o, <2>1, <2>7, <3>3
  <2>8. QED
    BY <2>1, <2>6, <2>7
<1>j. CASE FindEnd
  <2>1. /\ UNCHANGED <<alive, head, data, next, allocated, arg, ptr, node, reader>>
        /\ op = "find" /\ op' = "found" /\ ptr = NULL
    BY <1>j DEF FindEnd, list
  <2>2. PICK k \in 1..(Len(s) + 1) : ptr = At(s, k) /\ NoneBefore(s, k)
    BY <1>l, <2>1 DEF OwnerAt
  <2>3. k = Len(s) + 1
    BY <1>l, <2>1, <2>2, AtPointer
  <2>4. alive /\ rPc = "idle" /\ rPc' = "idle" /\ arg \in Data /\ node = NULL
    BY <1>l, <2>1 DEF OwnerAt, reader
  <2>5. NoneBefore(s, Len(s) + 1)'
    BY <2>1, <2>2, <2>3 DEF NoneBefore
  <2>6. OwnerAt(s)'
    BY <2>1, <2>4, <2>5 DEF OwnerAt
  <2>7. QED
    BY <1>s, <1>h, <1>r, <1>o, <2>1, <2>6
<1>m. CASE FindReturn
  <2>1. UNCHANGED <<alive, head, data, next, allocated, reader>>
        /\ op = "found" /\ op' = "idle" /\ node' = NULL
    BY <1>m DEF FindReturn, Done, list
  <2>2. alive
    BY <1>l, <2>1 DEF OwnerAt
  <2>3. OwnerAt(s)'
    BY <2>1, <2>2 DEF OwnerAt
  <2>4. QED
    BY <1>s, <1>h, <1>r, <1>o, <2>1, <2>3
<1>n. CASE AppendStart
  <2>1. UNCHANGED <<alive, head, data, next, allocated, node, reader>>
        /\ op = "idle" /\ op' = "append" /\ alive /\ ptr' = head /\ arg' \in Data
    BY <1>n DEF AppendStart, Idle, list
  <2>2. 1 \in 1..(Len(s) + 1) /\ ptr' = At(s, 1) /\ (1 > Len(s) => Len(s) = 0)
    BY <1>l, <2>1 DEF Linked
  <2>3. OwnerAt(s)'
    BY <1>l, <2>1, <2>2 DEF OwnerAt
  <2>4. QED
    BY <1>s, <1>h, <1>r, <1>o, <2>1, <2>3
<1>p. CASE AppendWalk
  <2>1. UNCHANGED <<alive, head, data, next, allocated, op, arg, node, reader>>
        /\ op = "append" /\ ptr # NULL /\ next[ptr] # NULL /\ ptr' = next[ptr]
    BY <1>p DEF AppendWalk, list
  <2>2. PICK k \in 1..(Len(s) + 1) : ptr = At(s, k)
    BY <1>l, <2>1 DEF OwnerAt
  <2>3. k \in 1..Len(s) /\ next[ptr] = At(s, k + 1)
    BY <1>l, <2>1, <2>2, FollowTyped
  <2>4. k + 1 \in 1..Len(s) /\ k + 1 \in 1..(Len(s) + 1)
    BY <1>l, <2>1, <2>3, AtPointer
  <2>5. ptr' = At(s, k + 1) /\ ~(k + 1 > Len(s))
    BY <1>l, <2>1, <2>3, <2>4
  <2>6. OwnerAt(s)'
    BY <1>l, <2>1, <2>4, <2>5 DEF OwnerAt
  <2>7. QED
    BY <1>s, <1>h, <1>r, <1>o, <2>1, <2>6
<1>q. CASE AppendAlloc
  <2>1. UNCHANGED <<alive, head, data, next, reader>>
        /\ op = "append" /\ (ptr \in Cells => next[ptr] = NULL)
    BY <1>q DEF AppendAlloc
  <2>2. PICK k \in 1..(Len(s) + 1) : ptr = At(s, k) /\ (k > Len(s) => Len(s) = 0)
    BY <1>l, <2>1 DEF OwnerAt
  <2>3. ptr = At(s, Len(s))
    <3>1. CASE k \in 1..Len(s)
      <4>1. ptr = s[k] /\ s[k] \in Cells /\ next[s[k]] = At(s, k + 1)
        BY <1>l, <2>2, <3>1 DEF Linked, At
      <4>2. At(s, k + 1) = NULL
        BY <2>1, <4>1
      <4>3. k = Len(s)
        BY <1>l, <3>1, <4>2, AtPointer
      <4>4. QED
        BY <2>2, <4>3
    <3>2. CASE k \notin 1..Len(s)
      BY <1>l, <2>2, <3>2 DEF At
    <3>3. QED
      BY <3>1, <3>2
  <2>4. alive /\ arg \in Data
    BY <1>l, <2>1 DEF OwnerAt
  <2>5. CASE Done /\ UNCHANGED allocated
    <3>1. OwnerAt(s)'
      BY <2>1, <2>4, <2>5 DEF OwnerAt, Done
    <3>2. op' = "idle"
      BY <2>5 DEF Done
    <3>3. QED
      BY <1>s, <1>h, <1>r, <1>o, <2>1, <2>5, <3>1, <3>2
  <2>6. CASE ~(Done /\ UNCHANGED allocated)
    <3>1. PICK c \in Cells \ allocated :
              /\ allocated' = allocated \cup {c} /\ node' = c /\ op' = "fill"
              /\ UNCHANGED <<arg, ptr>>
      BY <1>q, <2>6 DEF AppendAlloc
    <3>2. Owned(s)'
      BY <1>l, <2>1, <3>1 DEF Owned
    <3>3. OwnerAt(s)'
      BY <2>1, <2>3, <2>4, <3>1 DEF OwnerAt
    <3>4. QED
      BY <1>s, <1>h, <1>r, <2>1, <3>2, <3>3
  <2>7. QED
    BY <2>5, <2>6
<1>t. CASE AppendFill
  <2>1. /\ op = "fill" /\ op' = "link" /\ UNCHANGED <<alive, head, allocated, arg, ptr, node, reader>>
        /\ data' = [data EXCEPT ![node] = arg] /\ next' = [next EXCEPT ![node] = NULL]
    BY <1>t DEF AppendFill
  <2>2. /\ node \in Cells /\ ptr = At(s, Len(s)) /\ arg \in Data /\ alive
        /\ \A i \in 1..Len(s) : s[i] # node /\ s[i] \in Cells
    BY <1>l, <2>1 DEF OwnerAt, Owned, TypeOK
  <2>4. Linked(s)'
    BY <1>t, FillPath
  <2>5. Owned(s)'
    BY <1>l, <2>1 DEF Owned
  <2>6. data'[node'] = arg' /\ next'[node'] = NULL
    BY <2>1, <2>2 DEF TypeOK
  <2>7. OwnerAt(s)'
    BY <2>1, <2>2, <2>6 DEF OwnerAt
  <2>8. QED
    BY <1>s, <1>r, <2>1, <2>4, <2>5, <2>7
<1>u. CASE AppendLink
  <2>1. op = "link" /\ op' = "idle" /\ node' = NULL /\ UNCHANGED <<alive, reader>>
    BY <1>u DEF AppendLink, Done
  <2>2. alive /\ node \in Cells
    BY <1>l, <2>1 DEF OwnerAt, Owned, TypeOK
  <2>c. PICK c \in Cells : c = node
    BY <2>2
  <2>3. Append(s, c) \in Seq(Cells) /\ Linked(Append(s, c))' /\ Owned(Append(s, c))'
    BY <1>u, <2>c, LinkPath
  <2> DEFINE t == Append(s, c)
  <2>t. t = Append(s, c)
    OBVIOUS
  <2> HIDE DEF t
  <2>4. Len(t) = Len(s) + 1 /\ \A i \in 1..Len(s) : t[i] = s[i]
    BY <2>t, AppendPlaces
  <2>5. \A x : OwnerAt(x)'
    BY <2>1, <2>2 DEF OwnerAt
  <2>6. ReaderAt(t)'
    <3> SUFFICES ASSUME rPc' = "walk"
                 PROVE  /\ rMin <= Len(t) /\ rLen <= Len(t)
                        /\ \/ rPtr = NULL /\ rMin <= rLen
                           \/ rLen < Len(t) /\ rPtr = t[rLen + 1]
      BY <2>1 DEF ReaderAt, reader
    <3>1. /\ rMin <= Len(s) /\ rLen <= Len(s) /\ rMin \in Nat /\ rLen \in Nat
          /\ \/ rPtr = NULL /\ rMin <= rLen
             \/ rLen < Len(s) /\ rPtr = s[rLen + 1]
      BY <1>l, <2>1 DEF ReaderAt, reader, TypeOK
    <3>2. rLen < Len(s) => rLen < Len(t) /\ t[rLen + 1] = s[rLen + 1]
      BY <1>l, <2>4, <3>1
    <3>3. QED
      BY <1>l, <2>4, <3>1, <3>2
  <2>7. QED
    BY <1>k, <2>3, <2>5, <2>6 DEF t
<1>v. CASE ReaderStart
  <2>1. /\ UNCHANGED <<alive, head, data, next, allocated, op, arg, ptr, node>>
        /\ alive /\ op \notin {"destroy", "find", "found"}
        /\ rPtr' = head /\ rLen' = 0 /\ rMin' = Len(Nodes)
    BY <1>v DEF ReaderStart, list, owner
  <2>2. rMin' = Len(s) /\ head = At(s, 1)
    BY <1>l, <2>1, NodesPath DEF Linked
  <2>3. ReaderAt(s)'
    <3>1. CASE Len(s) = 0
      <4>1. At(s, 1) = NULL
        BY <3>1 DEF At
      <4>2. QED
        BY <2>1, <2>2, <3>1, <4>1 DEF ReaderAt
    <3>2. CASE Len(s) # 0
      <4>1. At(s, 1) = s[1] /\ 0 < Len(s) /\ 0 + 1 = 1
        BY <1>l, <3>2 DEF At
      <4>2. QED
        BY <1>l, <2>1, <2>2, <4>1 DEF ReaderAt
    <3>3. QED
      BY <3>1, <3>2
  <2>4. Owned(s)'
    BY <1>l, <2>1 DEF Owned
  <2>5. \A k : NoneBefore(s, k)' <=> NoneBefore(s, k)
    BY <2>1 DEF NoneBefore
  <2>6. OwnerAt(s)'
    BY <1>l, <2>1, <2>5 DEF OwnerAt
  <2>7. QED
    BY <1>s, <1>h, <2>1, <2>3, <2>4, <2>6
<1>w. CASE ReaderStep
  <2>1. /\ UNCHANGED <<alive, head, data, next, allocated, op, arg, ptr, node>>
        /\ rPc = "walk" /\ rPc' = "walk" /\ rPtr # NULL
        /\ rPtr' = next[rPtr] /\ rLen' = rLen + 1 /\ rMin' = rMin
    BY <1>w DEF ReaderStep, list, owner
  <2>2. rLen < Len(s) /\ rPtr = s[rLen + 1] /\ rMin <= Len(s) /\ rLen \in Nat /\ rMin \in Nat
    BY <1>l, <2>1 DEF ReaderAt, TypeOK
  <2>3. rLen + 1 \in 1..Len(s)
    BY <1>l, <2>2
  <2>4. rPtr' = At(s, (rLen + 1) + 1)
    BY <1>l, <2>1, <2>2, <2>3 DEF Linked
  <2>5. ReaderAt(s)'
    <3>1. CASE rLen + 1 = Len(s)
      <4>1. rPtr' = NULL
        BY <1>l, <2>4, <3>1 DEF At
      <4>2. QED
        BY <1>l, <2>1, <2>2, <3>1, <4>1 DEF ReaderAt
    <3>2. CASE rLen + 1 # Len(s)
      <4>1. (rLen + 1) + 1 \in 1..Len(s)
        BY <1>l, <2>2, <3>2
      <4>2. rPtr' = s[rLen' + 1] /\ rLen' < Len(s)
        BY <1>l, <2>1, <2>2, <2>4, <4>1 DEF At
      <4>3. QED
        BY <1>l, <2>1, <2>2, <4>2 DEF ReaderAt
    <3>3. QED
      BY <3>1, <3>2
  <2>6. Owned(s)'
    BY <1>l, <2>1 DEF Owned
  <2>7. \A k : NoneBefore(s, k)' <=> NoneBefore(s, k)
    BY <2>1 DEF NoneBefore
  <2>8. OwnerAt(s)'
    BY <1>l, <2>1, <2>7 DEF OwnerAt
  <2>9. QED
    BY <1>s, <1>h, <2>1, <2>5, <2>6, <2>8
<1>x. CASE ReaderEnd
  <2>1. /\ UNCHANGED <<alive, head, data, next, allocated, op, arg, ptr, node>>
        /\ rPc = "walk" /\ rPc' = "idle"
    BY <1>x DEF ReaderEnd, list, owner
  <2>2. Owned(s)' /\ ReaderAt(s)'
    BY <1>l, <2>1 DEF Owned, ReaderAt
  <2>3. \A k : NoneBefore(s, k)' <=> NoneBefore(s, k)
    BY <2>1 DEF NoneBefore
  <2>4. OwnerAt(s)'
    BY <1>l, <2>1, <2>3 DEF OwnerAt
  <2>5. QED
    BY <1>s, <1>h, <2>1, <2>2, <2>4
<1>y. CASE UNCHANGED vars
  <2>1. UNCHANGED <<alive, head, data, next, allocated, op, arg, ptr, node, rPc, rPtr, rLen, rMin>>
    BY <1>y DEF vars, list, owner, reader
  <2>2. Owned(s)' /\ ReaderAt(s)'
    BY <1>l, <2>1 DEF Owned, ReaderAt
  <2>3. \A k : NoneBefore(s, k)' <=> NoneBefore(s, k)
    BY <2>1 DEF NoneBefore
  <2>4. OwnerAt(s)'
    BY <1>l, <2>1, <2>3 DEF OwnerAt
  <2>5. QED
    BY <1>s, <1>h, <2>1, <2>2, <2>4
<1>z. QED
  BY <1>a, <1>b, <1>c, <1>d, <1>e, <1>f, <1>g, <1>i, <1>j, <1>m, <1>n, <1>p, <1>q, <1>t,
     <1>u, <1>v, <1>w, <1>x, <1>y
  DEF Next

-----------------------------------------------------------------------------
(* What follows from the path.                                             *)

\* The data along the path.
DataOf(s, dt) == [i \in 1..Len(s) |-> dt[s[i]]]

\* The list's contents are the data along its path.
LEMMA ContentsPath ==
    \A s \in Seq(Cells) : Linked(s) => Contents = DataOf(s, data) /\ Contents \in Seq(Data)
<1> SUFFICES ASSUME NEW s \in Seq(Cells), Linked(s)
             PROVE  Contents = DataOf(s, data) /\ Contents \in Seq(Data)
  OBVIOUS
<1>1. Nodes = s /\ DOMAIN s = 1..Len(s) /\ Len(s) \in Nat
  BY NodesPath
<1>2. Contents = [i \in 1..Len(s) |-> data[s[i]]]
  BY <1>1 DEF Contents
<1>3. \A i \in 1..Len(s) : data[s[i]] \in Data
  BY DEF Linked
<1>4. QED
  BY <1>1, <1>2, <1>3 DEF DataOf

\* The same in the state after a step.
LEMMA ContentsPathAfter ==
    (\A s \in Seq(Cells) : Linked(s) => Contents = DataOf(s, data) /\ Contents \in Seq(Data))'
BY ContentsPath, PTL

\* Unlinking the first node takes the first datum away.
LEMMA UnlinkContents ==
    ASSUME TypeOK, NEW s \in Seq(Cells), Linked(s), Owned(s),
           op \notin {"fill", "link"}, op' = op, UnlinkFirst
    PROVE  Contents # <<>> /\ Contents' = Tail(Contents)
<1> DEFINE t == Tail(s)
<1>1. Len(s) > 0 /\ Len(s) \in Nat /\ t \in Seq(Cells) /\ Linked(t)'
  BY UnlinkPath
<1>2. Len(t) = Len(s) - 1 /\ \A i \in 1..Len(t) : i + 1 \in 1..Len(s) /\ t[i] = s[i + 1]
  BY <1>1, TailPlaces
<1>3. Contents = DataOf(s, data) /\ Contents \in Seq(Data)
  BY ContentsPath
<1>4. Contents' = DataOf(t, data') /\ Contents' \in Seq(Data)
  BY <1>1, ContentsPathAfter
<1> HIDE DEF t
<1>5. head = s[1] /\ s[1] \in Cells
  BY <1>1 DEF Linked, At
<1>6. data' = [data EXCEPT ![s[1]] = Junk]
  BY <1>5 DEF UnlinkFirst
<1>7. ASSUME NEW i \in 1..Len(t) PROVE data'[t[i]] = data[s[i + 1]]
  <2>1. i + 1 \in 1..Len(s) /\ t[i] = s[i + 1] /\ i + 1 # 1 /\ 1 \in 1..Len(s)
    BY <1>1, <1>2
  <2>2. s[i + 1] # s[1] /\ s[i + 1] \in Cells
    BY <2>1 DEF Linked
  <2>3. QED
    BY <1>6, <2>1, <2>2 DEF TypeOK
<1>8. Len(Contents) = Len(s) /\ \A i \in 1..Len(s) : Contents[i] = data[s[i]]
  BY <1>1, <1>3 DEF DataOf
<1>9. Len(Contents') = Len(t) /\ \A i \in 1..Len(t) : Contents'[i] = data[s[i + 1]]
  BY <1>1, <1>2, <1>4, <1>7 DEF DataOf
<1>10. Contents # <<>>
  BY <1>1, <1>8
<1> DEFINE u == Tail(Contents)
<1>11. /\ u \in Seq(Data) /\ Len(u) = Len(t)
       /\ \A i \in 1..Len(t) : u[i] = data[s[i + 1]]
  BY <1>1, <1>2, <1>3, <1>8, <1>10
<1> HIDE DEF u
<1>12. Contents' = u
  BY <1>4, <1>9, <1>11
<1>13. QED
  BY <1>10, <1>12 DEF u

\* A node put in front puts its datum in front.
LEMMA PrependContents ==
    ASSUME TypeOK, NEW s \in Seq(Cells), Path(s), Prepend
    PROVE  \E d \in Data : Contents' = <<d>> \o Contents
<1>1. PICK c \in Cells \ allocated, d \in Data :
            /\ data' = [data EXCEPT ![c] = d] /\ next' = [next EXCEPT ![c] = head]
            /\ allocated' = allocated \cup {c} /\ head' = c
  BY DEF Prepend
<1>2. op = "idle" /\ op' = op /\ Linked(s) /\ Owned(s) /\ Len(s) \in Nat
  BY DEF Prepend, Exclusive, Idle, owner, Path
<1> DEFINE t == <<c>> \o s
<1>3. t \in Seq(Cells) /\ Linked(t)'
  BY <1>1, <1>2, PrependPath
<1>4. Len(t) = Len(s) + 1 /\ t[1] = c /\ \A i \in 2..Len(t) : i - 1 \in 1..Len(s) /\ t[i] = s[i - 1]
  BY PrependPlaces
<1>5. Contents = DataOf(s, data) /\ Contents \in Seq(Data)
  BY <1>2, ContentsPath
<1>6. Contents' = DataOf(t, data') /\ Contents' \in Seq(Data)
  BY <1>3, ContentsPathAfter
<1> HIDE DEF t
<1>7. data'[c] = d
  BY <1>1 DEF TypeOK
<1>8. ASSUME NEW i \in 2..Len(t) PROVE data'[t[i]] = data[s[i - 1]]
  <2>1. i - 1 \in 1..Len(s) /\ t[i] = s[i - 1]
    BY <1>4
  <2>2. s[i - 1] \in allocated /\ s[i - 1] \in Cells
    BY <1>2, <2>1 DEF Owned
  <2>3. QED
    BY <1>1, <2>1, <2>2 DEF TypeOK
<1>9. Len(Contents) = Len(s) /\ \A i \in 1..Len(s) : Contents[i] = data[s[i]]
  BY <1>2, <1>5 DEF DataOf
<1>10. /\ Len(Contents') = Len(s) + 1 /\ Contents'[1] = d
       /\ \A i \in 2..(Len(s) + 1) : Contents'[i] = data[s[i - 1]]
  BY <1>2, <1>4, <1>6, <1>7, <1>8 DEF DataOf
<1> DEFINE u == <<d>> \o Contents
<1>11. u \in Seq(Data) /\ Len(u) = Len(s) + 1 /\ u[1] = d
  BY <1>5, <1>9
<1>12. \A i \in 2..(Len(s) + 1) : u[i] = Contents[i - 1] /\ i - 1 \in 1..Len(s)
  BY <1>2, <1>5, <1>9
<1> HIDE DEF u
<1>13. \A i \in 1..(Len(s) + 1) : i = 1 \/ i \in 2..(Len(s) + 1)
  BY <1>2
<1>14. \A i \in 1..(Len(s) + 1) : u[i] = Contents'[i]
  BY <1>9, <1>10, <1>11, <1>12, <1>13
<1>15. Contents' = u
  BY <1>6, <1>10, <1>11, <1>14
<1>16. QED
  BY <1>15 DEF u

\* Linking the new node puts the datum of the call at the end.
LEMMA LinkContents ==
    ASSUME TypeOK, NEW s \in Seq(Cells), Path(s), AppendLink
    PROVE  arg \in Data /\ Contents' = Append(Contents, arg)
<1>1. op = "link" /\ data' = data
  BY DEF AppendLink
<1>2. /\ Linked(s) /\ Len(s) \in Nat /\ arg \in Data /\ data[node] = arg
      /\ node \in Cells
  BY <1>1 DEF Path, OwnerAt, Owned, TypeOK
<1>c. PICK c \in Cells : c = node
  BY <1>2
<1> DEFINE t == Append(s, c)
<1>3. t \in Seq(Cells) /\ Linked(t)'
  BY <1>c, LinkPath
<1>4. Len(t) = Len(s) + 1 /\ t[Len(t)] = node /\ \A i \in 1..Len(s) : t[i] = s[i]
  BY <1>c, AppendPlaces
<1>5. Contents = DataOf(s, data) /\ Contents \in Seq(Data)
  BY <1>2, ContentsPath
<1>6. Contents' = DataOf(t, data) /\ Contents' \in Seq(Data)
  BY <1>1, <1>3, ContentsPathAfter
<1> HIDE DEF t
<1>7. Len(Contents) = Len(s) /\ \A i \in 1..Len(s) : Contents[i] = data[s[i]]
  BY <1>2, <1>5 DEF DataOf
<1>8. /\ Len(Contents') = Len(s) + 1 /\ Contents'[Len(s) + 1] = arg
      /\ \A i \in 1..Len(s) : Contents'[i] = data[s[i]]
  BY <1>2, <1>4, <1>6 DEF DataOf
<1> DEFINE u == Append(Contents, arg)
<1>9. /\ u \in Seq(Data) /\ Len(u) = Len(s) + 1 /\ u[Len(s) + 1] = arg
      /\ \A i \in 1..Len(s) : u[i] = Contents[i]
  BY <1>2, <1>5, <1>7
<1> HIDE DEF u
<1>10. \A i \in 1..(Len(s) + 1) : i = Len(s) + 1 \/ i \in 1..Len(s)
  BY <1>2
<1>11. \A i \in 1..(Len(s) + 1) : u[i] = Contents'[i]
  BY <1>7, <1>8, <1>9, <1>10
<1>12. Contents' = u
  BY <1>6, <1>8, <1>9, <1>11
<1>13. QED
  BY <1>2, <1>12 DEF u

\* Every step changes the contents as ListSpec allows, or not at all.
LEMMA NextContents == TypeOK /\ PathInv /\ [Next]_vars => [Abstract!Next]_Contents
<1> SUFFICES ASSUME TypeOK, NEW s \in Seq(Cells), Path(s), [Next]_vars
             PROVE  [Abstract!Next]_Contents
  BY DEF PathInv
<1>l. Linked(s) /\ Owned(s)
  BY DEF Path
<1>u. ASSUME UNCHANGED <<head, data, next>> PROVE Contents' = Contents
  <2>1. Linked(s)'
    BY <1>l, <1>u DEF Linked
  <2>2. Contents' = DataOf(s, data') /\ Contents = DataOf(s, data)
    BY <1>l, <2>1, ContentsPath, ContentsPathAfter
  <2>3. QED
    BY <1>u, <2>2
<1>a. CASE Create
  <2>1. head' = NULL /\ UNCHANGED <<data, next>> /\ head = NULL
    BY <1>a DEF Create, Path, OwnerAt
  <2>2. QED
    BY <1>u, <2>1
<1>b. CASE Prepend
  BY <1>b, PrependContents DEF Abstract!Next, Abstract!Prepend
<1>c. CASE RemoveFirst \/ DestroyStep
  <2>1. UnlinkFirst /\ op' = op /\ op \notin {"fill", "link"}
    BY <1>c DEF RemoveFirst, DestroyStep, Exclusive, Idle, owner
  <2>2. Contents # <<>> /\ Contents' = Tail(Contents)
    BY <1>l, <2>1, UnlinkContents
  <2>3. QED
    BY <2>2 DEF Abstract!Next, Abstract!RemoveFirst
<1>d. CASE AppendFill
  <2>1. Linked(s)' /\ \A i \in 1..Len(s) : data'[s[i]] = data[s[i]]
    BY <1>d, FillPath
  <2>2. Contents' = DataOf(s, data') /\ Contents = DataOf(s, data)
    BY <1>l, <2>1, ContentsPath, ContentsPathAfter
  <2>3. Contents' = Contents
    BY <2>1, <2>2 DEF DataOf
  <2>4. QED
    BY <2>3
<1>e. CASE AppendLink
  <2>1. arg \in Data /\ Contents' = Append(Contents, arg)
    BY <1>e, LinkContents
  <2>2. QED
    BY <2>1 DEF Abstract!Next, Abstract!AppendLast
<1>f. CASE \/ DestroyStart \/ DestroyEnd \/ FindStart \/ FindStep \/ FindEnd \/ FindReturn
           \/ AppendStart \/ AppendWalk \/ AppendAlloc
           \/ ReaderStart \/ ReaderStep \/ ReaderEnd \/ UNCHANGED vars
  <2>1. UNCHANGED <<head, data, next>>
    BY <1>f DEF DestroyStart, DestroyEnd, FindStart, FindStep, FindEnd, FindReturn, AppendStart,
                AppendWalk, AppendAlloc, ReaderStart, ReaderStep, ReaderEnd, vars, list
  <2>2. QED
    BY <1>u, <2>1
<1>g. QED
  BY <1>a, <1>b, <1>c, <1>d, <1>e, <1>f DEF Next

\* With the owner and the reader on the path, the properties hold.
LEMMA PathProperties ==
    TypeOK /\ PathInv =>
        NoLostNode /\ ReaderSeesOnlyWholeNodes /\ ReaderCountsSnapshot /\ FindsFirst
<1> SUFFICES ASSUME TypeOK, NEW s \in Seq(Cells), Path(s)
             PROVE  NoLostNode /\ ReaderSeesOnlyWholeNodes /\ ReaderCountsSnapshot /\ FindsFirst
  BY DEF PathInv
<1>1. /\ Linked(s) /\ Owned(s) /\ OwnerAt(s) /\ ReaderAt(s)
      /\ Len(s) \in Nat /\ Nodes = s /\ DOMAIN Nodes = 1..Len(s)
  BY NodesPath DEF Path
<1>2. NoLostNode
  <2> DEFINE new == IF op \in {"fill", "link"} THEN {node} ELSE {}
  <2>1. allocated \subseteq {s[i] : i \in 1..Len(s)} \cup new
    BY <1>1 DEF Owned
  <2>2. {s[i] : i \in 1..Len(s)} \cup new \subseteq allocated
    BY <1>1 DEF Owned
  <2>3. allocated = {s[i] : i \in 1..Len(s)} \cup new
    <3> HIDE DEF new
    <3>1. QED
      BY <2>1, <2>2
  <2>4. QED
    BY <1>1, <2>3 DEF NoLostNode
<1>3. ReaderSeesOnlyWholeNodes
  <2> SUFFICES ASSUME rPc = "walk", rPtr # NULL
               PROVE  rPtr \in allocated /\ data[rPtr] \in Data /\ next[rPtr] \in Pointer
    BY DEF ReaderSeesOnlyWholeNodes
  <2>1. rLen < Len(s) /\ rPtr = s[rLen + 1] /\ rLen \in Nat
    BY <1>1 DEF ReaderAt, TypeOK
  <2>2. rLen + 1 \in 1..Len(s) /\ rLen + 1 \in Nat /\ At(s, rLen + 1) = rPtr
    BY <1>1, <2>1 DEF At
  <2>3. data[rPtr] \in Data /\ next[rPtr] \in Pointer
    BY <1>1, <2>1, <2>2, FollowTyped
  <2>4. QED
    BY <1>1, <2>1, <2>2, <2>3 DEF Owned
<1>4. ReaderCountsSnapshot
  <2> SUFFICES ASSUME rPc = "walk", rPtr = NULL PROVE rLen \in rMin..Len(Nodes)
    BY DEF ReaderCountsSnapshot
  <2>1. rLen \in Nat /\ rMin \in Nat /\ rLen <= Len(s)
    BY <1>1 DEF ReaderAt, TypeOK
  <2>2. ASSUME rLen < Len(s), rPtr = s[rLen + 1] PROVE FALSE
    <3>1. rLen + 1 \in 1..Len(s)
      BY <1>1, <2>1, <2>2
    <3>2. s[rLen + 1] \in Cells
      BY <3>1
    <3>3. QED
      BY <2>2, <3>2, ConstantsAssumption
  <2>3. rMin <= rLen
    BY <1>1, <2>2 DEF ReaderAt
  <2>4. QED
    BY <1>1, <2>1, <2>3
<1>5. FindsFirst
  <2> SUFFICES ASSUME op = "found"
               PROVE  IF node = NULL THEN \A i \in DOMAIN Contents : Contents[i] # arg
                      ELSE \E i \in DOMAIN Contents :
                              /\ Nodes[i] = node /\ Contents[i] = arg
                              /\ \A j \in 1..(i - 1) : Contents[j] # arg
    BY DEF FindsFirst
  <2>1. DOMAIN Contents = 1..Len(s) /\ \A i \in 1..Len(s) : Contents[i] = data[s[i]]
    BY <1>1 DEF Contents
  <2>2. CASE node = NULL /\ NoneBefore(s, Len(s) + 1)
    <3>1. \A i \in 1..Len(s) : i \in 1..((Len(s) + 1) - 1)
      BY <1>1
    <3>2. QED
      BY <2>1, <2>2, <3>1 DEF NoneBefore
  <2>3. ASSUME NEW k \in 1..Len(s), node = s[k], data[s[k]] = arg, NoneBefore(s, k)
        PROVE  /\ node # NULL
               /\ Nodes[k] = node /\ Contents[k] = arg
               /\ \A j \in 1..(k - 1) : Contents[j] # arg
    <3>1. s[k] \in Cells
      BY <2>3
    <3>2. \A j \in 1..(k - 1) : j \in 1..Len(s)
      BY <1>1
    <3>3. QED
      BY <1>1, <2>1, <2>3, <3>1, <3>2, ConstantsAssumption DEF NoneBefore
  <2>4. QED
    BY <1>1, <2>1, <2>2, <2>3 DEF OwnerAt
<1>6. QED
  BY <1>2, <1>3, <1>4, <1>5

-----------------------------------------------------------------------------
\* A typed list with a path stays one.
LEMMA ListInvariant == Spec => [](TypeOK /\ PathInv)
<1>1. Init => TypeOK /\ PathInv
  BY InitTypeOK, InitPath
<1>2. TypeOK /\ PathInv /\ [Next]_vars => (TypeOK /\ PathInv)'
  BY NextTypeOK, NextPath
<1>3. QED
  BY <1>1, <1>2, PTL DEF Spec

\* In any memory, no pointer of the list, its owner or its reader is ever read
\* from a cell that was freed or not yet written.
THEOREM ListTypeCorrect == Spec => []TypeOK
<1>1. QED
  BY ListInvariant, PTL

\* Whatever the owner does and in whatever order, the nodes malloc gave out are the
\* nodes reached from the head and the one about to be linked: none is lost or
\* freed twice, and none is reached after it was freed.
THEOREM ListLosesNoNode == Spec => []NoLostNode
<1>1. QED
  BY ListInvariant, PathProperties, PTL

\* A thread that walks the list while the miner appends to it without the mutex
\* is only ever at complete nodes that are in use.
THEOREM ReaderIsSafe == Spec => []ReaderSeesOnlyWholeNodes
<1>1. QED
  BY ListInvariant, PathProperties, PTL

\* The length it comes to is one the list had during the walk.
THEOREM ReaderIsExact == Spec => []ReaderCountsSnapshot
<1>1. QED
  BY ListInvariant, PathProperties, PTL

\* linked_list_find returns the first node that matches, and NULL just if none does.
THEOREM FindIsExact == Spec => []FindsFirst
<1>1. QED
  BY ListInvariant, PathProperties, PTL

\* linked_list.c implements the sequence of ListSpec: seen through its pointers,
\* each operation changes the list at one end in one step, whatever a reader does.
THEOREM ListImplementsSequence == Spec => IsList
<1>1. Init => Abstract!Init
  <2> SUFFICES ASSUME Init PROVE Contents = <<>>
    BY DEF Abstract!Init
  <2>1. At(<<>>, 1) = NULL /\ Len(<<>>) = 0
    BY DEF At
  <2>2. Linked(<<>>) /\ <<>> \in Seq(Cells)
    BY <2>1 DEF Init, Linked
  <2>3. Contents = DataOf(<<>>, data)
    BY <2>2, ContentsPath
  <2>4. QED
    BY <2>1, <2>3 DEF DataOf
<1>2. TypeOK /\ PathInv /\ [Next]_vars => [Abstract!Next]_Contents
  BY NextContents
<1>3. Spec => Abstract!Spec
  BY <1>1, <1>2, ListInvariant, PTL DEF Spec, Abstract!Spec
<1>4. QED
  BY <1>3 DEF IsList
=============================================================================
