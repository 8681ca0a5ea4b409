---------------------------- MODULE TransferProofs ----------------------------
(***************************************************************************)
(* The transfer of a message or a chain for all messages and chains whose    *)
(* values fit their fields, bytes of any base and signatures of any size.    *)
(*                                                                         *)
(* That a buffer holds an encoding at an offset is all that is ever needed   *)
(* of the formats: a concatenation holds its parts, a flattened sequence     *)
(* each element behind those before it, and what is held by a part is held   *)
(* by the whole.  The invariant says which encoding is held at the decoder's *)
(* position, and that what it has built so far is what was encoded before.   *)
(***************************************************************************)
EXTENDS Transfer, LeastElement, FiniteSetTheorems, TLAPS

\* The buffer b holds the bytes e behind the first o.
Holds(b, o, e) ==
    /\ o + Len(e) <= Len(b)
    /\ \A j \in 1..Len(e) : b[o + j] = e[j]

\* Where the elements of s begin in FlattenSeq(s), and where the last one ends.
IsOffsets(s, off) ==
    /\ off \in [0..Len(s) -> Nat]
    /\ off[0] = 0 /\ off[Len(s)] = Len(FlattenSeq(s))
    /\ \A k \in 1..Len(s) : /\ off[k] = off[k - 1] + Len(s[k])
                            /\ Holds(FlattenSeq(s), off[k - 1], s[k])

Offsets(s) == CHOOSE off : IsOffsets(s, off)

-----------------------------------------------------------------------------
(* Buffers.                                                                *)

\* What a part of a buffer holds, the buffer holds.
LEMMA HoldsPart ==
    ASSUME NEW b, NEW o \in Nat, NEW e, NEW p \in Nat, NEW x,
           Len(b) \in Nat, Len(e) \in Nat, Len(x) \in Nat,
           Holds(b, o, e), Holds(e, p, x)
    PROVE  Holds(b, o + p, x)
<1>1. (o + p) + Len(x) <= Len(b)
  BY DEF Holds
<1>2. ASSUME NEW j \in 1..Len(x) PROVE b[(o + p) + j] = x[j]
  <2>0. p + Len(x) <= Len(e) /\ e[p + j] = x[j]
    BY DEF Holds
  <2>1. p + j \in 1..Len(e) /\ e[p + j] = x[j]
    BY <2>0
  <2>2. b[o + (p + j)] = e[p + j] /\ o + (p + j) = (o + p) + j
    BY <2>1 DEF Holds
  <2>3. QED
    BY <2>1, <2>2
<1>3. QED
  BY <1>1, <1>2 DEF Holds

\* A concatenation holds its parts.
LEMMA HoldsConcat ==
    ASSUME NEW a \in Seq(Nat), NEW b \in Seq(Nat)
    PROVE  /\ a \o b \in Seq(Nat) /\ Len(a \o b) = Len(a) + Len(b)
           /\ Holds(a \o b, 0, a) /\ Holds(a \o b, Len(a), b)
<1>1. a \o b \in Seq(Nat) /\ Len(a \o b) = Len(a) + Len(b) /\ Len(a) \in Nat /\ Len(b) \in Nat
  OBVIOUS
<1>2. \A j \in 1..Len(a) : (a \o b)[j] = a[j]
  OBVIOUS
<1>3. \A j \in 1..Len(b) : (a \o b)[Len(a) + j] = b[j]
  OBVIOUS
<1> DEFINE c == a \o b
<1> HIDE DEF c
<1>4. Holds(c, 0, a)
  <2>1. \A j \in 1..Len(a) : 0 + j = j
    OBVIOUS
  <2>2. \A j \in 1..Len(a) : c[0 + j] = a[j]
    BY <1>2, <2>1 DEF c
  <2>3. 0 + Len(a) <= Len(c)
    BY <1>1 DEF c
  <2>4. QED
    BY <2>2, <2>3 DEF Holds
<1>5. Holds(c, Len(a), b)
  <2>1. Len(a) + Len(b) <= Len(c)
    BY <1>1 DEF c
  <2>2. \A j \in 1..Len(b) : c[Len(a) + j] = b[j]
    BY <1>3 DEF c
  <2>3. QED
    BY <2>1, <2>2 DEF Holds
<1>6. QED
  BY <1>1, <1>4, <1>5 DEF c

-----------------------------------------------------------------------------
(* FlattenSeq.                                                             *)

\* The recursion of FlattenSeq has a solution.
LEMMA FlattenExists ==
    ASSUME NEW s, Len(s) \in Nat
    PROVE  \E f : f = [i \in 1..Len(s) |-> IF i = 1 THEN s[i] ELSE f[i - 1] \o s[i]]
<1> DEFINE Solved(m) == \E f : /\ f = [i \in 1..m |-> f[i]]
                               /\ \A i \in 1..m : f[i] = IF i = 1 THEN s[i] ELSE f[i - 1] \o s[i]
           Bad == {m \in 0..Len(s) : ~Solved(m)}
<1>1. Solved(0)
  <2>1. [i \in 1..0 |-> s[i]] = [i \in 1..0 |-> [j \in 1..0 |-> s[j]][i]]
    OBVIOUS
  <2>2. QED
    BY <2>1
<1>2. ASSUME NEW m \in 1..Len(s), Solved(m - 1) PROVE Solved(m)
  <2>1. PICK f : /\ f = [i \in 1..(m - 1) |-> f[i]]
                 /\ \A i \in 1..(m - 1) : f[i] = IF i = 1 THEN s[i] ELSE f[i - 1] \o s[i]
    BY <1>2
  <2> DEFINE g == [i \in 1..m |-> IF i # m THEN f[i]
                                  ELSE IF i = 1 THEN s[i] ELSE f[i - 1] \o s[i]]
  <2>2. g = [i \in 1..m |-> g[i]]
    OBVIOUS
  <2>3. ASSUME NEW i \in 1..m PROVE g[i] = IF i = 1 THEN s[i] ELSE g[i - 1] \o s[i]
    <3>1. CASE i = m
      <4>1. i # 1 => i - 1 \in 1..m /\ i - 1 # m
        BY <3>1
      <4>2. i # 1 => g[i - 1] = f[i - 1]
        BY <4>1
      <4>3. QED
        BY <3>1, <4>2
    <3>2. CASE i # m
      <4>1. i \in 1..(m - 1) /\ (i # 1 => i - 1 \in 1..m /\ i - 1 # m)
        BY <3>2
      <4>2. g[i] = f[i] /\ (i # 1 => g[i - 1] = f[i - 1])
        BY <3>2, <4>1
      <4>3. QED
        BY <2>1, <4>1, <4>2
    <3>3. QED
      BY <3>1, <3>2
  <2> HIDE DEF g
  <2>4. QED
    BY <2>2, <2>3
<1> HIDE DEF Solved
<1>3. Bad = {}
  <2> SUFFICES ASSUME Bad # {} PROVE FALSE
    OBVIOUS
  <2>1. Bad \subseteq Nat
    OBVIOUS
  <2>2. PICK m \in Bad : \A e \in Bad : m <= e
    BY <2>1, LeastNat
  <2>3. m \in 0..Len(s) /\ ~Solved(m)
    BY <2>2
  <2>4. m # 0
    BY <1>1, <2>3
  <2>5. m - 1 \in 0..Len(s) /\ ~(m <= m - 1) /\ m \in 1..Len(s)
    BY <2>3, <2>4
  <2>6. Solved(m - 1)
    BY <2>2, <2>5
  <2>7. QED
    BY <1>2, <2>3, <2>5, <2>6
<1>4. Solved(Len(s))
  BY <1>3
<1>5. PICK f : /\ f = [i \in 1..Len(s) |-> f[i]]
               /\ \A i \in 1..Len(s) : f[i] = IF i = 1 THEN s[i] ELSE f[i - 1] \o s[i]
  BY <1>4 DEF Solved
<1>6. f = [i \in 1..Len(s) |-> IF i = 1 THEN s[i] ELSE f[i - 1] \o s[i]]
  BY <1>5
<1>7. QED
  BY <1>6

\* FlattenSeq concatenates from the left.
LEMMA FlattenSteps ==
    ASSUME NEW s, Len(s) \in Nat \ {0}
    PROVE  \E f : /\ f[1] = s[1] /\ FlattenSeq(s) = f[Len(s)]
                  /\ \A i \in 2..Len(s) : f[i] = f[i - 1] \o s[i]
<1> DEFINE Solves(f) == f = [i \in 1..Len(s) |-> IF i = 1 THEN s[i] ELSE f[i - 1] \o s[i]]
           g == CHOOSE f : Solves(f)
<1>1. FlattenSeq(s) = g[Len(s)]
  BY DEF FlattenSeq
<1>2. Solves(g)
  <2>1. \E f : Solves(f)
    BY FlattenExists
  <2> HIDE DEF Solves
  <2>2. QED
    BY <2>1
<1> HIDE DEF g
<1>3. \A i \in 1..Len(s) : g[i] = IF i = 1 THEN s[i] ELSE g[i - 1] \o s[i]
  BY <1>2
<1>4. 1 \in 1..Len(s) /\ \A i \in 2..Len(s) : i \in 1..Len(s) /\ i # 1
  OBVIOUS
<1>5. g[1] = s[1] /\ \A i \in 2..Len(s) : g[i] = g[i - 1] \o s[i]
  BY <1>3, <1>4
<1>6. QED
  BY <1>1, <1>5

\* The elements of a sequence lie one behind the other in what FlattenSeq makes of it.
LEMMA FlattenHolds ==
    ASSUME NEW s \in Seq(Seq(Nat))
    PROVE  /\ FlattenSeq(s) \in Seq(Nat) /\ IsOffsets(s, Offsets(s))
           /\ \A k \in 0..Len(s) : Offsets(s)[k] <= Len(FlattenSeq(s))
<1>n. Len(s) \in Nat /\ \A k \in 1..Len(s) : s[k] \in Seq(Nat) /\ Len(s[k]) \in Nat
  OBVIOUS
<1>1. FlattenSeq(s) \in Seq(Nat) /\ \E off : IsOffsets(s, off)
  <2>1. CASE Len(s) = 0
    <3>1. FlattenSeq(s) = s /\ s = <<>>
      BY <2>1 DEF FlattenSeq
    <3> DEFINE zero == [k \in 0..Len(s) |-> 0]
    <3>2. zero \in [0..Len(s) -> Nat] /\ zero[0] = 0 /\ zero[Len(s)] = 0
      BY <2>1
    <3>3. 1..Len(s) = {}
      BY <2>1
    <3>4. IsOffsets(s, zero)
      <4> HIDE DEF zero
      <4>1. QED
        BY <2>1, <3>1, <3>2, <3>3 DEF IsOffsets
    <3>5. QED
      BY <3>1, <3>4
  <2>2. CASE Len(s) # 0
    <3>1. PICK f : /\ f[1] = s[1] /\ FlattenSeq(s) = f[Len(s)]
                   /\ \A i \in 2..Len(s) : f[i] = f[i - 1] \o s[i]
      BY <1>n, <2>2, FlattenSteps
    <3> DEFINE off == [k \in 0..Len(s) |-> IF k = 0 THEN 0 ELSE Len(f[k])]
               Good(m) == /\ f[m] \in Seq(Nat)
                          /\ off[m] = off[m - 1] + Len(s[m])
                          /\ \A k \in 1..m : off[k - 1] \in Nat /\ Holds(f[m], off[k - 1], s[k])
               Bad == {m \in 1..Len(s) : ~Good(m)}
    <3>0. off[0] = 0 /\ \A k \in 1..Len(s) : off[k] = Len(f[k])
      BY <1>n
    <3>d. off = [k \in 0..Len(s) |-> off[k]]
      OBVIOUS
    <3> HIDE DEF off
    <3>2. Good(1)
      <4>1. f[1] \in Seq(Nat) /\ 1 \in 1..Len(s)
        BY <1>n, <2>2, <3>1
      <4>2. off[1] = Len(s[1]) /\ off[1 - 1] = 0
        BY <3>0, <3>1, <4>1
      <4>3. off[1] = off[1 - 1] + Len(s[1])
        BY <1>n, <4>1, <4>2
      <4>4. Holds(f[1], 0, s[1])
        BY <1>n, <3>1, <4>1 DEF Holds
      <4>5. \A k \in 1..1 : k = 1
        OBVIOUS
      <4>6. QED
        BY <4>1, <4>2, <4>3, <4>4, <4>5
    <3>3. ASSUME NEW m \in 2..Len(s), Good(m - 1) PROVE Good(m)
      <4>1. /\ f[m] = f[m - 1] \o s[m] /\ f[m - 1] \in Seq(Nat) /\ s[m] \in Seq(Nat)
            /\ m \in 1..Len(s) /\ m - 1 \in 1..Len(s)
        <5>1. m \in 1..Len(s) /\ m - 1 \in 1..Len(s)
          BY <1>n
        <5>2. f[m - 1] \in Seq(Nat)
          BY <3>3
        <5>3. f[m] = f[m - 1] \o s[m]
          BY <3>1
        <5>4. QED
          BY <1>n, <5>1, <5>2, <5>3
      <4>2. /\ f[m] \in Seq(Nat) /\ Len(f[m]) = Len(f[m - 1]) + Len(s[m])
            /\ Holds(f[m], 0, f[m - 1]) /\ Holds(f[m], Len(f[m - 1]), s[m])
        BY <4>1, HoldsConcat
      <4>3. /\ off[m] = off[m - 1] + Len(s[m]) /\ off[m - 1] = Len(f[m - 1])
            /\ Len(f[m - 1]) \in Nat /\ Len(f[m]) \in Nat
        <5>1. off[m] = Len(f[m]) /\ off[m - 1] = Len(f[m - 1])
          BY <3>0, <4>1
        <5>2. f[m - 1] \in Seq(Nat) /\ f[m] \in Seq(Nat)
          BY <4>1, <4>2
        <5>3. Len(f[m - 1]) \in Nat /\ Len(f[m]) \in Nat
          BY <5>2
        <5>4. QED
          BY <4>2, <5>1, <5>3
      <4>4. ASSUME NEW k \in 1..m PROVE off[k - 1] \in Nat /\ Holds(f[m], off[k - 1], s[k])
        <5>1. CASE k = m
          BY <4>2, <4>3, <5>1
        <5>2. CASE k # m
          <6>1. k \in 1..(m - 1) /\ k \in 1..Len(s)
            BY <1>n, <5>2
          <6>2. off[k - 1] \in Nat /\ Holds(f[m - 1], off[k - 1], s[k])
            BY <3>3, <6>1
          <6>3. Holds(f[m], 0 + off[k - 1], s[k])
            BY <1>n, <4>2, <4>3, <6>1, <6>2, HoldsPart
          <6>4. 0 + off[k - 1] = off[k - 1]
            BY <6>2
          <6>5. QED
            BY <6>2, <6>3, <6>4
        <5>3. QED
          BY <5>1, <5>2
      <4>5. QED
        BY <4>2, <4>3, <4>4
    <3> HIDE DEF Good
    <3>4. Bad = {}
      <4> SUFFICES ASSUME Bad # {} PROVE FALSE
        OBVIOUS
      <4>1. Bad \subseteq Nat
        OBVIOUS
      <4>2. PICK m \in Bad : \A e \in Bad : m <= e
        BY <4>1, LeastNat
      <4>3. m \in 1..Len(s) /\ ~Good(m)
        BY <4>2
      <4>4. m # 1
        BY <3>2, <4>3
      <4>5. m - 1 \in 1..Len(s) /\ ~(m <= m - 1) /\ m \in 2..Len(s)
        BY <1>n, <4>3, <4>4
      <4>6. Good(m - 1)
        BY <4>2, <4>5
      <4>7. QED
        BY <3>3, <4>3, <4>5, <4>6
    <3>5. \A m \in 1..Len(s) : Good(m)
      BY <3>4
    <3>6. Len(s) \in 1..Len(s)
      BY <1>n, <2>2
    <3>7. FlattenSeq(s) \in Seq(Nat) /\ off[Len(s)] = Len(FlattenSeq(s))
      BY <3>0, <3>1, <3>5, <3>6 DEF Good
    <3>8. \A k \in 1..Len(s) : /\ off[k] = off[k - 1] + Len(s[k])
                               /\ Holds(FlattenSeq(s), off[k - 1], s[k])
      BY <3>1, <3>5, <3>6 DEF Good
    <3>9. \A k \in 0..Len(s) : off[k] \in Nat
      <4>1. ASSUME NEW k \in 1..Len(s) PROVE off[k] \in Nat
        <5>1. f[k] \in Seq(Nat)
          BY <3>5 DEF Good
        <5>2. QED
          BY <3>0, <5>1
      <4>2. \A k \in 0..Len(s) : k = 0 \/ k \in 1..Len(s)
        BY <1>n
      <4>3. QED
        BY <3>0, <4>1, <4>2
    <3>10. off \in [0..Len(s) -> Nat]
      BY <3>d, <3>9
    <3>11. IsOffsets(s, off)
      BY <3>0, <3>7, <3>8, <3>10 DEF IsOffsets
    <3>12. QED
      BY <3>7, <3>11
  <2>3. QED
    BY <2>1, <2>2
<1>2. IsOffsets(s, Offsets(s))
  BY <1>1 DEF Offsets
<1>3. ASSUME NEW k \in 0..Len(s) PROVE Offsets(s)[k] <= Len(FlattenSeq(s))
  <2> DEFINE off == Offsets(s)
  <2>1. CASE k = Len(s)
    BY <1>1, <1>2, <2>1 DEF IsOffsets
  <2>2. CASE k # Len(s)
    <3>1. k + 1 \in 1..Len(s) /\ (k + 1) - 1 = k
      BY <1>n, <2>2
    <3>2. Holds(FlattenSeq(s), off[k], s[k + 1]) /\ off[k] \in Nat
      BY <1>2, <3>1 DEF IsOffsets
    <3>3. Len(s[k + 1]) \in Nat /\ Len(FlattenSeq(s)) \in Nat
      BY <1>1, <1>n, <3>1
    <3>4. QED
      BY <3>2, <3>3 DEF Holds
  <2>3. QED
    BY <2>1, <2>2
<1>4. QED
  BY <1>1, <1>2, <1>3

-----------------------------------------------------------------------------
(* Fields.                                                                 *)

\* The bytes of one field, and those of all fields of a group.
EncodeField(kind, v) == IF kind = Num THEN htobe(v) ELSE <<v>>
FieldSeq(layout, vals) == [i \in DOMAIN layout |-> EncodeField(layout[i], vals[i])]

\* How many bytes of a group its first j fields take.
Passed(layout, vals, j) == Offsets(FieldSeq(layout, vals))[j]

\* A field has the size its kind says.
LEMMA FieldSize ==
    ASSUME NEW kind \in {Num, Raw}, NEW v \in Nat
    PROVE  /\ EncodeField(kind, v) \in Seq(Nat)
           /\ Len(EncodeField(kind, v)) = Size(kind) /\ Size(kind) \in {1, 2}
<1>1. v \div Base \in Nat /\ v % Base \in Nat
  BY WireAssumption
<1>2. CASE kind = Num
  BY <1>1, <1>2 DEF EncodeField, htobe, Size
<1>3. CASE kind = Raw
  BY <1>3 DEF EncodeField, Size, Num, Raw
<1>4. QED
  BY <1>2, <1>3

\* Reading a field gives the value that was written.
LEMMA FieldRead ==
    ASSUME NEW b \in Seq(Nat), NEW o \in Nat, NEW kind \in {Num, Raw}, NEW v \in Nat,
           Holds(b, o, EncodeField(kind, v))
    PROVE  FieldAt(b, o, kind) = v
<1>1. CASE kind = Num
  <2>1. EncodeField(kind, v) = <<v \div Base, v % Base>>
    BY <1>1 DEF EncodeField, htobe
  <2>2. v \div Base \in Nat /\ v % Base \in Nat /\ (v \div Base) * Base + (v % Base) = v
    BY WireAssumption
  <2>3. o + 2 <= Len(b) /\ b[o + 1] = v \div Base /\ b[o + 2] = v % Base
    BY <2>1, <2>2 DEF Holds
  <2>4. SubSeq(b, o + 1, o + 2)[1] = b[o + 1] /\ SubSeq(b, o + 1, o + 2)[2] = b[o + 2]
    BY <2>3
  <2>5. FieldAt(b, o, kind) = b[o + 1] * Base + b[o + 2]
    BY <1>1, <2>4 DEF FieldAt, betoh
  <2>6. QED
    BY <2>2, <2>3, <2>5
<1>2. CASE kind = Raw
  <2>1. EncodeField(kind, v) = <<v>>
    BY <1>2 DEF EncodeField, Num, Raw
  <2>2. b[o + 1] = v
    BY <2>1 DEF Holds
  <2>3. QED
    BY <1>2, <2>2 DEF FieldAt, Num, Raw
<1>3. QED
  BY <1>1, <1>2

\* Where the fields of a group are in its encoding.
LEMMA FieldPlaces ==
    ASSUME NEW layout \in Seq({Num, Raw}), NEW vals \in [DOMAIN layout -> Nat]
    PROVE  /\ Encode(layout, vals) \in Seq(Nat)
           /\ \A j \in 0..Len(layout) : Passed(layout, vals, j) \in Nat
           /\ Passed(layout, vals, 0) = 0
           /\ Passed(layout, vals, Len(layout)) = Len(Encode(layout, vals))
           /\ \A j \in 1..Len(layout) :
                 /\ Passed(layout, vals, j) = Passed(layout, vals, j - 1) + Size(layout[j])
                 /\ Holds(Encode(layout, vals), Passed(layout, vals, j - 1),
                          EncodeField(layout[j], vals[j]))
<1> DEFINE s == FieldSeq(layout, vals)
<1>1. DOMAIN layout = 1..Len(layout) /\ Len(layout) \in Nat
  OBVIOUS
<1>2. \A j \in 1..Len(layout) :
          /\ EncodeField(layout[j], vals[j]) \in Seq(Nat)
          /\ Len(EncodeField(layout[j], vals[j])) = Size(layout[j])
  <2> SUFFICES ASSUME NEW j \in 1..Len(layout)
               PROVE  /\ EncodeField(layout[j], vals[j]) \in Seq(Nat)
                      /\ Len(EncodeField(layout[j], vals[j])) = Size(layout[j])
    OBVIOUS
  <2>1. layout[j] \in {Num, Raw} /\ vals[j] \in Nat
    OBVIOUS
  <2>2. QED
    BY <2>1, FieldSize
<1>3. /\ s \in Seq(Seq(Nat)) /\ Len(s) = Len(layout)
      /\ \A j \in 1..Len(layout) : s[j] = EncodeField(layout[j], vals[j])
  BY <1>1, <1>2 DEF FieldSeq
<1>4. Encode(layout, vals) = FlattenSeq(s)
  BY DEF Encode, FieldSeq, EncodeField
<1> HIDE DEF s
<1>5. FlattenSeq(s) \in Seq(Nat) /\ IsOffsets(s, Offsets(s))
  BY <1>3, FlattenHolds
<1>6. \A j : Passed(layout, vals, j) = Offsets(s)[j]
  BY DEF Passed, s
<1>7. QED
  BY <1>2, <1>3, <1>4, <1>5, <1>6 DEF IsOffsets

\* A field of a group that a buffer holds is where the decoder looks for it.
LEMMA FieldHeld ==
    ASSUME NEW layout \in Seq({Num, Raw}), NEW vals \in [DOMAIN layout -> Nat],
           NEW b \in Seq(Nat), NEW o \in Nat, Holds(b, o, Encode(layout, vals)),
           NEW j \in 1..Len(layout)
    PROVE  /\ Holds(b, o + Passed(layout, vals, j - 1), EncodeField(layout[j], vals[j]))
           /\ o + Passed(layout, vals, j) = (o + Passed(layout, vals, j - 1)) + Size(layout[j])
           /\ o + Passed(layout, vals, j) <= Len(b)
           /\ Passed(layout, vals, j - 1) \in Nat /\ Passed(layout, vals, j) \in Nat
<1>1. layout[j] \in {Num, Raw} /\ vals[j] \in Nat /\ Len(layout) \in Nat
  OBVIOUS
<1>2. /\ EncodeField(layout[j], vals[j]) \in Seq(Nat)
      /\ Len(EncodeField(layout[j], vals[j])) = Size(layout[j]) /\ Size(layout[j]) \in Nat
  BY <1>1, FieldSize
<1>3. j - 1 \in 0..Len(layout) /\ j \in 0..Len(layout)
  BY <1>1
<1>4. /\ Encode(layout, vals) \in Seq(Nat)
      /\ Passed(layout, vals, j - 1) \in Nat /\ Passed(layout, vals, j) \in Nat
      /\ Passed(layout, vals, j) = Passed(layout, vals, j - 1) + Size(layout[j])
      /\ Holds(Encode(layout, vals), Passed(layout, vals, j - 1),
               EncodeField(layout[j], vals[j]))
  BY <1>3, FieldPlaces
<1>5. Holds(b, o + Passed(layout, vals, j - 1), EncodeField(layout[j], vals[j]))
  <2>1. Len(b) \in Nat /\ Len(Encode(layout, vals)) \in Nat
        /\ Len(EncodeField(layout[j], vals[j])) \in Nat
    BY <1>2, <1>4
  <2>2. QED
    BY <1>4, <2>1, HoldsPart
<1>6. o + Passed(layout, vals, j) = (o + Passed(layout, vals, j - 1)) + Size(layout[j])
  BY <1>2, <1>4
<1>7. o + Passed(layout, vals, j) <= Len(b)
  BY <1>2, <1>5, <1>6 DEF Holds
<1>8. QED
  BY <1>4, <1>5, <1>6, <1>7

-----------------------------------------------------------------------------
(* Where the parts of the formats are.                                     *)

\* A buffer and its beginning hold the same, as far as the beginning goes.
LEMMA HoldsBeginning ==
    ASSUME NEW P, NEW b, NEW o \in Nat, NEW e,
           Len(P) \in Nat, Len(b) \in Nat, Len(e) \in Nat,
           Holds(P, 0, b), Holds(P, o, e), o + Len(e) <= Len(b)
    PROVE  Holds(b, o, e)
<1>1. ASSUME NEW j \in 1..Len(e) PROVE b[o + j] = e[j]
  <2>1. o + j \in 1..Len(b) /\ 0 + (o + j) = o + j
    OBVIOUS
  <2>2. P[0 + (o + j)] = b[o + j] /\ P[o + j] = e[j]
    BY <2>1 DEF Holds
  <2>3. QED
    BY <2>1, <2>2
<1>2. QED
  BY <1>1 DEF Holds

\* Sequences with the same elements are the same.
LEMMA SameSeq ==
    ASSUME NEW S, NEW T, NEW s \in Seq(S), NEW t \in Seq(T), Len(s) = Len(t),
           \A j \in 1..Len(t) : s[j] = t[j]
    PROVE  s = t
<1>1. s = [j \in 1..Len(s) |-> s[j]] /\ t = [j \in 1..Len(t) |-> t[j]]
  OBVIOUS
<1>2. QED
  BY <1>1

\* Copying what a buffer holds gives just that.
LEMMA HoldsCopy ==
    ASSUME NEW b \in Seq(Nat), NEW o \in Nat, NEW e \in Seq(Nat), Holds(b, o, e)
    PROVE  SubSeq(b, o + 1, o + Len(e)) = e
<1>1. Len(e) \in Nat /\ Len(b) \in Nat /\ o + Len(e) <= Len(b)
  BY DEF Holds
<1>2. \A j \in 1..Len(e) : b[o + j] = e[j]
  BY DEF Holds
<1> DEFINE c == SubSeq(b, o + 1, o + Len(e))
<1>3. c \in Seq(Nat) /\ Len(c) = Len(e)
  BY <1>1
<1>4. \A j \in 1..Len(e) : c[j] = b[(o + 1) + j - 1]
  BY <1>1
<1>5. \A j \in 1..Len(e) : (o + 1) + j - 1 = o + j
  BY <1>1
<1> HIDE DEF c
<1>6. \A j \in 1..Len(e) : c[j] = e[j]
  BY <1>2, <1>4, <1>5
<1>7. c = e
  BY <1>3, <1>6, SameSeq
<1>8. QED
  BY <1>7 DEF c

\* The beginning of a buffer is held by it.
LEMMA HoldsFirst ==
    ASSUME NEW b \in Seq(Nat), NEW n \in 0..Len(b)
    PROVE  /\ SubSeq(b, 1, n) \in Seq(Nat) /\ Len(SubSeq(b, 1, n)) = n
           /\ Holds(b, 0, SubSeq(b, 1, n))
<1> DEFINE c == SubSeq(b, 1, n)
<1>1. c \in Seq(Nat) /\ Len(c) = n /\ Len(b) \in Nat
  OBVIOUS
<1>2. \A j \in 1..n : c[j] = b[1 + j - 1]
  OBVIOUS
<1>3. \A j \in 1..n : 1 + j - 1 = 0 + j
  OBVIOUS
<1> HIDE DEF c
<1>4. Holds(b, 0, c)
  BY <1>1, <1>2, <1>3 DEF Holds
<1>5. QED
  BY <1>1, <1>4 DEF c

\* The layouts are sequences of kinds, and name seven groups.
LEMMA Layouts ==
    /\ DOMAIN Layout = {"register", "peers", "peer", "chain", "count", "block", "tx"}
    /\ \A g \in DOMAIN Layout : Layout[g] \in Seq({Num, Raw})
    /\ Header \in Seq({Num, Raw})
<1>1. DOMAIN Layout = {"register", "peers", "peer", "chain", "count", "block", "tx"}
  BY DEF Layout
<1>2. /\ Layout["register"] \in Seq({Num, Raw}) /\ Layout["peers"] \in Seq({Num, Raw})
      /\ Layout["peer"] \in Seq({Num, Raw}) /\ Layout["chain"] \in Seq({Num, Raw})
      /\ Layout["count"] \in Seq({Num, Raw}) /\ Layout["block"] \in Seq({Num, Raw})
      /\ Layout["tx"] \in Seq({Num, Raw})
  BY DEF Layout
<1>3. Header \in Seq({Num, Raw})
  BY DEF Header
<1>4. QED
  BY <1>1, <1>2, <1>3

\* How many fields the groups have.
LEMMA LayoutLens ==
    /\ Len(Layout.register) = 5 /\ Len(Layout.peers) = 1 /\ Len(Layout.peer) = 6
    /\ Len(Layout.chain) = 1 /\ Len(Layout.count) = 1 /\ Len(Layout.block) = 4
    /\ Len(Layout.tx) = 5 /\ Len(Header) = 3
BY DEF Layout, Header

\* Well-formed values of a layout.
LEMMA FieldsVals ==
    ASSUME NEW layout, NEW v \in Fields(layout)
    PROVE  v \in [DOMAIN layout -> Nat]
BY DEF Fields

\* A concatenation of two encodings after which a third follows.
LEMMA HoldsThree ==
    ASSUME NEW a \in Seq(Nat), NEW b \in Seq(Nat), NEW c \in Seq(Nat)
    PROVE  /\ (a \o b) \o c \in Seq(Nat)
           /\ Holds((a \o b) \o c, 0, a) /\ Holds((a \o b) \o c, Len(a), b)
           /\ Holds((a \o b) \o c, Len(a) + Len(b), c)
<1> DEFINE ab == a \o b
<1>1. /\ ab \in Seq(Nat) /\ Len(ab) = Len(a) + Len(b)
      /\ Holds(ab, 0, a) /\ Holds(ab, Len(a), b)
  BY HoldsConcat
<1> HIDE DEF ab
<1> DEFINE abc == ab \o c
<1>2. abc \in Seq(Nat) /\ Holds(abc, 0, ab) /\ Holds(abc, Len(ab), c)
  BY <1>1, HoldsConcat
<1> HIDE DEF abc
<1>3. Len(abc) \in Nat /\ Len(ab) \in Nat /\ Len(a) \in Nat /\ Len(b) \in Nat
  BY <1>1, <1>2
<1>4. Holds(abc, 0 + 0, a) /\ Holds(abc, 0 + Len(a), b)
  BY <1>1, <1>2, <1>3, HoldsPart
<1>5. 0 + 0 = 0 /\ 0 + Len(a) = Len(a)
  BY <1>3
<1>6. abc \in Seq(Nat) /\ Holds(abc, 0, a) /\ Holds(abc, Len(a), b) /\ Holds(abc, Len(a) + Len(b), c)
  BY <1>1, <1>2, <1>4, <1>5
<1>7. QED
  BY <1>6 DEF abc, ab

\* A head and the elements of a list behind it.
LEMMA HoldsList ==
    ASSUME NEW h \in Seq(Nat), NEW s \in Seq(Seq(Nat))
    PROVE  /\ h \o FlattenSeq(s) \in Seq(Nat) /\ Holds(h \o FlattenSeq(s), 0, h)
           /\ Offsets(s)[0] = 0 /\ \A k \in 0..Len(s) : Offsets(s)[k] \in Nat
           /\ \A k \in 1..Len(s) :
                 /\ Offsets(s)[k] = Offsets(s)[k - 1] + Len(s[k])
                 /\ Holds(h \o FlattenSeq(s), Len(h) + Offsets(s)[k - 1], s[k])
<1> DEFINE f == FlattenSeq(s)
           off == Offsets(s)
<1>1. f \in Seq(Nat) /\ IsOffsets(s, off)
  BY FlattenHolds
<1>2. /\ off[0] = 0 /\ \A k \in 0..Len(s) : off[k] \in Nat
      /\ \A k \in 1..Len(s) : off[k] = off[k - 1] + Len(s[k]) /\ Holds(f, off[k - 1], s[k])
  BY <1>1 DEF IsOffsets
<1> HIDE DEF f, off
<1> DEFINE w == h \o f
<1>3. w \in Seq(Nat) /\ Holds(w, 0, h) /\ Holds(w, Len(h), f)
  BY <1>1, HoldsConcat
<1> HIDE DEF w
<1>4. ASSUME NEW k \in 1..Len(s) PROVE Holds(w, Len(h) + off[k - 1], s[k])
  <2>1. s[k] \in Seq(Nat) /\ k - 1 \in 0..Len(s) /\ Len(h) \in Nat /\ Len(w) \in Nat /\ Len(f) \in Nat
    BY <1>1, <1>3
  <2>2. Len(s[k]) \in Nat /\ off[k - 1] \in Nat
    BY <1>2, <2>1
  <2>3. QED
    BY <1>2, <1>3, <2>1, <2>2, HoldsPart
<1>5. QED
  BY <1>2, <1>3, <1>4 DEF w, f, off

\* The elements of the three lists, and where they begin.
PeerSeq(list) == [i \in DOMAIN list |-> EncodePeer(list[i])]
PeersHead(list) == Encode(Layout.peers, <<Len(list)>>)
PeerAt(list, k) == Len(PeersHead(list)) + Offsets(PeerSeq(list))[k]

TxSeq(b) == [i \in DOMAIN b.txs |-> EncodeTx(b.txs[i])]
BlockVals(b) == Append(b.fields, Len(b.txs))
BlockHead(b) == Encode(Layout.block, BlockVals(b))
TxAt(b, j) == Len(BlockHead(b)) + Offsets(TxSeq(b))[j]

BlockSeq(c) == [i \in DOMAIN c.blocks |-> EncodeBlock(c.blocks[i])]
ZerosHead(c) == Encode(Layout.chain, <<c.zeros>>)
CountHead(c) == Encode(Layout.count, <<Len(c.blocks)>>)
BlockAt(c, k) == Len(ZerosHead(c)) + Len(CountHead(c)) + Offsets(BlockSeq(c))[k]

\* The head of a list of peers, and its peers.
LEMMA PeersPlaces ==
    ASSUME NEW list \in Peers
    PROVE  /\ EncodePeers(list) \in Seq(Nat) /\ Holds(EncodePeers(list), 0, PeersHead(list))
           /\ Len(PeersHead(list)) \in Nat /\ PeerAt(list, 0) = Len(PeersHead(list))
           /\ \A k \in 0..Len(list) : PeerAt(list, k) \in Nat
           /\ \A k \in 1..Len(list) :
                 /\ PeerAt(list, k) = PeerAt(list, k - 1) + Len(EncodePeer(list[k]))
                 /\ Holds(EncodePeers(list), PeerAt(list, k - 1), EncodePeer(list[k]))
                 /\ EncodePeer(list[k]) \in Seq(Nat) /\ list[k] \in [DOMAIN Layout.peer -> Nat]
<1>1. /\ list \in Seq(Fields(Layout.peer)) /\ Len(list) \in Nat /\ DOMAIN list = 1..Len(list)
      /\ \A k \in 1..Len(list) : list[k] \in Fields(Layout.peer)
  BY DEF Peers
<1>2. \A k \in 1..Len(list) : list[k] \in [DOMAIN Layout.peer -> Nat]
  BY <1>1, FieldsVals
<1>3. Layout.peer \in Seq({Num, Raw}) /\ Layout.peers \in Seq({Num, Raw})
  BY DEF Layout
<1>4. \A k \in 1..Len(list) : EncodePeer(list[k]) \in Seq(Nat)
  BY <1>2, <1>3, FieldPlaces DEF EncodePeer
<1>5. <<Len(list)>> \in [DOMAIN Layout.peers -> Nat]
  BY FieldsVals DEF Peers
<1> DEFINE h == PeersHead(list)
           s == PeerSeq(list)
<1>6. h \in Seq(Nat)
  BY <1>3, <1>5, FieldPlaces DEF PeersHead
<1>7. /\ s \in Seq(Seq(Nat)) /\ Len(s) = Len(list)
      /\ \A k \in 1..Len(list) : s[k] = EncodePeer(list[k])
  BY <1>1, <1>4 DEF PeerSeq
<1>8. EncodePeers(list) = h \o FlattenSeq(s)
  BY DEF EncodePeers, PeersHead, PeerSeq
<1>9. \A k : PeerAt(list, k) = Len(h) + Offsets(s)[k]
  BY DEF PeerAt
<1> HIDE DEF h, s
<1>10. /\ h \o FlattenSeq(s) \in Seq(Nat) /\ Holds(h \o FlattenSeq(s), 0, h)
       /\ Offsets(s)[0] = 0 /\ \A k \in 0..Len(s) : Offsets(s)[k] \in Nat
       /\ \A k \in 1..Len(s) :
             /\ Offsets(s)[k] = Offsets(s)[k - 1] + Len(s[k])
             /\ Holds(h \o FlattenSeq(s), Len(h) + Offsets(s)[k - 1], s[k])
  BY <1>6, <1>7, HoldsList
<1>11. Len(h) \in Nat
  BY <1>6
<1>12. EncodePeers(list) \in Seq(Nat) /\ Holds(EncodePeers(list), 0, h)
  BY <1>8, <1>10
<1>13. PeerAt(list, 0) = Len(h) /\ \A k \in 0..Len(list) : PeerAt(list, k) \in Nat
  <2>1. Offsets(s)[0] = 0 /\ \A k \in 0..Len(list) : Offsets(s)[k] \in Nat
    BY <1>7, <1>10
  <2>2. QED
    BY <1>9, <1>11, <2>1
<1>14. ASSUME NEW k \in 1..Len(list)
       PROVE  /\ PeerAt(list, k) = PeerAt(list, k - 1) + Len(EncodePeer(list[k]))
              /\ Holds(EncodePeers(list), PeerAt(list, k - 1), EncodePeer(list[k]))
  <2>1. k - 1 \in 0..Len(list) /\ k \in 1..Len(s) /\ Len(s[k]) \in Nat
    BY <1>1, <1>4, <1>7
  <2>2. /\ Offsets(s)[k] = Offsets(s)[k - 1] + Len(s[k]) /\ Offsets(s)[k - 1] \in Nat
        /\ s[k] = EncodePeer(list[k])
    BY <1>7, <1>10, <2>1
  <2>3. Holds(EncodePeers(list), PeerAt(list, k - 1), EncodePeer(list[k]))
    BY <1>8, <1>9, <1>10, <2>1, <2>2
  <2>4. QED
    BY <1>9, <1>11, <2>1, <2>2, <2>3
<1>15. QED
  BY <1>2, <1>4, <1>11, <1>12, <1>13, <1>14 DEF h

\* The fields of a transaction, and its signature behind them.
LEMMA TxPlaces ==
    ASSUME NEW t \in Transaction
    PROVE  /\ EncodeTx(t) \in Seq(Nat) /\ t.fields \in [DOMAIN Layout.tx -> Nat]
           /\ Encode(Layout.tx, t.fields) \in Seq(Nat) /\ t.sig \in Seq(Nat)
           /\ Len(t.sig) = SigSize /\ t.fields[5] <= SigSize /\ t.fields[5] \in Nat
           /\ Len(EncodeTx(t)) = Len(Encode(Layout.tx, t.fields)) + SigSize
           /\ Holds(EncodeTx(t), 0, Encode(Layout.tx, t.fields))
           /\ Holds(EncodeTx(t), Len(Encode(Layout.tx, t.fields)), t.sig)
<1>1. /\ t.fields \in Fields(Layout.tx) /\ t.sig \in [1..SigSize -> 0..(Base - 1)]
      /\ t.fields[5] <= SigSize
  BY DEF Transaction
<1>2. t.fields \in [DOMAIN Layout.tx -> Nat] /\ Layout.tx \in Seq({Num, Raw})
  <2>1. Layout.tx \in Seq({Num, Raw})
    BY DEF Layout
  <2>2. QED
    BY <1>1, <2>1, FieldsVals
<1>3. 5 \in DOMAIN Layout.tx
  BY DEF Layout
<1>4. t.fields[5] \in Nat
  BY <1>2, <1>3
<1>5. t.sig \in Seq(Nat) /\ Len(t.sig) = SigSize
  <2>1. SigSize \in Nat
    BY WireAssumption
  <2>2. 0..(Base - 1) \subseteq Nat
    OBVIOUS
  <2>3. t.sig \in [1..SigSize -> Nat]
    BY <1>1, <2>2
  <2>4. QED
    BY <2>1, <2>3
<1> DEFINE f == Encode(Layout.tx, t.fields)
           g == t.sig
<1>6. f \in Seq(Nat)
  BY <1>2, FieldPlaces
<1>7. EncodeTx(t) = f \o g
  BY DEF EncodeTx
<1>8. g \in Seq(Nat) /\ Len(g) = SigSize
  BY <1>5
<1> HIDE DEF f, g
<1>9. /\ f \o g \in Seq(Nat) /\ Len(f \o g) = Len(f) + Len(g)
      /\ Holds(f \o g, 0, f) /\ Holds(f \o g, Len(f), g)
  BY <1>6, <1>8, HoldsConcat
<1>10. /\ EncodeTx(t) \in Seq(Nat) /\ Len(EncodeTx(t)) = Len(f) + SigSize
       /\ Holds(EncodeTx(t), 0, f) /\ Holds(EncodeTx(t), Len(f), g)
  <2>1. /\ EncodeTx(t) \in Seq(Nat) /\ Len(EncodeTx(t)) = Len(f) + Len(g)
        /\ Holds(EncodeTx(t), 0, f) /\ Holds(EncodeTx(t), Len(f), g)
    BY <1>7, <1>9, ZenonT(30)
  <2>2. QED
    BY <1>8, <2>1
<1>11. QED
  BY <1>1, <1>2, <1>4, <1>5, <1>6, <1>10 DEF f, g

\* A function on the first numbers is a sequence.
LEMMA ArraySeq ==
    ASSUME NEW S, NEW n \in Nat, NEW f \in [1..n -> S]
    PROVE  f \in Seq(S) /\ Len(f) = n
OBVIOUS

\* What appending gives.
LEMMA AppendPlaces ==
    ASSUME NEW S, NEW f \in Seq(S), NEW x \in S
    PROVE  /\ Append(f, x) \in Seq(S) /\ Len(Append(f, x)) = Len(f) + 1 /\ Len(f) \in Nat
           /\ Append(f, x)[Len(f) + 1] = x
           /\ \A j \in 1..Len(f) : Append(f, x)[j] = f[j]
<1>1. Append(f, x) \in Seq(S) /\ Len(Append(f, x)) = Len(f) + 1 /\ Len(f) \in Nat
  OBVIOUS
<1>2. Append(f, x)[Len(f) + 1] = x
  OBVIOUS
<1>3. \A j \in 1..Len(f) : Append(f, x)[j] = f[j]
  OBVIOUS
<1>4. QED
  BY <1>1, <1>2, <1>3

\* Three fields and a fourth.
LEMMA AppendFourth ==
    ASSUME NEW f \in Seq(Nat), NEW n \in Nat
    PROVE  Len(f) = 3 => (\A j \in 1..3 : Append(f, n)[j] = f[j]) /\ Append(f, n)[4] = n
<1> DEFINE a == Append(f, n)
<1>0. \A j \in 1..Len(f) : a[j] = f[j]
  OBVIOUS
<1>1. a[Len(f) + 1] = n
  OBVIOUS
<1> HIDE DEF a
<1>2. Len(f) = 3 => Len(f) + 1 = 4
  OBVIOUS
<1>3. Len(f) = 3 => (\A j \in 1..3 : a[j] = f[j]) /\ a[4] = n
  BY <1>0, <1>1, <1>2
<1>4. QED
  BY <1>3 DEF a

\* The fields of a block.
LEMMA BlockFields ==
    ASSUME NEW b \in BlockData
    PROVE  /\ b.fields \in Seq(Nat) /\ Len(b.fields) = 3 /\ b.txs \in Seq(Transaction)
           /\ BlockVals(b) \in [DOMAIN Layout.block -> Nat] /\ BlockHead(b) \in Seq(Nat)
           /\ \A j \in 1..3 : BlockVals(b)[j] = b.fields[j]
           /\ BlockVals(b)[4] = Len(b.txs) /\ Len(b.txs) \in Nat
<1>1. /\ b.fields \in [1..3 -> Nat] /\ b.txs \in Seq(Transaction)
      /\ BlockVals(b) \in Fields(Layout.block)
  BY DEF BlockData, BlockVals
<1>2. b.fields \in Seq(Nat) /\ Len(b.fields) = 3
  <2>1. 3 \in Nat
    OBVIOUS
  <2>2. QED
    BY <1>1, <2>1, ArraySeq
<1>3. /\ \A j \in 1..3 : BlockVals(b)[j] = b.fields[j]
      /\ BlockVals(b)[4] = Len(b.txs) /\ Len(b.txs) \in Nat
  <2>1. Len(b.txs) \in Nat
    BY <1>1
  <2>2. QED
    BY <1>2, <2>1, AppendFourth DEF BlockVals
<1>4. Layout.block \in Seq({Num, Raw})
  BY DEF Layout
<1>5. BlockVals(b) \in [DOMAIN Layout.block -> Nat]
  BY <1>1, FieldsVals
<1>6. BlockHead(b) \in Seq(Nat)
  BY <1>4, <1>5, FieldPlaces DEF BlockHead
<1>7. QED
  BY <1>1, <1>2, <1>3, <1>5, <1>6

\* The head of a block, and its transactions.
LEMMA BlockPlaces ==
    ASSUME NEW b \in BlockData
    PROVE  /\ EncodeBlock(b) \in Seq(Nat) /\ Holds(EncodeBlock(b), 0, BlockHead(b))
           /\ Len(BlockHead(b)) \in Nat /\ TxAt(b, 0) = Len(BlockHead(b))
           /\ TxAt(b, Len(b.txs)) = Len(EncodeBlock(b))
           /\ \A k \in 0..Len(b.txs) : TxAt(b, k) \in Nat
           /\ \A k \in 1..Len(b.txs) :
                 /\ TxAt(b, k) = TxAt(b, k - 1) + Len(EncodeTx(b.txs[k]))
                 /\ Holds(EncodeBlock(b), TxAt(b, k - 1), EncodeTx(b.txs[k]))
                 /\ EncodeTx(b.txs[k]) \in Seq(Nat) /\ b.txs[k] \in Transaction
<1>1. b.txs \in Seq(Transaction) /\ Len(b.txs) \in Nat
  BY BlockFields
<1>2. DOMAIN b.txs = 1..Len(b.txs) /\ \A k \in 1..Len(b.txs) : b.txs[k] \in Transaction
  BY <1>1
<1>4. \A k \in 1..Len(b.txs) : EncodeTx(b.txs[k]) \in Seq(Nat)
  BY <1>2, TxPlaces
<1> DEFINE h == BlockHead(b)
           s == TxSeq(b)
<1>6. h \in Seq(Nat)
  BY BlockFields
<1>7. /\ s \in Seq(Seq(Nat)) /\ Len(s) = Len(b.txs)
      /\ \A k \in 1..Len(b.txs) : s[k] = EncodeTx(b.txs[k])
  BY <1>1, <1>2, <1>4 DEF TxSeq
<1>8. EncodeBlock(b) = h \o FlattenSeq(s)
  BY DEF EncodeBlock, BlockHead, BlockVals, TxSeq
<1>9. \A k : TxAt(b, k) = Len(h) + Offsets(s)[k]
  BY DEF TxAt
<1> HIDE DEF h, s
<1>10. /\ h \o FlattenSeq(s) \in Seq(Nat) /\ Holds(h \o FlattenSeq(s), 0, h)
       /\ Offsets(s)[0] = 0 /\ \A k \in 0..Len(s) : Offsets(s)[k] \in Nat
       /\ \A k \in 1..Len(s) :
             /\ Offsets(s)[k] = Offsets(s)[k - 1] + Len(s[k])
             /\ Holds(h \o FlattenSeq(s), Len(h) + Offsets(s)[k - 1], s[k])
  BY <1>6, <1>7, HoldsList
<1>11. Len(h) \in Nat
  BY <1>6
<1>12. EncodeBlock(b) \in Seq(Nat) /\ Holds(EncodeBlock(b), 0, h)
  BY <1>8, <1>10
<1>13. TxAt(b, 0) = Len(h) /\ \A k \in 0..Len(b.txs) : TxAt(b, k) \in Nat
  <2>1. Offsets(s)[0] = 0 /\ \A k \in 0..Len(b.txs) : Offsets(s)[k] \in Nat
    BY <1>7, <1>10
  <2>2. QED
    BY <1>9, <1>11, <2>1
<1>14. ASSUME NEW k \in 1..Len(b.txs)
       PROVE  /\ TxAt(b, k) = TxAt(b, k - 1) + Len(EncodeTx(b.txs[k]))
              /\ Holds(EncodeBlock(b), TxAt(b, k - 1), EncodeTx(b.txs[k]))
  <2>1. k - 1 \in 0..Len(b.txs) /\ k \in 1..Len(s) /\ Len(s[k]) \in Nat
    BY <1>1, <1>4, <1>7
  <2>2. /\ Offsets(s)[k] = Offsets(s)[k - 1] + Len(s[k]) /\ Offsets(s)[k - 1] \in Nat
        /\ s[k] = EncodeTx(b.txs[k])
    BY <1>7, <1>10, <2>1
  <2>3. Holds(EncodeBlock(b), TxAt(b, k - 1), EncodeTx(b.txs[k]))
    BY <1>8, <1>9, <1>10, <2>1, <2>2
  <2>4. QED
    BY <1>9, <1>11, <2>1, <2>2, <2>3
<1>15. TxAt(b, Len(b.txs)) = Len(EncodeBlock(b))
  <2>1. Offsets(s)[Len(s)] = Len(FlattenSeq(s)) /\ FlattenSeq(s) \in Seq(Nat)
    BY <1>7, FlattenHolds DEF IsOffsets
  <2>2. Len(h \o FlattenSeq(s)) = Len(h) + Len(FlattenSeq(s))
    BY <1>6, <2>1, HoldsConcat
  <2>3. Len(EncodeBlock(b)) = Len(h) + Len(FlattenSeq(s))
    BY <1>8, <2>2
  <2>4. QED
    BY <1>7, <1>9, <2>1, <2>3
<1>16. QED
  BY <1>2, <1>4, <1>11, <1>12, <1>13, <1>14, <1>15 DEF h

\* The heads of a chain, and its blocks.
LEMMA ChainPlaces ==
    ASSUME NEW c \in ChainData
    PROVE  /\ EncodeChain(c) \in Seq(Nat) /\ Holds(EncodeChain(c), 0, ZerosHead(c))
           /\ Holds(EncodeChain(c), Len(ZerosHead(c)), CountHead(c))
           /\ <<c.zeros>> \in [DOMAIN Layout.chain -> Nat]
           /\ <<Len(c.blocks)>> \in [DOMAIN Layout.count -> Nat]
           /\ Len(ZerosHead(c)) \in Nat /\ Len(CountHead(c)) \in Nat /\ Len(c.blocks) \in Nat
           /\ BlockAt(c, 0) = Len(ZerosHead(c)) + Len(CountHead(c))
           /\ \A k \in 0..Len(c.blocks) : BlockAt(c, k) \in Nat
           /\ \A k \in 1..Len(c.blocks) :
                 /\ BlockAt(c, k) = BlockAt(c, k - 1) + Len(EncodeBlock(c.blocks[k]))
                 /\ Holds(EncodeChain(c), BlockAt(c, k - 1), EncodeBlock(c.blocks[k]))
                 /\ EncodeBlock(c.blocks[k]) \in Seq(Nat) /\ c.blocks[k] \in BlockData
<1>1. c.blocks \in Seq(BlockData) /\ c.zeros \in Nat
  BY DEF ChainData
<1>2. /\ DOMAIN c.blocks = 1..Len(c.blocks) /\ Len(c.blocks) \in Nat
      /\ \A k \in 1..Len(c.blocks) : c.blocks[k] \in BlockData
  BY <1>1
<1>3. \A k \in 1..Len(c.blocks) : EncodeBlock(c.blocks[k]) \in Seq(Nat)
  BY <1>2, BlockPlaces
<1>4. Layout.chain \in Seq({Num, Raw}) /\ Layout.count \in Seq({Num, Raw})
  BY DEF Layout
<1>5. /\ <<c.zeros>> \in [DOMAIN Layout.chain -> Nat]
      /\ <<Len(c.blocks)>> \in [DOMAIN Layout.count -> Nat]
  BY FieldsVals DEF ChainData
<1> DEFINE z == ZerosHead(c)
           n == CountHead(c)
           h == z \o n
           s == BlockSeq(c)
<1>6. z \in Seq(Nat) /\ n \in Seq(Nat)
  BY <1>4, <1>5, FieldPlaces DEF ZerosHead, CountHead
<1>7. /\ s \in Seq(Seq(Nat)) /\ Len(s) = Len(c.blocks)
      /\ \A k \in 1..Len(c.blocks) : s[k] = EncodeBlock(c.blocks[k])
  BY <1>2, <1>3 DEF BlockSeq
<1>8. EncodeChain(c) = h \o FlattenSeq(s)
  BY DEF EncodeChain, ZerosHead, CountHead, BlockSeq
<1>9. \A k : BlockAt(c, k) = Len(z) + Len(n) + Offsets(s)[k]
  BY DEF BlockAt
<1> HIDE DEF z, n, s
<1>h. h \in Seq(Nat) /\ Len(h) = Len(z) + Len(n) /\ Holds(h, 0, z) /\ Holds(h, Len(z), n)
  BY <1>6, HoldsConcat
<1>l. Len(z) \in Nat /\ Len(n) \in Nat
  BY <1>6
<1> HIDE DEF h
<1>10. /\ h \o FlattenSeq(s) \in Seq(Nat) /\ Holds(h \o FlattenSeq(s), 0, h)
       /\ Offsets(s)[0] = 0 /\ \A k \in 0..Len(s) : Offsets(s)[k] \in Nat
       /\ \A k \in 1..Len(s) :
             /\ Offsets(s)[k] = Offsets(s)[k - 1] + Len(s[k])
             /\ Holds(h \o FlattenSeq(s), Len(h) + Offsets(s)[k - 1], s[k])
  BY <1>7, <1>h, HoldsList
<1>11. Len(h) \in Nat
  BY <1>h
<1>12. /\ EncodeChain(c) \in Seq(Nat)
       /\ Holds(EncodeChain(c), 0, z) /\ Holds(EncodeChain(c), Len(z), n)
  <2>1. EncodeChain(c) \in Seq(Nat) /\ Holds(EncodeChain(c), 0, h)
    BY <1>8, <1>10
  <2>2. Len(EncodeChain(c)) \in Nat
    BY <2>1
  <2>3. Holds(EncodeChain(c), 0 + 0, z) /\ Holds(EncodeChain(c), 0 + Len(z), n)
    BY <1>h, <1>l, <1>11, <2>1, <2>2, HoldsPart
  <2>4. 0 + 0 = 0 /\ 0 + Len(z) = Len(z)
    BY <1>l
  <2>5. QED
    BY <2>1, <2>3, <2>4
<1>13. /\ BlockAt(c, 0) = Len(z) + Len(n)
       /\ \A k \in 0..Len(c.blocks) : BlockAt(c, k) \in Nat
  <2>1. Offsets(s)[0] = 0 /\ \A k \in 0..Len(c.blocks) : Offsets(s)[k] \in Nat
    BY <1>7, <1>10
  <2>2. QED
    BY <1>9, <1>l, <2>1
<1>14. ASSUME NEW k \in 1..Len(c.blocks)
       PROVE  /\ BlockAt(c, k) = BlockAt(c, k - 1) + Len(EncodeBlock(c.blocks[k]))
              /\ Holds(EncodeChain(c), BlockAt(c, k - 1), EncodeBlock(c.blocks[k]))
  <2>1. k - 1 \in 0..Len(c.blocks) /\ k \in 1..Len(s) /\ Len(s[k]) \in Nat
    BY <1>2, <1>3, <1>7
  <2>2. /\ Offsets(s)[k] = Offsets(s)[k - 1] + Len(s[k]) /\ Offsets(s)[k - 1] \in Nat
        /\ s[k] = EncodeBlock(c.blocks[k])
    BY <1>7, <1>10, <2>1
  <2>3. BlockAt(c, k - 1) = Len(h) + Offsets(s)[k - 1]
    BY <1>9, <1>h
  <2>4. Holds(EncodeChain(c), BlockAt(c, k - 1), EncodeBlock(c.blocks[k]))
    BY <1>8, <1>10, <2>1, <2>2, <2>3
  <2>5. QED
    BY <1>9, <1>l, <2>1, <2>2, <2>4
<1>15. QED
  BY <1>2, <1>3, <1>5, <1>l, <1>12, <1>13, <1>14 DEF z, n

\* A command: its header, the length it announces, and the payload behind it.
LEMMA HeaderPlaces ==
    ASSUME NEW command \in Nat, NEW payload \in Seq(Nat)
    PROVE  /\ WithHeader(command, payload) \in Seq(Nat)
           /\ Len(WithHeader(command, payload)) = HeaderSize + Len(payload)
           /\ Holds(WithHeader(command, payload), HeaderSize, payload)
           /\ Holds(WithHeader(command, payload), 0, EncodeField(Raw, COMMAND_PREFIX))
           /\ Holds(WithHeader(command, payload), 1, EncodeField(Num, command))
           /\ Holds(WithHeader(command, payload), 3, EncodeField(Num, Len(payload)))
<1> DEFINE vals == <<COMMAND_PREFIX, command, Len(payload)>>
           h == Encode(Header, vals)
           Pass(j) == Passed(Header, vals, j)
<1>1. /\ Header \in Seq({Num, Raw}) /\ Len(Header) = 3
      /\ Header[1] = Raw /\ Header[2] = Num /\ Header[3] = Num
  BY DEF Header
<1>2. vals \in [DOMAIN Header -> Nat]
  BY DEF Header, COMMAND_PREFIX
<1>v. vals[1] = COMMAND_PREFIX /\ vals[2] = command /\ vals[3] = Len(payload)
  OBVIOUS
<1>vn. vals[1] \in Nat /\ vals[2] \in Nat /\ vals[3] \in Nat
  BY DEF COMMAND_PREFIX
<1> HIDE DEF vals
<1>3. /\ h \in Seq(Nat) /\ Pass(0) = 0 /\ Pass(3) = Len(h)
      /\ \A j \in 1..3 : /\ Pass(j) = Pass(j - 1) + Size(Header[j])
                         /\ Holds(h, Pass(j - 1), EncodeField(Header[j], vals[j]))
  BY <1>1, <1>2, FieldPlaces
<1>4. Size(Raw) = 1 /\ Size(Num) = 2
  BY DEF Size, Num, Raw
<1> HIDE DEF Pass
<1>5. /\ Pass(1) = Pass(0) + 1 /\ Pass(2) = Pass(1) + 2 /\ Pass(3) = Pass(2) + 2
      /\ Holds(h, Pass(0), EncodeField(Raw, vals[1])) /\ Holds(h, Pass(1), EncodeField(Num, vals[2]))
      /\ Holds(h, Pass(2), EncodeField(Num, vals[3]))
  <2>1. 1 \in 1..3 /\ 2 \in 1..3 /\ 3 \in 1..3 /\ 1 - 1 = 0 /\ 2 - 1 = 1 /\ 3 - 1 = 2
    OBVIOUS
  <2>2. /\ Pass(1) = Pass(1 - 1) + Size(Header[1]) /\ Pass(2) = Pass(2 - 1) + Size(Header[2])
        /\ Pass(3) = Pass(3 - 1) + Size(Header[3])
        /\ Holds(h, Pass(1 - 1), EncodeField(Header[1], vals[1]))
        /\ Holds(h, Pass(2 - 1), EncodeField(Header[2], vals[2]))
        /\ Holds(h, Pass(3 - 1), EncodeField(Header[3], vals[3]))
    BY <1>3, <2>1
  <2>3. QED
    BY <1>1, <1>4, <2>1, <2>2
<1>6. Pass(0) = 0 /\ Pass(1) = 1 /\ Pass(2) = 3 /\ Len(h) = 5
  <2>1. Pass(0) = 0 /\ Pass(3) = Len(h)
    BY <1>3
  <2>2. Pass(1) = Pass(0) + 1 /\ Pass(2) = Pass(1) + 2 /\ Pass(3) = Pass(2) + 2
    BY <1>5
  <2> HIDE DEF h
  <2>3. QED
    BY <2>1, <2>2
<1> DEFINE w == WithHeader(command, payload)
<1>7. h \in Seq(Nat)
  BY <1>3
<1>w. w = h \o payload
  BY DEF WithHeader, vals
<1> HIDE DEF h, w
<1>8. /\ w \in Seq(Nat) /\ Len(w) = Len(h) + Len(payload)
      /\ Holds(w, 0, h) /\ Holds(w, Len(h), payload)
  <2>1. /\ h \o payload \in Seq(Nat) /\ Len(h \o payload) = Len(h) + Len(payload)
        /\ Holds(h \o payload, 0, h) /\ Holds(h \o payload, Len(h), payload)
    BY <1>7, HoldsConcat
  <2>2. QED
    BY <1>w, <2>1, Zenon
<1>9. HeaderSize = 5
  BY DEF HeaderSize
<1>11. /\ Holds(w, 0, EncodeField(Raw, vals[1])) /\ Holds(w, 1, EncodeField(Num, vals[2]))
       /\ Holds(w, 3, EncodeField(Num, vals[3]))
  <2>1. /\ Len(EncodeField(Raw, vals[1])) \in Nat /\ Len(EncodeField(Num, vals[2])) \in Nat
        /\ Len(EncodeField(Num, vals[3])) \in Nat /\ Len(w) \in Nat /\ Len(h) \in Nat
    <3>1. /\ Len(EncodeField(Raw, vals[1])) \in Nat /\ Len(EncodeField(Num, vals[2])) \in Nat
          /\ Len(EncodeField(Num, vals[3])) \in Nat
      BY <1>vn, FieldSize
    <3>2. Len(w) \in Nat /\ Len(h) \in Nat
      BY <1>7, <1>8
    <3>3. QED
      BY <3>1, <3>2
  <2>2. /\ Holds(h, 0, EncodeField(Raw, vals[1])) /\ Holds(h, 1, EncodeField(Num, vals[2]))
        /\ Holds(h, 3, EncodeField(Num, vals[3]))
    BY <1>5, <1>6
  <2>3. /\ Holds(w, 0 + 0, EncodeField(Raw, vals[1])) /\ Holds(w, 0 + 1, EncodeField(Num, vals[2]))
        /\ Holds(w, 0 + 3, EncodeField(Num, vals[3]))
    BY <1>8, <2>1, <2>2, HoldsPart
  <2>4. 0 + 0 = 0 /\ 0 + 1 = 1 /\ 0 + 3 = 3
    OBVIOUS
  <2>5. QED
    BY <2>3, <2>4
<1>12. w \in Seq(Nat) /\ Len(w) = HeaderSize + Len(payload) /\ Holds(w, HeaderSize, payload)
  BY <1>6, <1>8, <1>9
<1>13. QED
  BY <1>v, <1>11, <1>12 DEF w

-----------------------------------------------------------------------------
(* Messages.                                                               *)

\* The buffer a decoder reads, if nothing is cut off.
Payload(m) ==
    CASE m.kind = COMMAND_REGISTER_PEER   -> Serialize(m)
      [] m.kind = COMMAND_SEND_PEER_LIST  -> EncodePeers(m.body)
      [] m.kind = COMMAND_SEND_BLOCKCHAIN -> EncodeChain(m.body)

\* What follows the header.
Data(m) ==
    IF m.kind = COMMAND_REGISTER_PEER THEN Append(Encode(Layout.register, m.body), 0)
    ELSE htobe(Len(Payload(m))) \o Payload(m)

\* The three kinds of message.
LEMMA MessageKinds ==
    ASSUME NEW m \in Message
    PROVE  /\ m.kind \in {COMMAND_REGISTER_PEER, COMMAND_SEND_PEER_LIST, COMMAND_SEND_BLOCKCHAIN}
           /\ m.kind \in Nat
           /\ m.kind = COMMAND_REGISTER_PEER => m.body \in Fields(Layout.register)
           /\ m.kind = COMMAND_SEND_PEER_LIST => m.body \in Peers
           /\ m.kind = COMMAND_SEND_BLOCKCHAIN => m.body \in ChainData
BY DEF Message, COMMAND_REGISTER_PEER, COMMAND_SEND_PEER_LIST, COMMAND_SEND_BLOCKCHAIN

\* The commands are different.
LEMMA Commands ==
    /\ COMMAND_REGISTER_PEER # COMMAND_SEND_PEER_LIST
    /\ COMMAND_REGISTER_PEER # COMMAND_SEND_BLOCKCHAIN
    /\ COMMAND_SEND_PEER_LIST # COMMAND_SEND_BLOCKCHAIN
BY DEF COMMAND_REGISTER_PEER, COMMAND_SEND_PEER_LIST, COMMAND_SEND_BLOCKCHAIN

\* A message is a header before its data.
LEMMA MessageBytes ==
    ASSUME NEW m \in Message
    PROVE  /\ Serialize(m) = WithHeader(m.kind, Data(m)) /\ Data(m) \in Seq(Nat)
           /\ m.kind = COMMAND_REGISTER_PEER =>
                 /\ m.body \in [DOMAIN Layout.register -> Nat]
                 /\ Holds(Data(m), 0, Encode(Layout.register, m.body))
                 /\ Encode(Layout.register, m.body) \in Seq(Nat)
           /\ m.kind # COMMAND_REGISTER_PEER =>
                 /\ Payload(m) \in Seq(Nat) /\ Len(Data(m)) = 2 + Len(Payload(m))
                 /\ Holds(Data(m), 0, EncodeField(Num, Len(Payload(m))))
                 /\ Holds(Data(m), 2, Payload(m))
<1>1. CASE m.kind = COMMAND_REGISTER_PEER
  <2> DEFINE e == Encode(Layout.register, m.body)
  <2>1. m.body \in [DOMAIN Layout.register -> Nat] /\ Layout.register \in Seq({Num, Raw})
    <3>1. Layout.register \in Seq({Num, Raw})
      BY DEF Layout
    <3>2. QED
      BY <1>1, <3>1, MessageKinds, FieldsVals
  <2>2. e \in Seq(Nat)
    BY <2>1, FieldPlaces
  <2>3. Data(m) = Append(e, 0)
    BY <1>1 DEF Data
  <2>4. Serialize(m) = WithHeader(m.kind, Append(e, 0))
    BY <1>1, Commands DEF Serialize, command_register_peer_serialize
  <2> HIDE DEF e
  <2> DEFINE a == Append(e, 0)
  <2>5. a \in Seq(Nat) /\ Len(a) = Len(e) + 1 /\ Len(e) \in Nat
    BY <2>2
  <2>6. \A j \in 1..Len(e) : a[j] = e[j]
    BY <2>2
  <2> HIDE DEF a
  <2>7. Holds(a, 0, e)
    <3>1. \A j \in 1..Len(e) : 0 + j = j
      BY <2>5
    <3>2. QED
      BY <2>5, <2>6, <3>1 DEF Holds
  <2>8. Data(m) = a /\ Serialize(m) = WithHeader(m.kind, a)
    BY <2>3, <2>4 DEF a
  <2>9. QED
    BY <1>1, <2>1, <2>2, <2>5, <2>7, <2>8 DEF e
<1>2. CASE m.kind # COMMAND_REGISTER_PEER
  <2> DEFINE p == Payload(m)
             h == htobe(Len(p))
  <2>1. p \in Seq(Nat)
    <3>1. CASE m.kind = COMMAND_SEND_PEER_LIST
      BY <1>2, <3>1, Commands, MessageKinds, PeersPlaces DEF Payload
    <3>2. CASE m.kind = COMMAND_SEND_BLOCKCHAIN
      BY <1>2, <3>2, Commands, MessageKinds, ChainPlaces DEF Payload
    <3>3. QED
      BY <1>2, <3>1, <3>2, MessageKinds
  <2>2. Serialize(m) = WithLength(m.kind, p)
    <3>1. CASE m.kind = COMMAND_SEND_PEER_LIST
      BY <1>2, <3>1, Commands DEF Payload, Serialize, command_send_peer_list_serialize
    <3>2. CASE m.kind = COMMAND_SEND_BLOCKCHAIN
      BY <1>2, <3>2, Commands DEF Payload, Serialize, command_send_blockchain_serialize
    <3>3. QED
      BY <1>2, <3>1, <3>2, MessageKinds
  <2>3. Data(m) = h \o p
    BY <1>2 DEF Data
  <2>4. Serialize(m) = WithHeader(m.kind, h \o p)
    BY <2>2 DEF WithLength
  <2> HIDE DEF p
  <2>5. Len(p) \in Nat
    BY <2>1
  <2>6. h = EncodeField(Num, Len(p))
    BY DEF EncodeField
  <2> HIDE DEF h
  <2>7. h \in Seq(Nat) /\ Len(h) = 2
    BY <2>5, <2>6, FieldSize DEF Size
  <2> DEFINE w == h \o p
  <2>8. w \in Seq(Nat) /\ Len(w) = Len(h) + Len(p) /\ Holds(w, 0, h) /\ Holds(w, Len(h), p)
    BY <2>1, <2>7, HoldsConcat
  <2> HIDE DEF w
  <2>9. Data(m) = w /\ Serialize(m) = WithHeader(m.kind, w)
    BY <2>3, <2>4 DEF w
  <2>10. /\ Data(m) \in Seq(Nat) /\ Len(Data(m)) = 2 + Len(p)
         /\ Holds(Data(m), 0, EncodeField(Num, Len(p))) /\ Holds(Data(m), 2, p)
    BY <2>6, <2>7, <2>8, <2>9
  <2>11. QED
    BY <1>2, <2>1, <2>9, <2>10 DEF p
<1>3. QED
  BY <1>1, <1>2

\* Every message is a header, and its data.
LEMMA MessageStream ==
    ASSUME NEW m \in Message
    PROVE  /\ Serialize(m) \in Seq(Nat) /\ Len(Serialize(m)) = HeaderSize + Len(Data(m))
           /\ Holds(Serialize(m), HeaderSize, Data(m)) /\ Len(Data(m)) \in Nat
<1>1. Serialize(m) = WithHeader(m.kind, Data(m)) /\ Data(m) \in Seq(Nat) /\ m.kind \in Nat
  BY MessageBytes, MessageKinds
<1>2. Len(Data(m)) \in Nat
  BY <1>1
<1>3. /\ WithHeader(m.kind, Data(m)) \in Seq(Nat)
      /\ Len(WithHeader(m.kind, Data(m))) = HeaderSize + Len(Data(m))
      /\ Holds(WithHeader(m.kind, Data(m)), HeaderSize, Data(m))
  BY <1>1, HeaderPlaces
<1>4. QED
  BY <1>1, <1>2, <1>3

\* What the receiver finds in the header of a message.
LEMMA MessageHeader ==
    ASSUME NEW m \in Message, NEW b \in Seq(Nat), Holds(Serialize(m), 0, b), Len(b) >= HeaderSize
    PROVE  /\ FieldAt(b, 0, Raw) = COMMAND_PREFIX /\ FieldAt(b, 1, Num) = m.kind
           /\ HeaderSize + FieldAt(b, 3, Num) = Len(Serialize(m))
<1> DEFINE w == Serialize(m)
           n == Len(Data(m))
           e1 == EncodeField(Raw, COMMAND_PREFIX)
           e2 == EncodeField(Num, m.kind)
           e3 == EncodeField(Num, n)
<1>1. w = WithHeader(m.kind, Data(m)) /\ Data(m) \in Seq(Nat) /\ m.kind \in Nat
  BY MessageBytes, MessageKinds
<1>2. /\ w \in Seq(Nat) /\ Len(w) = HeaderSize + n /\ Holds(w, 0, e1) /\ Holds(w, 1, e2)
      /\ Holds(w, 3, e3)
  BY <1>1, HeaderPlaces
<1>3. n \in Nat /\ COMMAND_PREFIX \in Nat /\ HeaderSize = 5
  BY <1>1 DEF COMMAND_PREFIX, HeaderSize
<1>4. Len(e1) = 1 /\ Len(e2) = 2 /\ Len(e3) = 2
  BY <1>1, <1>3, FieldSize DEF Size, Num, Raw
<1>5. Len(w) \in Nat /\ Len(b) \in Nat /\ 0 + Len(e1) <= Len(b) /\ 1 + Len(e2) <= Len(b)
      /\ 3 + Len(e3) <= Len(b)
  BY <1>2, <1>3, <1>4
<1> HIDE DEF w, e1, e2, e3, n
<1>6. Holds(w, 0, b)
  BY DEF w
<1>7. Holds(b, 0, e1) /\ Holds(b, 1, e2) /\ Holds(b, 3, e3)
  <2>1. Len(e1) \in Nat /\ Len(e2) \in Nat /\ Len(e3) \in Nat
    BY <1>4
  <2>2. Holds(b, 0, e1)
    BY <1>2, <1>5, <1>6, <2>1, HoldsBeginning
  <2>3. Holds(b, 1, e2)
    BY <1>2, <1>5, <1>6, <2>1, HoldsBeginning
  <2>4. Holds(b, 3, e3)
    BY <1>2, <1>5, <1>6, <2>1, HoldsBeginning
  <2>5. QED
    BY <2>2, <2>3, <2>4
<1>8. /\ FieldAt(b, 0, Raw) = COMMAND_PREFIX /\ FieldAt(b, 1, Num) = m.kind
      /\ FieldAt(b, 3, Num) = n
  BY <1>1, <1>3, <1>7, FieldRead DEF e1, e2, e3
<1>9. QED
  BY <1>2, <1>8 DEF w

\* What the receiver finds behind the header of a message that has arrived.
LEMMA MessageBody ==
    ASSUME NEW m \in Message, m.kind # COMMAND_REGISTER_PEER,
           NEW b \in Seq(Nat), Holds(Serialize(m), 0, b), Len(b) = Len(Serialize(m))
    PROVE  /\ FieldAt(b, HeaderSize, Num) = Len(Payload(m)) /\ Len(Payload(m)) \in Nat
           /\ HeaderSize + Size(Num) + Len(Payload(m)) = Len(b)
           /\ SubSeq(b, HeaderSize + Size(Num) + 1, HeaderSize + Size(Num) + Len(Payload(m)))
                = Payload(m)
<1> DEFINE w == Serialize(m)
           d == Data(m)
           p == Payload(m)
           e == EncodeField(Num, Len(p))
<1>1. /\ w \in Seq(Nat) /\ Len(w) = HeaderSize + Len(d) /\ Holds(w, HeaderSize, d)
      /\ Len(d) \in Nat
  BY MessageStream
<1>2. p \in Seq(Nat) /\ Len(d) = 2 + Len(p) /\ Holds(d, 0, e) /\ Holds(d, 2, p)
  BY MessageBytes
<1>3. Len(p) \in Nat /\ Len(w) \in Nat /\ Len(b) \in Nat /\ HeaderSize = 5 /\ Size(Num) = 2
  BY <1>1, <1>2 DEF HeaderSize, Size
<1>4. Len(e) = 2
  BY <1>3, FieldSize DEF Size
<1> HIDE DEF e
<1>5. Holds(w, 5 + 0, e) /\ Holds(w, 5 + 2, p)
  <2>1. Len(e) \in Nat /\ 5 \in Nat /\ 2 \in Nat /\ Holds(w, 5, d)
    BY <1>1, <1>3, <1>4
  <2>2. QED
    BY <1>1, <1>2, <1>3, <2>1, HoldsPart
<1>6. Holds(w, 5, e) /\ Holds(w, 7, p) /\ Holds(w, 0, b)
  <2>1. 5 + 0 = 5 /\ 5 + 2 = 7
    OBVIOUS
  <2>2. QED
    BY <1>5, <2>1
<1>7. Len(b) = 5 + (2 + Len(p))
  BY <1>1, <1>2, <1>3
<1> HIDE DEF w, d, p
<1>8. Holds(b, 5, e) /\ Holds(b, 7, p)
  <2>1. 5 + Len(e) <= Len(b) /\ 7 + Len(p) <= Len(b) /\ Len(e) \in Nat
    BY <1>3, <1>4, <1>7
  <2>2. Holds(b, 5, e)
    BY <1>3, <1>6, <2>1, HoldsBeginning
  <2>3. Holds(b, 7, p)
    BY <1>3, <1>6, <2>1, HoldsBeginning
  <2>4. QED
    BY <2>2, <2>3
<1>9. FieldAt(b, 5, Num) = Len(p)
  BY <1>3, <1>8, FieldRead DEF e
<1>10. SubSeq(b, 7 + 1, 7 + Len(p)) = p
  BY <1>2, <1>8, HoldsCopy
<1>11. HeaderSize + Size(Num) = 7
  BY <1>3
<1>12. HeaderSize + Size(Num) + Len(p) = Len(b)
  BY <1>3, <1>7, <1>11
<1>13. QED
  BY <1>3, <1>9, <1>10, <1>11, <1>12 DEF p

-----------------------------------------------------------------------------
(* The decoder's place.                                                    *)

Tx == [fields : Seq(Nat), sig : Seq(Nat)]
Item == Seq(Nat) \cup [fields : Seq(Nat), txs : Seq(Tx)]
Decoder == [group : DOMAIN Layout \cup {"none", "txs"}, cur : Seq(Nat), pos : Nat, left : Nat,
            txLeft : Nat, fields : Seq(Nat), txs : Seq(Tx), zeros : Nat, items : Seq(Item)]

\* The values of the group g behind k items and j transactions of the next,
\* and where the group begins.
Vals(m, g, k, j) ==
    CASE g = "register" -> m.body
      [] g = "peers"    -> <<Len(m.body)>>
      [] g = "peer"     -> m.body[k + 1]
      [] g = "chain"    -> <<m.body.zeros>>
      [] g = "count"    -> <<Len(m.body.blocks)>>
      [] g = "block"    -> BlockVals(m.body.blocks[k + 1])
      [] g = "tx"       -> m.body.blocks[k + 1].txs[j + 1].fields

From(m, g, k, j) ==
    CASE g = "register"         -> HeaderSize
      [] g \in {"peers", "chain"} -> 0
      [] g = "peer"             -> PeerAt(m.body, k)
      [] g = "count"            -> Len(ZerosHead(m.body))
      [] g = "block"            -> BlockAt(m.body, k)
      [] g \in {"txs", "tx"}    -> BlockAt(m.body, k) + TxAt(m.body.blocks[k + 1], j)

\* Which group belongs to which command.
KindOf(g) ==
    CASE g = "register"          -> COMMAND_REGISTER_PEER
      [] g \in {"peers", "peer"} -> COMMAND_SEND_PEER_LIST
      [] OTHER                   -> COMMAND_SEND_BLOCKCHAIN

\* What has been built is what was encoded, and the rest is counted right.
BuiltPeers(m, d) ==
    /\ Len(d.items) + 1 + d.left = Len(m.body)
    /\ \A i \in 1..Len(d.items) : d.items[i] = m.body[i]
BuiltBlocks(m, d) ==
    /\ Len(d.items) + 1 + d.left = Len(m.body.blocks)
    /\ \A i \in 1..Len(d.items) : BlockMeaning(d.items[i]) = BlockMeaning(m.body.blocks[i])
BuiltTxs(b, d, ahead) ==
    /\ d.fields = b.fields /\ Len(d.txs) + ahead + d.txLeft = Len(b.txs)
    /\ \A j \in 1..Len(d.txs) : TxMeaning(d.txs[j]) = TxMeaning(b.txs[j])

Built(m, d) ==
    /\ d.group # "none" /\ m.kind = KindOf(d.group)
    /\ d.group \in {"peers", "chain", "count"} => d.items = <<>>
    /\ d.group = "peer" => BuiltPeers(m, d)
    /\ d.group \in {"count", "block", "txs", "tx"} => d.zeros = m.body.zeros
    /\ d.group \in {"block", "txs", "tx"} => BuiltBlocks(m, d)
    /\ d.group = "txs" => BuiltTxs(m.body.blocks[Len(d.items) + 1], d, 0)
    /\ d.group = "tx" => BuiltTxs(m.body.blocks[Len(d.items) + 1], d, 1)

DVals(m, d) == Vals(m, d.group, Len(d.items), Len(d.txs))
DFrom(m, d) == From(m, d.group, Len(d.items), Len(d.txs))

Reading(m, d) ==
    /\ d.group \in DOMAIN Layout =>
          /\ Len(d.cur) <= Len(Layout[d.group])
          /\ \A i \in 1..Len(d.cur) : d.cur[i] = DVals(m, d)[i]
          /\ d.pos = DFrom(m, d) + Passed(Layout[d.group], DVals(m, d), Len(d.cur))
    /\ d.group = "txs" => d.pos = DFrom(m, d)

Doing(m, d) == Built(m, d) /\ Reading(m, d)

\* The fields of a decoder.
LEMMA DecoderFields ==
    ASSUME NEW d \in Decoder
    PROVE  /\ d.group \in DOMAIN Layout \cup {"none", "txs"} /\ d.cur \in Seq(Nat) /\ d.pos \in Nat
           /\ d.left \in Nat /\ d.txLeft \in Nat /\ d.fields \in Seq(Nat) /\ d.txs \in Seq(Tx)
           /\ d.zeros \in Nat /\ d.items \in Seq(Item)
           /\ Len(d.cur) \in Nat /\ Len(d.txs) \in Nat /\ Len(d.items) \in Nat
<1>1. /\ d.group \in DOMAIN Layout \cup {"none", "txs"} /\ d.cur \in Seq(Nat) /\ d.pos \in Nat
      /\ d.left \in Nat /\ d.txLeft \in Nat /\ d.fields \in Seq(Nat) /\ d.txs \in Seq(Tx)
      /\ d.zeros \in Nat /\ d.items \in Seq(Item)
  BY DEF Decoder
<1>2. Len(d.cur) \in Nat /\ Len(d.txs) \in Nat /\ Len(d.items) \in Nat
  BY <1>1
<1>3. QED
  BY <1>1, <1>2

\* Where a block and a transaction are in the chain.
LEMMA BlockHeld ==
    ASSUME NEW c \in ChainData, NEW k \in 1..Len(c.blocks)
    PROVE  LET b == c.blocks[k]
               o == BlockAt(c, k - 1) IN
           /\ b \in BlockData /\ o \in Nat /\ Holds(EncodeChain(c), o, BlockHead(b))
           /\ BlockAt(c, k) = o + TxAt(b, Len(b.txs)) /\ TxAt(b, 0) = Len(BlockHead(b))
           /\ \A j \in 0..Len(b.txs) : o + TxAt(b, j) \in Nat
           /\ \A j \in 1..Len(b.txs) :
                 LET t == b.txs[j]
                     f == Encode(Layout.tx, t.fields) IN
                 /\ t \in Transaction /\ Holds(EncodeChain(c), o + TxAt(b, j - 1), f)
                 /\ Holds(EncodeChain(c), o + TxAt(b, j - 1) + Len(f), t.sig)
                 /\ o + TxAt(b, j) = o + TxAt(b, j - 1) + Len(f) + SigSize
<1> DEFINE b == c.blocks[k]
           o == BlockAt(c, k - 1)
           P == EncodeChain(c)
           E == EncodeBlock(b)
<1>1. /\ P \in Seq(Nat) /\ b \in BlockData /\ E \in Seq(Nat) /\ Holds(P, o, E) /\ o \in Nat
      /\ BlockAt(c, k) = o + Len(E)
  <2>1. k - 1 \in 0..Len(c.blocks)
    OBVIOUS
  <2>2. QED
    BY <2>1, ChainPlaces
<1> HIDE DEF o, P
<1>2. /\ Holds(E, 0, BlockHead(b)) /\ Len(BlockHead(b)) \in Nat /\ TxAt(b, 0) = Len(BlockHead(b))
      /\ TxAt(b, Len(b.txs)) = Len(E)
      /\ \A j \in 0..Len(b.txs) : TxAt(b, j) \in Nat
  BY <1>1, BlockPlaces
<1>3. Len(P) \in Nat /\ Len(E) \in Nat /\ Len(b.txs) \in Nat
  BY <1>1, BlockFields
<1>4. Holds(P, o, BlockHead(b))
  <2>1. Holds(P, o + 0, BlockHead(b))
    BY <1>1, <1>2, <1>3, HoldsPart
  <2>2. o + 0 = o
    BY <1>1
  <2>3. QED
    BY <2>1, <2>2
<1>5. ASSUME NEW j \in 1..Len(b.txs)
      PROVE  LET t == b.txs[j]
                 f == Encode(Layout.tx, t.fields) IN
             /\ t \in Transaction /\ Holds(P, o + TxAt(b, j - 1), f)
             /\ Holds(P, o + TxAt(b, j - 1) + Len(f), t.sig)
             /\ o + TxAt(b, j) = o + TxAt(b, j - 1) + Len(f) + SigSize
  <2> DEFINE t == b.txs[j]
             f == Encode(Layout.tx, t.fields)
             a == TxAt(b, j - 1)
  <2>1. /\ t \in Transaction /\ TxAt(b, j) = a + Len(EncodeTx(t))
        /\ Holds(E, a, EncodeTx(t)) /\ EncodeTx(t) \in Seq(Nat)
    BY <1>1, BlockPlaces
  <2>2. a \in Nat
    <3>1. j - 1 \in 0..Len(b.txs)
      BY <1>3
    <3>2. QED
      BY <1>2, <3>1
  <2>3. /\ f \in Seq(Nat) /\ t.sig \in Seq(Nat) /\ Len(EncodeTx(t)) = Len(f) + SigSize
        /\ Holds(EncodeTx(t), 0, f) /\ Holds(EncodeTx(t), Len(f), t.sig)
    BY <2>1, TxPlaces
  <2>4. Len(f) \in Nat /\ Len(t.sig) \in Nat /\ Len(EncodeTx(t)) \in Nat /\ SigSize \in Nat
    <3> DEFINE g == t.sig
               e == EncodeTx(t)
    <3>1. f \in Seq(Nat) /\ g \in Seq(Nat) /\ e \in Seq(Nat)
      BY <2>1, <2>3
    <3> HIDE DEF f, g, e
    <3>2. Len(f) \in Nat /\ Len(g) \in Nat /\ Len(e) \in Nat
      BY <3>1
    <3>3. QED
      BY <3>2, WireAssumption DEF g, e
  <2> HIDE DEF t, f, a, b, E
  <2>5. Holds(P, o + a, EncodeTx(t)) /\ o + a \in Nat
    BY <1>1, <1>3, <2>1, <2>2, <2>4, HoldsPart
  <2>6. Holds(P, (o + a) + 0, f) /\ Holds(P, (o + a) + Len(f), t.sig)
    BY <1>1, <1>3, <2>3, <2>4, <2>5, HoldsPart
  <2>7. (o + a) + 0 = o + a
    BY <2>5
  <2>8. TxAt(b, j) = a + (Len(f) + SigSize)
    BY <2>1, <2>3
  <2>9. o + TxAt(b, j) = o + a + Len(f) + SigSize
    BY <1>1, <2>2, <2>4, <2>8
  <2>10. QED
    BY <2>1, <2>6, <2>7, <2>9 DEF t, f, a
<1>6. \A j \in 0..Len(b.txs) : o + TxAt(b, j) \in Nat
  BY <1>1, <1>2
<1>7. QED
  BY <1>1, <1>2, <1>4, <1>5, <1>6 DEF o, P

\* The group the decoder is in is held by the payload where it looks for it.
LEMMA GroupHeld ==
    ASSUME NEW m \in Message, NEW d \in Decoder, Built(m, d), d.group \in DOMAIN Layout
    PROVE  /\ DVals(m, d) \in [DOMAIN Layout[d.group] -> Nat] /\ DFrom(m, d) \in Nat
           /\ Holds(Payload(m), DFrom(m, d), Encode(Layout[d.group], DVals(m, d)))
           /\ Payload(m) \in Seq(Nat)
<1> DEFINE k == Len(d.items)
           j == Len(d.txs)
<1>0. k \in Nat /\ j \in Nat /\ d.left \in Nat /\ d.txLeft \in Nat
  BY DecoderFields
<1>1. CASE d.group = "register"
  <2>1. m.kind = COMMAND_REGISTER_PEER
    BY <1>1 DEF Built, KindOf
  <2>2. DVals(m, d) = m.body /\ DFrom(m, d) = HeaderSize /\ HeaderSize \in Nat
    BY <1>1 DEF DVals, DFrom, Vals, From, HeaderSize
  <2>3. Payload(m) = Serialize(m)
    BY <2>1, Commands DEF Payload
  <2> DEFINE e == Encode(Layout.register, m.body)
  <2>4. /\ m.body \in [DOMAIN Layout.register -> Nat] /\ Holds(Data(m), 0, e) /\ e \in Seq(Nat)
        /\ Data(m) \in Seq(Nat)
    BY <2>1, MessageBytes
  <2>5. Serialize(m) \in Seq(Nat) /\ Holds(Serialize(m), HeaderSize, Data(m))
    BY MessageStream
  <2> HIDE DEF e
  <2>6. Len(Serialize(m)) \in Nat /\ Len(Data(m)) \in Nat /\ Len(e) \in Nat
    BY <2>4, <2>5
  <2>7. Holds(Serialize(m), HeaderSize + 0, e)
    BY <2>2, <2>4, <2>5, <2>6, HoldsPart
  <2>8. HeaderSize + 0 = HeaderSize
    BY <2>2
  <2>9. QED
    BY <1>1, <2>2, <2>3, <2>4, <2>5, <2>7, <2>8 DEF e
<1>2. CASE d.group \in {"peers", "peer"}
  <2>1. m.kind = COMMAND_SEND_PEER_LIST
    BY <1>2 DEF Built, KindOf
  <2>2. m.body \in Peers
    BY <2>1, MessageKinds
  <2>3. Payload(m) = EncodePeers(m.body)
    BY <2>1, Commands DEF Payload
  <2>4. CASE d.group = "peers"
    <3>1. DVals(m, d) = <<Len(m.body)>> /\ DFrom(m, d) = 0
      BY <2>4 DEF DVals, DFrom, Vals, From
    <3>2. <<Len(m.body)>> \in [DOMAIN Layout.peers -> Nat]
      BY <2>2, FieldsVals DEF Peers
    <3>3. /\ EncodePeers(m.body) \in Seq(Nat)
          /\ Holds(EncodePeers(m.body), 0, Encode(Layout.peers, <<Len(m.body)>>))
      BY <2>2, PeersPlaces DEF PeersHead
    <3>4. QED
      BY <2>3, <2>4, <3>1, <3>2, <3>3
  <2>5. CASE d.group = "peer"
    <3>1. DVals(m, d) = m.body[k + 1] /\ DFrom(m, d) = PeerAt(m.body, k)
      BY <2>5 DEF DVals, DFrom, Vals, From
    <3>2. k + 1 + d.left = Len(m.body)
      BY <2>5 DEF Built, BuiltPeers
    <3> HIDE DEF k
    <3>3. k + 1 \in 1..Len(m.body) /\ (k + 1) - 1 = k /\ k \in 0..Len(m.body)
      BY <1>0, <3>2
    <3>4. /\ EncodePeers(m.body) \in Seq(Nat) /\ PeerAt(m.body, k) \in Nat
          /\ Holds(EncodePeers(m.body), PeerAt(m.body, k), EncodePeer(m.body[k + 1]))
          /\ m.body[k + 1] \in [DOMAIN Layout.peer -> Nat]
      BY <2>2, <3>3, PeersPlaces
    <3>5. EncodePeer(m.body[k + 1]) = Encode(Layout.peer, m.body[k + 1])
      BY DEF EncodePeer
    <3>6. QED
      BY <2>3, <2>5, <3>1, <3>4, <3>5
  <2>6. QED
    BY <1>2, <2>4, <2>5
<1>3. CASE d.group \in {"chain", "count", "block", "tx"}
  <2>1. m.kind = COMMAND_SEND_BLOCKCHAIN
    BY <1>3 DEF Built, KindOf
  <2> DEFINE c == m.body
             P == EncodeChain(c)
  <2>2. c \in ChainData
    BY <2>1, MessageKinds
  <2>3. Payload(m) = P
    BY <2>1, Commands DEF Payload
  <2>4. /\ P \in Seq(Nat) /\ Holds(P, 0, ZerosHead(c)) /\ Holds(P, Len(ZerosHead(c)), CountHead(c))
        /\ <<c.zeros>> \in [DOMAIN Layout.chain -> Nat] /\ Len(ZerosHead(c)) \in Nat
        /\ <<Len(c.blocks)>> \in [DOMAIN Layout.count -> Nat] /\ Len(c.blocks) \in Nat
    BY <2>2, ChainPlaces
  <2>5. CASE d.group = "chain"
    <3>1. DVals(m, d) = <<c.zeros>> /\ DFrom(m, d) = 0
      BY <2>5 DEF DVals, DFrom, Vals, From
    <3>2. QED
      BY <2>3, <2>4, <2>5, <3>1 DEF ZerosHead
  <2>6. CASE d.group = "count"
    <3>1. DVals(m, d) = <<Len(c.blocks)>> /\ DFrom(m, d) = Len(ZerosHead(c))
      BY <2>6 DEF DVals, DFrom, Vals, From
    <3>2. QED
      BY <2>3, <2>4, <2>6, <3>1 DEF CountHead
  <2>7. CASE d.group \in {"block", "tx"}
    <3>1. k + 1 + d.left = Len(c.blocks)
      BY <2>7 DEF Built, BuiltBlocks
    <3> DEFINE b == c.blocks[k + 1]
               o == BlockAt(c, k)
    <3>2. k + 1 \in 1..Len(c.blocks) /\ (k + 1) - 1 = k
      <4> HIDE DEF k, c
      <4>1. QED
        BY <1>0, <2>4, <3>1
    <3>3. /\ b \in BlockData /\ o \in Nat /\ Holds(P, o, BlockHead(b))
          /\ \A i \in 0..Len(b.txs) : o + TxAt(b, i) \in Nat
          /\ \A i \in 1..Len(b.txs) :
                /\ b.txs[i] \in Transaction
                /\ Holds(P, o + TxAt(b, i - 1), Encode(Layout.tx, b.txs[i].fields))
      <4> HIDE DEF k, c
      <4>1. QED
        BY <2>2, <3>2, BlockHeld
    <3>4. CASE d.group = "block"
      <4>1. DVals(m, d) = BlockVals(b) /\ DFrom(m, d) = o
        BY <3>4 DEF DVals, DFrom, Vals, From
      <4>2. BlockVals(b) \in [DOMAIN Layout.block -> Nat]
        BY <3>3, BlockFields
      <4> HIDE DEF b, o
      <4>3. QED
        BY <2>3, <2>4, <3>3, <3>4, <4>1, <4>2 DEF BlockHead
    <3>5. CASE d.group = "tx"
      <4>1. DVals(m, d) = b.txs[j + 1].fields /\ DFrom(m, d) = o + TxAt(b, j)
        BY <3>5 DEF DVals, DFrom, Vals, From
      <4>2. j + 1 + d.txLeft = Len(b.txs)
        BY <3>5 DEF Built, BuiltTxs
      <4> HIDE DEF b, o, j
      <4>3. j + 1 \in 1..Len(b.txs) /\ (j + 1) - 1 = j /\ j \in 0..Len(b.txs)
        <5>1. Len(b.txs) \in Nat
          BY <3>3, BlockFields
        <5>2. QED
          BY <1>0, <4>2, <5>1
      <4>4. b.txs[j + 1] \in Transaction /\ o + TxAt(b, j) \in Nat
            /\ Holds(P, o + TxAt(b, j), Encode(Layout.tx, b.txs[j + 1].fields))
        BY <3>3, <4>3
      <4>5. b.txs[j + 1].fields \in [DOMAIN Layout.tx -> Nat]
        BY <4>4, TxPlaces
      <4>6. QED
        BY <2>3, <2>4, <3>5, <4>1, <4>4, <4>5
    <3>6. QED
      BY <2>7, <3>4, <3>5
  <2>8. QED
    BY <1>3, <2>5, <2>6, <2>7
<1>4. QED
  BY <1>1, <1>2, <1>3, Layouts

\* The next field, where it ends, and the decoder that has read it.
Kind(d) == Layout[d.group][Len(d.cur) + 1]
End(d) == d.pos + Size(Kind(d))
FieldTaken(d, b) == [d EXCEPT !.cur = Append(@, FieldAt(b, d.pos, Kind(d))), !.pos = End(d)]

\* The next field is inside the payload, and reading it goes on as it should.
LEMMA FieldStep ==
    ASSUME NEW m \in Message, NEW d \in Decoder, Doing(m, d), d.group \in DOMAIN Layout,
           Len(d.cur) < Len(Layout[d.group]), NEW b \in Seq(Nat), Holds(Payload(m), 0, b)
    PROVE  /\ End(d) \in Nat /\ End(d) <= Len(Payload(m)) /\ Len(Payload(m)) \in Nat
           /\ End(d) <= Len(b) => /\ FieldTaken(d, b) \in Decoder /\ Doing(m, FieldTaken(d, b))
                                  /\ FieldTaken(d, b).group = d.group
<1> DEFINE layout == Layout[d.group]
           vals == DVals(m, d)
           o == DFrom(m, d)
           P == Payload(m)
           i == Len(d.cur) + 1
           f == EncodeField(layout[i], vals[i])
           Pass(j) == Passed(layout, vals, j)
           kind == Kind(d)
           end == End(d)
           e == FieldTaken(d, b)
<1>1. /\ vals \in [DOMAIN layout -> Nat] /\ o \in Nat /\ Holds(P, o, Encode(layout, vals))
      /\ P \in Seq(Nat) /\ layout \in Seq({Num, Raw})
  BY GroupHeld, Layouts DEF Doing
<1>2. Len(d.cur) \in Nat /\ Len(layout) \in Nat /\ Len(P) \in Nat /\ Len(b) \in Nat
  BY <1>1, DecoderFields
<1>3. d.pos = o + Pass(Len(d.cur)) /\ \A j \in 1..Len(d.cur) : d.cur[j] = vals[j]
  BY DEF Doing, Reading
<1>4. i \in 1..Len(layout) /\ i - 1 = Len(d.cur) /\ layout[i] = kind
  BY <1>2 DEF Kind
<1>e. end = d.pos + Size(kind)
  BY DEF End
<1> HIDE DEF layout, vals, o, P, i, kind, end
<1>5. /\ Holds(P, o + Pass(i - 1), f) /\ o + Pass(i) = (o + Pass(i - 1)) + Size(layout[i])
      /\ o + Pass(i) <= Len(P) /\ Pass(i - 1) \in Nat /\ Pass(i) \in Nat
  BY <1>1, <1>4, FieldHeld
<1>6. layout[i] \in {Num, Raw} /\ vals[i] \in Nat
  BY <1>1, <1>4
<1>7. Len(f) = Size(layout[i]) /\ Len(f) \in Nat
  <2>1. Len(f) = Size(layout[i]) /\ Size(layout[i]) \in {1, 2}
    BY <1>6, FieldSize
  <2> HIDE DEF f
  <2>2. QED
    BY <2>1
<1> HIDE DEF f, Pass
<1>8. end = o + Pass(i) /\ end \in Nat /\ end <= Len(P) /\ d.pos \in Nat /\ end = d.pos + Len(f)
      /\ Holds(P, d.pos, f)
  <2>1. d.pos = o + Pass(i - 1) /\ end = d.pos + Size(layout[i])
    BY <1>3, <1>4, <1>e
  <2>2. Holds(P, d.pos, f)
    BY <1>5, <2>1
  <2>3. o + Pass(i) = (o + Pass(i - 1)) + Size(layout[i]) /\ o + Pass(i) <= Len(P)
    BY <1>5
  <2>4. o \in Nat /\ Pass(i - 1) \in Nat /\ Pass(i) \in Nat
    BY <1>1, <1>5
  <2>5. end = o + Pass(i)
    BY <2>1, <2>3
  <2>6. o + Pass(i) \in Nat /\ o + Pass(i - 1) \in Nat
    BY <2>4
  <2>7. end \in Nat /\ d.pos \in Nat
    BY <2>1, <2>5, <2>6
  <2>8. end <= Len(P) /\ end = d.pos + Len(f)
    BY <1>7, <2>1, <2>3, <2>5
  <2>9. QED
    BY <2>2, <2>5, <2>7, <2>8
<1>9. ASSUME end <= Len(b) PROVE e \in Decoder /\ Doing(m, e) /\ e.group = d.group
  <2>1. Holds(P, 0, b)
    BY DEF P
  <2>2. Holds(b, d.pos, f)
    BY <1>2, <1>7, <1>8, <1>9, <2>1, HoldsBeginning
  <2> DEFINE v == FieldAt(b, d.pos, kind)
             cur == Append(d.cur, v)
  <2>3. v = vals[i]
    BY <1>4, <1>6, <1>8, <2>2, FieldRead DEF f
  <2>4. v \in Nat
    BY <1>6, <2>3
  <2>5. e = [d EXCEPT !.cur = cur, !.pos = end]
    BY DEF FieldTaken, kind, end
  <2> HIDE DEF v, e
  <2>6. cur \in Seq(Nat) /\ Len(cur) = Len(d.cur) + 1
    BY <2>4, DecoderFields
  <2>7. cur[Len(d.cur) + 1] = v
    BY <2>4, DecoderFields
  <2>8. \A j \in 1..Len(d.cur) : cur[j] = d.cur[j]
    BY <2>4, DecoderFields
  <2> HIDE DEF cur
  <2>9. /\ e \in Decoder /\ e.cur = cur /\ e.pos = end /\ e.group = d.group /\ e.items = d.items
        /\ e.txs = d.txs /\ e.left = d.left /\ e.txLeft = d.txLeft /\ e.fields = d.fields
        /\ e.zeros = d.zeros
    BY <1>8, <2>5, <2>6 DEF Decoder
  <2>10. Built(m, e)
    BY <2>9 DEF Doing, Built, BuiltPeers, BuiltBlocks, BuiltTxs
  <2>11. DVals(m, e) = vals /\ DFrom(m, e) = o
    BY <2>9 DEF DVals, DFrom, vals, o
  <2>12. \A j \in 1..Len(cur) : cur[j] = vals[j]
    <3>1. \A j \in 1..Len(cur) : j \in 1..Len(d.cur) \/ j = Len(d.cur) + 1
      <4> DEFINE n == Len(d.cur)
      <4>1. n \in Nat /\ Len(cur) = n + 1
        BY <1>2, <2>6
      <4> HIDE DEF n
      <4>2. \A j \in 1..(n + 1) : j \in 1..n \/ j = n + 1
        BY <4>1
      <4>3. QED
        BY <4>1, <4>2 DEF n
    <3>2. \A j \in 1..Len(d.cur) : cur[j] = vals[j]
      BY <1>3, <2>8
    <3>3. cur[Len(d.cur) + 1] = vals[Len(d.cur) + 1]
      BY <2>3, <2>7 DEF i
    <3>4. QED
      BY <3>1, <3>2, <3>3
  <2>13. Len(cur) = i /\ i <= Len(layout)
    BY <1>4, <2>6 DEF i
  <2>14. e.pos = o + Passed(layout, vals, Len(cur))
    BY <1>8, <2>9, <2>13 DEF Pass
  <2>15. e.group # "txs"
    BY <2>9, Layouts
  <2>16. Reading(m, e)
    BY <2>9, <2>11, <2>12, <2>13, <2>14, <2>15 DEF Reading, layout
  <2>17. QED
    BY <2>9, <2>10, <2>16 DEF Doing
<1>10. QED
  BY <1>2, <1>8, <1>9 DEF P, end

\* The values of a layout are a sequence.
LEMMA ValsSeq ==
    ASSUME NEW layout \in Seq({Num, Raw}), NEW vals \in [DOMAIN layout -> Nat]
    PROVE  vals \in Seq(Nat) /\ Len(vals) = Len(layout)
<1>1. DOMAIN layout = 1..Len(layout) /\ Len(layout) \in Nat
  OBVIOUS
<1>2. vals \in [1..Len(layout) -> Nat]
  BY <1>1
<1>3. QED
  BY <1>1, <1>2, ArraySeq

\* When all fields of a group have been read, they are its values, and the
\* position is behind it.
LEMMA GroupRead ==
    ASSUME NEW m \in Message, NEW d \in Decoder, Doing(m, d), d.group \in DOMAIN Layout,
           Len(d.cur) = Len(Layout[d.group])
    PROVE  /\ d.pos = DFrom(m, d) + Len(Encode(Layout[d.group], DVals(m, d)))
           /\ d.cur = DVals(m, d)
<1> DEFINE layout == Layout[d.group]
           vals == DVals(m, d)
<1>1. vals \in [DOMAIN layout -> Nat] /\ layout \in Seq({Num, Raw})
  BY GroupHeld, Layouts DEF Doing
<1>2. /\ d.pos = DFrom(m, d) + Passed(layout, vals, Len(layout))
      /\ Len(d.cur) = Len(layout) /\ \A i \in 1..Len(d.cur) : d.cur[i] = vals[i]
  BY DEF Doing, Reading
<1> HIDE DEF layout, vals
<1>3. Passed(layout, vals, Len(layout)) = Len(Encode(layout, vals))
  BY <1>1, FieldPlaces
<1>4. vals \in Seq(Nat) /\ Len(vals) = Len(layout)
  BY <1>1, ValsSeq
<1>5. d.cur \in Seq(Nat) /\ Len(d.cur) = Len(vals) /\ \A i \in 1..Len(vals) : d.cur[i] = vals[i]
  BY <1>2, <1>4, DecoderFields
<1>6. d.cur = vals
  BY <1>4, <1>5, SameSeq
<1>7. QED
  BY <1>2, <1>3, <1>6 DEF layout, vals

\* The receiver has got what the sender had.
Finished(m, d) ==
    CASE m.kind = COMMAND_REGISTER_PEER   -> d.cur = m.body
      [] m.kind = COMMAND_SEND_PEER_LIST  -> d.items = m.body
      [] m.kind = COMMAND_SEND_BLOCKCHAIN ->
            Meaning(d.zeros, d.items) = Meaning(m.body.zeros, m.body.blocks)

\* The beginning of a group.
LEMMA Fresh ==
    ASSUME NEW m \in Message, NEW e \in Decoder, Built(m, e), e.group \in DOMAIN Layout,
           e.cur = <<>>, e.pos = DFrom(m, e)
    PROVE  Doing(m, e)
<1> DEFINE layout == Layout[e.group]
           vals == DVals(m, e)
<1>1. /\ vals \in [DOMAIN layout -> Nat] /\ DFrom(m, e) \in Nat /\ layout \in Seq({Num, Raw})
  BY GroupHeld, Layouts
<1> HIDE DEF layout, vals
<1>2. Passed(layout, vals, 0) = 0 /\ Len(layout) \in Nat
  BY <1>1, FieldPlaces
<1>3. Len(e.cur) = 0
  OBVIOUS
<1>4. e.pos = DFrom(m, e) + Passed(layout, vals, Len(e.cur))
  BY <1>1, <1>2, <1>3
<1>5. Len(e.cur) <= Len(layout)
  BY <1>2, <1>3
<1>6. 1..Len(e.cur) = {}
  BY <1>3
<1>7. e.group # "txs"
  BY Layouts
<1>8. Reading(m, e)
  BY <1>4, <1>5, <1>6, <1>7 DEF Reading, layout, vals
<1>9. QED
  BY <1>8 DEF Doing

\* Going on to the next item changes the group, the fields and the counter.
Took(d, g) == [d EXCEPT !.group = g, !.cur = <<>>, !.left = @ - 1]

LEMMA ItemTaken ==
    ASSUME NEW d \in Decoder, d.left # 0, NEW g \in DOMAIN Layout
    PROVE  /\ Took(d, g) \in Decoder /\ Took(d, g).group = g /\ Took(d, g).cur = <<>>
           /\ Took(d, g).left = d.left - 1 /\ Took(d, g).pos = d.pos
           /\ Took(d, g).items = d.items /\ Took(d, g).txs = d.txs /\ Took(d, g).zeros = d.zeros
           /\ Took(d, g).txLeft = d.txLeft /\ Took(d, g).fields = d.fields
<1>1. d.left - 1 \in Nat /\ d.left \in Nat
  BY DecoderFields
<1>2. <<>> \in Seq(Nat)
  OBVIOUS
<1>3. QED
  BY <1>1, <1>2 DEF Decoder, Took

\* peer_info as it was registered.
LEMMA RegisterStep ==
    ASSUME NEW m \in Message, NEW d \in Decoder, Doing(m, d), d.group = "register",
           Len(d.cur) = Len(Layout["register"])
    PROVE  Finished(m, d)
<1>1. m.kind = COMMAND_REGISTER_PEER
  BY DEF Doing, Built, KindOf
<1>2. DVals(m, d) = m.body /\ d.group \in DOMAIN Layout
  BY DEF DVals, Vals, Layout
<1>3. d.cur = m.body
  BY <1>2, GroupRead
<1>4. QED
  BY <1>1, <1>3, Commands DEF Finished

\* The number of items has been read.
Counted(d) == [d EXCEPT !.left = d.cur[1]]

LEMMA CountedFields ==
    ASSUME NEW d \in Decoder, d.cur[1] \in Nat
    PROVE  /\ Counted(d) \in Decoder /\ Counted(d).left = d.cur[1] /\ Counted(d).pos = d.pos
           /\ Counted(d).items = d.items /\ Counted(d).txs = d.txs /\ Counted(d).zeros = d.zeros
BY DEF Decoder, Counted

LEMMA PeersStep ==
    ASSUME NEW m \in Message, NEW d \in Decoder, Doing(m, d), d.group = "peers",
           Len(d.cur) = Len(Layout["peers"])
    PROVE  /\ Counted(d) \in Decoder
           /\ Counted(d).left = 0 => Finished(m, Counted(d))
           /\ Counted(d).left # 0 => /\ Took(Counted(d), "peer") \in Decoder
                                     /\ Doing(m, Took(Counted(d), "peer"))
                                     /\ Took(Counted(d), "peer").group = "peer"
<1> DEFINE f == Counted(d)
           e == Took(f, "peer")
<1>1. m.kind = COMMAND_SEND_PEER_LIST /\ d.items = <<>>
  BY DEF Doing, Built, KindOf
<1>2. m.body \in Peers /\ Len(m.body) \in Nat
  BY <1>1, MessageKinds DEF Peers
<1>3. DVals(m, d) = <<Len(m.body)>> /\ DFrom(m, d) = 0 /\ d.group \in DOMAIN Layout
  BY DEF DVals, Vals, DFrom, From, Layout
<1>4. d.cur[1] = Len(m.body)
  BY <1>3, GroupRead
<1>5. d.pos = Len(PeersHead(m.body))
  <2>1. d.pos = 0 + Len(PeersHead(m.body))
    BY <1>3, GroupRead DEF PeersHead
  <2>2. Len(PeersHead(m.body)) \in Nat
    BY <1>2, PeersPlaces
  <2>3. QED
    BY <2>1, <2>2
<1>6. f \in Decoder /\ f.left = Len(m.body) /\ f.pos = d.pos /\ f.items = d.items
  BY <1>2, <1>4, CountedFields
<1> HIDE DEF f
<1>7. ASSUME f.left = 0 PROVE Finished(m, f)
  <2>1. Len(m.body) = 0 /\ m.body \in Seq(Fields(Layout.peer))
    BY <1>2, <1>6, <1>7 DEF Peers
  <2>2. m.body = <<>>
    BY <2>1
  <2>3. QED
    BY <1>1, <1>6, <2>2, Commands DEF Finished
<1>8. ASSUME f.left # 0 PROVE e \in Decoder /\ Doing(m, e) /\ e.group = "peer"
  <2>1. "peer" \in DOMAIN Layout
    BY DEF Layout
  <2>2. /\ e \in Decoder /\ e.group = "peer" /\ e.cur = <<>> /\ e.left = f.left - 1
        /\ e.pos = f.pos /\ e.items = f.items
    BY <1>6, <1>8, <2>1, ItemTaken
  <2> HIDE DEF e
  <2>3. Len(e.items) = 0
    BY <1>1, <1>6, <2>2
  <2>4. BuiltPeers(m, e)
    <3> DEFINE n == Len(m.body)
    <3>1. n \in Nat /\ e.left = n - 1
      BY <1>2, <1>6, <2>2
    <3> HIDE DEF n
    <3>2. Len(e.items) + 1 + e.left = n
      BY <2>3, <3>1
    <3>3. QED
      BY <2>3, <3>2 DEF BuiltPeers, n
  <2>5. Built(m, e)
    BY <1>1, <2>2, <2>4 DEF Built, KindOf
  <2>6. DFrom(m, e) = PeerAt(m.body, 0)
    BY <2>2, <2>3 DEF DFrom, From
  <2>7. e.pos = DFrom(m, e)
    BY <1>2, <1>5, <1>6, <2>2, <2>6, PeersPlaces
  <2>8. QED
    BY <2>1, <2>2, <2>5, <2>7, Fresh
<1>9. QED
  BY <1>6, <1>7, <1>8 DEF f

\* A peer has been read.
PeerAdded(d) == [d EXCEPT !.items = Append(@, d.cur)]

LEMMA PeerStep ==
    ASSUME NEW m \in Message, NEW d \in Decoder, Doing(m, d), d.group = "peer",
           Len(d.cur) = Len(Layout["peer"])
    PROVE  /\ PeerAdded(d) \in Decoder
           /\ PeerAdded(d).left = 0 => Finished(m, PeerAdded(d))
           /\ PeerAdded(d).left # 0 => /\ Took(PeerAdded(d), "peer") \in Decoder
                                       /\ Doing(m, Took(PeerAdded(d), "peer"))
                                       /\ Took(PeerAdded(d), "peer").group = "peer"
<1> DEFINE k == Len(d.items)
           n == Len(m.body)
           s == Append(d.items, d.cur)
           p == m.body[k + 1]
           f == PeerAdded(d)
           e == Took(f, "peer")
<1>1. m.kind = COMMAND_SEND_PEER_LIST /\ BuiltPeers(m, d)
  BY DEF Doing, Built, KindOf
<1>2. m.body \in Peers /\ m.body \in Seq(Fields(Layout.peer)) /\ n \in Nat
  BY <1>1, MessageKinds DEF Peers
<1>3. DVals(m, d) = p /\ DFrom(m, d) = PeerAt(m.body, k) /\ d.group \in DOMAIN Layout
  BY DEF DVals, Vals, DFrom, From, Layout
<1>4. /\ k \in Nat /\ d.left \in Nat /\ d.items \in Seq(Item) /\ d.cur \in Seq(Nat)
      /\ d.cur \in Item
  BY DecoderFields DEF Item
<1>5. k + 1 + d.left = n /\ \A i \in 1..k : d.items[i] = m.body[i]
  BY <1>1 DEF BuiltPeers
<1>6. s \in Seq(Item) /\ Len(s) = k + 1
  BY <1>4
<1>7. s[k + 1] = d.cur
  BY <1>4
<1>8. \A i \in 1..k : s[i] = d.items[i]
  BY <1>4
<1>9. f = [d EXCEPT !.items = s]
  BY DEF PeerAdded
<1> HIDE DEF s, k, n, f
<1>k. k \in Nat /\ d.left \in Nat /\ n \in Nat /\ k + 1 + d.left = n
  BY <1>2, <1>4, <1>5
<1>10. d.cur = p /\ d.pos = PeerAt(m.body, k) + Len(Encode(Layout["peer"], p))
  BY <1>3, GroupRead
<1> HIDE DEF p
<1>11. \A i \in 1..(k + 1) : s[i] = m.body[i]
  <2>1. \A i \in 1..(k + 1) : i \in 1..k \/ i = k + 1
    BY <1>k
  <2>2. QED
    BY <1>5, <1>7, <1>8, <1>10, <2>1 DEF p
<1>12. /\ f \in Decoder /\ f.items = s /\ f.left = d.left /\ f.pos = d.pos /\ f.txs = d.txs
  BY <1>6, <1>9 DEF Decoder
<1>13. ASSUME f.left = 0 PROVE Finished(m, f)
  <2>1. n = k + 1
    BY <1>k, <1>12, <1>13
  <2>2. s = m.body
    BY <1>2, <1>6, <1>11, <2>1, SameSeq DEF n
  <2>3. QED
    BY <1>1, <1>12, <2>2, Commands DEF Finished
<1>14. ASSUME f.left # 0 PROVE e \in Decoder /\ Doing(m, e) /\ e.group = "peer"
  <2>1. "peer" \in DOMAIN Layout
    BY DEF Layout
  <2>2. /\ e \in Decoder /\ e.group = "peer" /\ e.cur = <<>> /\ e.left = d.left - 1
        /\ e.pos = d.pos /\ e.items = s
    BY <1>12, <1>14, <2>1, ItemTaken
  <2> HIDE DEF e
  <2>3. (k + 1) + 1 + e.left = n
    BY <1>k, <2>2
  <2>4. BuiltPeers(m, e)
    BY <1>6, <1>11, <2>2, <2>3 DEF BuiltPeers, n
  <2>5. Built(m, e)
    BY <1>1, <2>2, <2>4 DEF Built, KindOf
  <2>6. DFrom(m, e) = PeerAt(m.body, k + 1)
    BY <1>6, <2>2 DEF DFrom, From
  <2>8. k + 1 \in 1..n /\ (k + 1) - 1 = k
    BY <1>k
  <2>9. PeerAt(m.body, k + 1) = PeerAt(m.body, k) + Len(Encode(Layout.peer, p))
    BY <1>2, <2>8, PeersPlaces DEF n, p, EncodePeer
  <2>10. e.pos = DFrom(m, e)
    BY <1>10, <2>2, <2>6, <2>9
  <2>11. QED
    BY <2>1, <2>2, <2>5, <2>10, Fresh
<1>15. QED
  BY <1>12, <1>13, <1>14 DEF f

\* The number of leading zeros has been read.
ZerosRead(d) == [d EXCEPT !.zeros = d.cur[1], !.group = "count", !.cur = <<>>]

LEMMA ZerosStep ==
    ASSUME NEW m \in Message, NEW d \in Decoder, Doing(m, d), d.group = "chain",
           Len(d.cur) = Len(Layout["chain"])
    PROVE  /\ ZerosRead(d) \in Decoder /\ Doing(m, ZerosRead(d))
           /\ ZerosRead(d).group = "count"
<1> DEFINE e == ZerosRead(d)
           c == m.body
<1>1. m.kind = COMMAND_SEND_BLOCKCHAIN /\ d.items = <<>>
  BY DEF Doing, Built, KindOf
<1>2. c \in ChainData
  BY <1>1, MessageKinds
<1>3. DVals(m, d) = <<c.zeros>> /\ DFrom(m, d) = 0 /\ d.group \in DOMAIN Layout
  BY DEF DVals, Vals, DFrom, From, Layout
<1>4. d.cur[1] = c.zeros /\ d.pos = 0 + Len(ZerosHead(c))
  BY <1>3, GroupRead DEF ZerosHead
<1>5. c.zeros \in Nat /\ Len(ZerosHead(c)) \in Nat
  BY <1>2, ChainPlaces DEF ChainData
<1>6. "count" \in DOMAIN Layout /\ <<>> \in Seq(Nat)
  BY DEF Layout
<1>7. /\ e \in Decoder /\ e.zeros = c.zeros /\ e.group = "count" /\ e.cur = <<>>
      /\ e.items = d.items /\ e.pos = d.pos
  BY <1>4, <1>5, <1>6 DEF Decoder, ZerosRead
<1> HIDE DEF e
<1>8. Built(m, e)
  BY <1>1, <1>7 DEF Built, KindOf
<1>9. DFrom(m, e) = Len(ZerosHead(c))
  BY <1>7 DEF DFrom, From
<1>10. e.pos = DFrom(m, e)
  BY <1>4, <1>5, <1>7, <1>9
<1>11. Doing(m, e)
  BY <1>6, <1>7, <1>8, <1>10, Fresh
<1>12. QED
  BY <1>7, <1>11 DEF e

\* The number of blocks has been read.
LEMMA CountStep ==
    ASSUME NEW m \in Message, NEW d \in Decoder, Doing(m, d), d.group = "count",
           Len(d.cur) = Len(Layout["count"])
    PROVE  /\ Counted(d) \in Decoder
           /\ Counted(d).left = 0 => Finished(m, Counted(d))
           /\ Counted(d).left # 0 => /\ Took(Counted(d), "block") \in Decoder
                                     /\ Doing(m, Took(Counted(d), "block"))
                                     /\ Took(Counted(d), "block").group = "block"
<1> DEFINE f == Counted(d)
           e == Took(f, "block")
           c == m.body
           n == Len(c.blocks)
<1>1. m.kind = COMMAND_SEND_BLOCKCHAIN /\ d.items = <<>> /\ d.zeros = c.zeros
  BY DEF Doing, Built, KindOf
<1>2. c \in ChainData /\ c.blocks \in Seq(BlockData) /\ n \in Nat
  BY <1>1, MessageKinds DEF ChainData
<1>3. /\ DVals(m, d) = <<n>> /\ DFrom(m, d) = Len(ZerosHead(c)) /\ d.group \in DOMAIN Layout
  BY DEF DVals, Vals, DFrom, From, Layout
<1>4. d.cur[1] = n /\ d.pos = Len(ZerosHead(c)) + Len(CountHead(c))
  <2>1. /\ d.cur = DVals(m, d)
        /\ d.pos = DFrom(m, d) + Len(Encode(Layout["count"], DVals(m, d)))
    BY <1>3, GroupRead
  <2>2. d.cur = <<n>>
    BY <1>3, <2>1
  <2>3. d.pos = Len(ZerosHead(c)) + Len(Encode(Layout.count, <<n>>))
    BY <1>3, <2>1
  <2>4. QED
    BY <2>2, <2>3 DEF CountHead
<1>5. BlockAt(c, 0) = Len(ZerosHead(c)) + Len(CountHead(c))
  BY <1>2, ChainPlaces
<1>6. /\ f \in Decoder /\ f.left = n /\ f.pos = d.pos /\ f.items = d.items /\ f.zeros = d.zeros
  BY <1>2, <1>4, CountedFields
<1> HIDE DEF f
<1>7. ASSUME f.left = 0 PROVE Finished(m, f)
  <2>1. c.blocks = <<>>
    <3>1. n = 0
      BY <1>6, <1>7
    <3>2. QED
      BY <1>2, <3>1
  <2>2. Meaning(f.zeros, f.items) = Meaning(c.zeros, c.blocks)
    BY <1>1, <1>6, <2>1
  <2>3. QED
    BY <1>1, <2>2, Commands DEF Finished
<1>8. ASSUME f.left # 0 PROVE e \in Decoder /\ Doing(m, e) /\ e.group = "block"
  <2>1. "block" \in DOMAIN Layout
    BY DEF Layout
  <2>2. /\ e \in Decoder /\ e.group = "block" /\ e.cur = <<>> /\ e.left = f.left - 1
        /\ e.pos = f.pos /\ e.items = f.items /\ e.zeros = f.zeros
    BY <1>6, <1>8, <2>1, ItemTaken
  <2> HIDE DEF e
  <2>3. Len(e.items) = 0
    BY <1>1, <1>6, <2>2
  <2>4. BuiltBlocks(m, e)
    <3>1. n \in Nat /\ e.left = n - 1
      BY <1>2, <1>6, <2>2
    <3> HIDE DEF n
    <3>2. Len(e.items) + 1 + e.left = n
      BY <2>3, <3>1
    <3>3. QED
      BY <2>3, <3>2 DEF BuiltBlocks, n
  <2>5. Built(m, e)
    BY <1>1, <1>6, <2>2, <2>4 DEF Built, KindOf
  <2>6. DFrom(m, e) = BlockAt(c, 0)
    BY <2>2, <2>3 DEF DFrom, From
  <2>7. e.pos = DFrom(m, e)
    BY <1>4, <1>5, <1>6, <2>2, <2>6
  <2>8. QED
    BY <2>1, <2>2, <2>5, <2>7, Fresh
<1>9. QED
  BY <1>6, <1>7, <1>8 DEF f

\* The head of a block has been read.
HeadRead(d) == [d EXCEPT !.fields = SubSeq(d.cur, 1, 3), !.txLeft = d.cur[4],
                         !.txs = <<>>, !.group = "txs"]

LEMMA BlockHeadStep ==
    ASSUME NEW m \in Message, NEW d \in Decoder, Doing(m, d), d.group = "block",
           Len(d.cur) = Len(Layout["block"])
    PROVE  /\ HeadRead(d) \in Decoder /\ Doing(m, HeadRead(d)) /\ HeadRead(d).group = "txs"
<1> DEFINE k == Len(d.items)
           c == m.body
           n == Len(c.blocks)
           b == c.blocks[k + 1]
           e == HeadRead(d)
<1>1. m.kind = COMMAND_SEND_BLOCKCHAIN /\ d.zeros = c.zeros /\ BuiltBlocks(m, d)
  BY DEF Doing, Built, KindOf
<1>2. c \in ChainData /\ n \in Nat
  BY <1>1, MessageKinds, ChainPlaces
<1>3. /\ DVals(m, d) = BlockVals(b) /\ DFrom(m, d) = BlockAt(c, k) /\ d.group \in DOMAIN Layout
  BY DEF DVals, Vals, DFrom, From, Layout
<1>4. k \in Nat /\ d.left \in Nat
  BY DecoderFields
<1>5. k + 1 + d.left = n
  BY <1>1 DEF BuiltBlocks
<1> HIDE DEF k, n
<1>6. k + 1 \in 1..n /\ (k + 1) - 1 = k
  BY <1>2, <1>4, <1>5
<1>7. b \in BlockData /\ TxAt(b, 0) = Len(BlockHead(b))
  BY <1>2, <1>6, BlockHeld DEF n
<1>8. d.cur = BlockVals(b) /\ d.pos = BlockAt(c, k) + Len(BlockHead(b))
  BY <1>3, GroupRead DEF BlockHead
<1>9. /\ b.fields \in Seq(Nat) /\ Len(b.fields) = 3 /\ BlockVals(b)[4] = Len(b.txs)
      /\ Len(b.txs) \in Nat /\ \A j \in 1..3 : BlockVals(b)[j] = b.fields[j]
  BY <1>7, BlockFields
<1>10. BlockVals(b) \in Seq(Nat) /\ Len(BlockVals(b)) = 4
  <2>1. BlockVals(b) \in [DOMAIN Layout.block -> Nat]
    BY <1>7, BlockFields
  <2>2. Layout.block \in Seq({Num, Raw}) /\ Len(Layout.block) = 4
    BY DEF Layout
  <2>3. QED
    BY <2>1, <2>2, ValsSeq
<1>11. SubSeq(BlockVals(b), 1, 3) = b.fields
  <2> DEFINE v == BlockVals(b)
             s == SubSeq(v, 1, 3)
             g == b.fields
  <2> HIDE DEF v, b
  <2>1. v \in Seq(Nat) /\ Len(v) = 4
    BY <1>10 DEF v
  <2>2. s \in Seq(Nat) /\ Len(s) = 3 /\ \A j \in 1..3 : s[j] = v[j]
    <3>1. 1 \in 1..Len(v) /\ 3 \in 1..Len(v) /\ 3 \in 0..Len(v)
      BY <2>1
    <3>2. s \in Seq(Nat)
      BY <2>1, <3>1, HoldsFirst
    <3>3. Len(s) = 3
      BY <2>1, <3>1
    <3>4. \A j \in 1..3 : s[j] = v[1 + j - 1]
      BY <2>1, <3>1
    <3>5. \A j \in 1..3 : 1 + j - 1 = j
      OBVIOUS
    <3>6. \A j \in 1..3 : s[j] = v[j]
      <4> HIDE DEF s
      <4>1. QED
        BY <3>4, <3>5
    <3>7. QED
      BY <3>2, <3>3, <3>6
  <2>3. g \in Seq(Nat) /\ Len(g) = 3 /\ \A j \in 1..3 : v[j] = g[j]
    BY <1>9 DEF v
  <2> HIDE DEF s, g
  <2>4. s = g
    BY <2>2, <2>3, SameSeq
  <2>5. QED
    BY <2>4 DEF s, g, v
<1>12. <<>> \in Seq(Tx) /\ "txs" \in DOMAIN Layout \cup {"none", "txs"}
  OBVIOUS
<1> DEFINE g == b.fields
           t == Len(b.txs)
<1>13. e = [d EXCEPT !.fields = g, !.txLeft = t, !.txs = <<>>, !.group = "txs"]
  BY <1>8, <1>9, <1>11 DEF HeadRead
<1>14. g \in Seq(Nat) /\ t \in Nat
  BY <1>9
<1> HIDE DEF g, t, e
<1>15. /\ e \in Decoder /\ e.fields = g /\ e.txLeft = t /\ e.txs = <<>> /\ e.group = "txs"
       /\ e.items = d.items /\ e.left = d.left /\ e.pos = d.pos /\ e.zeros = d.zeros
  BY <1>12, <1>13, <1>14 DEF Decoder
<1> HIDE DEF b
<1>16. BuiltTxs(b, e, 0)
  <2>1. Len(e.txs) = 0 /\ Len(e.txs) + 0 + e.txLeft = t
    BY <1>14, <1>15
  <2>2. QED
    BY <1>15, <2>1 DEF BuiltTxs, g, t
<1>17. BuiltBlocks(m, e)
  BY <1>1, <1>15 DEF BuiltBlocks
<1>18. Built(m, e)
  <2>1. m.body.blocks[Len(e.items) + 1] = b
    BY <1>15 DEF b, k
  <2>2. QED
    BY <1>1, <1>15, <1>16, <1>17, <2>1 DEF Built, KindOf
<1>19. DFrom(m, e) = BlockAt(c, k) + TxAt(b, 0)
  <2>1. Len(e.txs) = 0
    BY <1>15
  <2>2. QED
    BY <1>15, <2>1 DEF DFrom, From, b, k
<1>20. Reading(m, e)
  <2>1. e.group \notin DOMAIN Layout
    BY <1>15, Layouts
  <2>2. QED
    BY <1>7, <1>8, <1>15, <1>19, <2>1 DEF Reading
<1>21. QED
  BY <1>15, <1>18, <1>20 DEF Doing, e

\* The next transaction is begun.
TxTaken(d) == [d EXCEPT !.group = "tx", !.cur = <<>>, !.txLeft = @ - 1]

LEMMA TxStartStep ==
    ASSUME NEW m \in Message, NEW d \in Decoder, Doing(m, d), d.group = "txs", d.txLeft > 0
    PROVE  TxTaken(d) \in Decoder /\ Doing(m, TxTaken(d)) /\ TxTaken(d).group = "tx"
<1> DEFINE b == m.body.blocks[Len(d.items) + 1]
           e == TxTaken(d)
<1>1. /\ m.kind = COMMAND_SEND_BLOCKCHAIN /\ d.zeros = m.body.zeros /\ BuiltBlocks(m, d)
      /\ BuiltTxs(b, d, 0)
  BY DEF Doing, Built, KindOf
<1>2. d.txLeft \in Nat /\ d.txLeft - 1 \in Nat /\ Len(d.txs) \in Nat
  BY DecoderFields
<1>3. "tx" \in DOMAIN Layout /\ <<>> \in Seq(Nat)
  BY DEF Layout
<1>4. /\ e \in Decoder /\ e.group = "tx" /\ e.cur = <<>> /\ e.txLeft = d.txLeft - 1
      /\ e.txs = d.txs /\ e.items = d.items /\ e.left = d.left /\ e.pos = d.pos
      /\ e.zeros = d.zeros /\ e.fields = d.fields
  BY <1>2, <1>3 DEF Decoder, TxTaken
<1> HIDE DEF e
<1>5. BuiltTxs(b, e, 1)
  <2>1. d.fields = b.fields /\ Len(d.txs) + 0 + d.txLeft = Len(b.txs)
    BY <1>1 DEF BuiltTxs
  <2>2. Len(d.txs) + 1 + (d.txLeft - 1) = Len(d.txs) + 0 + d.txLeft
    BY <1>2
  <2>3. e.fields = b.fields /\ Len(e.txs) + 1 + e.txLeft = Len(b.txs)
    BY <1>4, <2>1, <2>2
  <2>4. \A j \in 1..Len(e.txs) : TxMeaning(e.txs[j]) = TxMeaning(b.txs[j])
    BY <1>1, <1>4 DEF BuiltTxs
  <2>5. QED
    BY <2>3, <2>4 DEF BuiltTxs
<1>6. BuiltBlocks(m, e)
  BY <1>1, <1>4 DEF BuiltBlocks
<1>7. Built(m, e)
  BY <1>1, <1>4, <1>5, <1>6 DEF Built, KindOf
<1>8. DFrom(m, e) = DFrom(m, d)
  BY <1>4 DEF DFrom, From
<1>9. e.pos = DFrom(m, e)
  BY <1>4, <1>8 DEF Doing, Reading
<1>10. Doing(m, e)
  BY <1>3, <1>4, <1>7, <1>9, Fresh
<1>11. QED
  BY <1>4, <1>10 DEF e

\* A transaction with its signature has been read.
TxRead(d, sig) == [d EXCEPT !.txs = Append(@, [fields |-> d.cur, sig |-> sig]),
                            !.pos = @ + SigSize, !.group = "txs"]

\* The signature as the decoder copies it.
SigAt(b, pos) == [i \in 1..SigSize |-> IF pos + i <= Len(b) THEN b[pos + i] ELSE Base]

\* Transactions with the same fields, and signatures that agree up to their
\* length, mean the same.
LEMMA SameTx ==
    ASSUME NEW t, NEW u, t.fields = u.fields, t.sig \in Seq(Nat), u.sig \in Seq(Nat),
           t.fields[5] \in Nat, t.fields[5] <= Len(t.sig), t.fields[5] <= Len(u.sig),
           \A i \in 1..t.fields[5] : t.sig[i] = u.sig[i]
    PROVE  TxMeaning(t) = TxMeaning(u)
<1> DEFINE n == t.fields[5]
           a == t.sig
           b == u.sig
           x == SubSeq(a, 1, n)
           y == SubSeq(b, 1, n)
<1>1. a \in Seq(Nat) /\ b \in Seq(Nat) /\ n \in 0..Len(a) /\ n \in 0..Len(b)
  OBVIOUS
<1>2. \A i \in 1..n : a[i] = b[i]
  OBVIOUS
<1> HIDE DEF n, a, b
<1>3. /\ x \in Seq(Nat) /\ Len(x) = n /\ Holds(a, 0, x)
      /\ y \in Seq(Nat) /\ Len(y) = n /\ Holds(b, 0, y)
  BY <1>1, HoldsFirst
<1> HIDE DEF x, y
<1>4. \A i \in 1..n : 0 + i = i
  BY <1>1
<1>5. \A i \in 1..n : x[i] = a[i] /\ y[i] = b[i]
  BY <1>3, <1>4 DEF Holds
<1>6. x = y
  <2>1. x \in Seq(Nat) /\ y \in Seq(Nat) /\ Len(x) = Len(y)
    BY <1>3
  <2>2. \A i \in 1..Len(x) : x[i] = y[i]
    BY <1>2, <1>3, <1>5
  <2>3. QED
    BY <2>1, <2>2, SameSeq
<1>7. TxMeaning(t) = [fields |-> t.fields, sig |-> x]
  BY DEF TxMeaning, x, a, n
<1>8. TxMeaning(u) = [fields |-> u.fields, sig |-> y]
  BY DEF TxMeaning, y, b, n
<1>9. QED
  BY <1>6, <1>7, <1>8

LEMMA TxStep ==
    ASSUME NEW m \in Message, NEW d \in Decoder, Doing(m, d), d.group = "tx",
           Len(d.cur) = Len(Layout["tx"]), NEW b \in Seq(Nat), Holds(Payload(m), 0, b)
    PROVE  /\ d.cur[5] \in Nat /\ d.cur[5] <= SigSize
           /\ d.pos + SigSize <= Len(Payload(m)) /\ Len(Payload(m)) \in Nat
           /\ d.pos + d.cur[5] <= Len(b) =>
                 /\ TxRead(d, SigAt(b, d.pos)) \in Decoder /\ Doing(m, TxRead(d, SigAt(b, d.pos)))
                 /\ TxRead(d, SigAt(b, d.pos)).group = "txs"
<1> DEFINE k == Len(d.items)
           j == Len(d.txs)
           c == m.body
           n == Len(c.blocks)
           B == c.blocks[k + 1]
           t == B.txs[j + 1]
           o == BlockAt(c, k)
           F == Encode(Layout.tx, t.fields)
           P == Payload(m)
           sig == SigAt(b, d.pos)
           e == TxRead(d, sig)
<1>1. /\ m.kind = COMMAND_SEND_BLOCKCHAIN /\ d.zeros = c.zeros /\ BuiltBlocks(m, d)
      /\ BuiltTxs(B, d, 1)
  BY DEF Doing, Built, KindOf
<1>2. c \in ChainData /\ n \in Nat
  BY <1>1, MessageKinds, ChainPlaces
<1>3. /\ DVals(m, d) = t.fields /\ DFrom(m, d) = o + TxAt(B, j) /\ d.group \in DOMAIN Layout
  BY DEF DVals, Vals, DFrom, From, Layout
<1>4. k \in Nat /\ j \in Nat /\ d.left \in Nat /\ d.txLeft \in Nat /\ d.pos \in Nat
  BY DecoderFields
<1>5. k + 1 + d.left = n /\ j + 1 + d.txLeft = Len(B.txs)
  BY <1>1 DEF BuiltBlocks, BuiltTxs
<1> HIDE DEF k, n, j
<1>6. k + 1 \in 1..n /\ (k + 1) - 1 = k
  BY <1>2, <1>4, <1>5
<1>7. B \in BlockData
  BY <1>2, <1>6, BlockHeld DEF n
<1>8. j + 1 \in 1..Len(B.txs) /\ (j + 1) - 1 = j
  <2> DEFINE q == Len(B.txs)
  <2>1. q \in Nat /\ j + 1 + d.txLeft = q
    BY <1>5, <1>7, BlockFields
  <2> HIDE DEF q
  <2>2. j + 1 \in 1..q /\ (j + 1) - 1 = j
    BY <1>4, <2>1
  <2>3. QED
    BY <2>2 DEF q
<1>9. /\ t \in Transaction /\ Holds(EncodeChain(c), o + TxAt(B, j) + Len(F), t.sig)
      /\ o + TxAt(B, j + 1) = o + TxAt(B, j) + Len(F) + SigSize
  BY <1>2, <1>6, <1>8, BlockHeld DEF n
<1>10. /\ t.fields[5] \in Nat /\ t.fields[5] <= SigSize /\ t.sig \in Seq(Nat)
       /\ Len(t.sig) = SigSize /\ SigSize \in Nat
  BY <1>9, TxPlaces, WireAssumption
<1>11. d.cur = t.fields /\ d.pos = o + TxAt(B, j) + Len(F)
  BY <1>3, GroupRead
<1>12. P = EncodeChain(c) /\ P \in Seq(Nat)
  BY <1>1, <1>2, Commands, ChainPlaces DEF Payload
<1> HIDE DEF P, t, F, o, B, c
<1>13. Holds(P, d.pos, t.sig) /\ Len(P) \in Nat /\ Len(b) \in Nat
  BY <1>9, <1>11, <1>12
<1>14. d.pos + SigSize <= Len(P) /\ \A i \in 1..SigSize : P[d.pos + i] = t.sig[i]
  BY <1>10, <1>13 DEF Holds
<1>15. ASSUME d.pos + d.cur[5] <= Len(b) PROVE e \in Decoder /\ Doing(m, e) /\ e.group = "txs"
  <2>1. ASSUME NEW i \in 1..SigSize
        PROVE  /\ sig[i] \in Nat
               /\ i <= t.fields[5] => sig[i] = t.sig[i]
    <3>1. sig[i] = IF d.pos + i <= Len(b) THEN b[d.pos + i] ELSE Base
      BY DEF SigAt
    <3>2. i \in Nat /\ 1 <= i
      BY <1>10
    <3>3. ASSUME d.pos + i <= Len(b) PROVE b[d.pos + i] \in Nat /\ b[d.pos + i] = t.sig[i]
      <4>1. d.pos + i \in 1..Len(b) /\ 0 + (d.pos + i) = d.pos + i
        <5> DEFINE x == d.pos
                   l == Len(b)
        <5>1. x \in Nat /\ l \in Nat /\ x + i <= l
          BY <1>4, <1>13, <3>3
        <5> HIDE DEF x, l
        <5>2. x + i \in 1..l /\ 0 + (x + i) = x + i
          BY <3>2, <5>1
        <5>3. QED
          BY <5>2 DEF x, l
      <4>2. P[0 + (d.pos + i)] = b[d.pos + i]
        BY <4>1 DEF Holds, P
      <4>3. QED
        BY <1>14, <4>1, <4>2
    <3>4. i <= t.fields[5] => d.pos + i <= Len(b)
      <4> DEFINE f == t.fields[5]
                 l == Len(b)
      <4>1. d.pos \in Nat /\ l \in Nat /\ f \in Nat
        BY <1>4, <1>10, <1>13
      <4>2. d.pos + f <= l
        BY <1>11, <1>15
      <4> HIDE DEF f, l
      <4>3. i <= f => d.pos + i <= l
        BY <4>1, <4>2, <3>2
      <4>4. QED
        BY <4>3 DEF f, l
    <3>5. Base \in Nat
      BY WireAssumption
    <3>6. QED
      BY <3>1, <3>3, <3>4, <3>5
  <2>2. sig \in Seq(Nat) /\ Len(sig) = SigSize
    <3>1. sig \in [1..SigSize -> Nat]
      <4>1. sig = [i \in 1..SigSize |-> sig[i]]
        BY DEF SigAt
      <4> HIDE DEF sig
      <4>2. QED
        BY <2>1, <4>1
    <3>2. QED
      BY <1>10, <3>1, ArraySeq
  <2> HIDE DEF sig
  <2> DEFINE u == [fields |-> d.cur, sig |-> sig]
             s == Append(d.txs, u)
             r == d.pos + SigSize
  <2>3. u \in Tx /\ u.fields = d.cur /\ u.sig = sig
    BY <2>2, DecoderFields DEF Tx
  <2>4. e = [d EXCEPT !.txs = s, !.pos = r, !.group = "txs"]
    BY DEF TxRead
  <2> HIDE DEF u, e
  <2>5. TxMeaning(u) = TxMeaning(t)
    <3>1. \A i \in 1..t.fields[5] : u.sig[i] = t.sig[i]
      <4>1. \A i \in 1..t.fields[5] : i \in 1..SigSize /\ i <= t.fields[5]
        BY <1>10
      <4>2. QED
        BY <2>1, <2>3, <4>1
    <3>2. u.fields = t.fields
      BY <1>11, <2>3
    <3>3. QED
      BY <1>10, <2>2, <2>3, <3>1, <3>2, SameTx
  <2>6. d.txs \in Seq(Tx)
    BY DecoderFields
  <2>7. s \in Seq(Tx) /\ Len(s) = j + 1
    BY <2>3, <2>6 DEF j
  <2>8. s[j + 1] = u
    BY <2>3, <2>6 DEF j
  <2>9. \A i \in 1..j : s[i] = d.txs[i]
    BY <2>3, <2>6 DEF j
  <2>10. r \in Nat /\ r = o + TxAt(B, j + 1)
    BY <1>4, <1>9, <1>10, <1>11
  <2> HIDE DEF s, r
  <2>11. /\ e \in Decoder /\ e.txs = s /\ e.pos = r /\ e.group = "txs" /\ e.items = d.items
         /\ e.left = d.left /\ e.txLeft = d.txLeft /\ e.fields = d.fields /\ e.zeros = d.zeros
    BY <2>4, <2>7, <2>10 DEF Decoder
  <2>12. BuiltTxs(B, e, 0)
    <3>1. d.fields = B.fields /\ \A i \in 1..j : TxMeaning(d.txs[i]) = TxMeaning(B.txs[i])
      BY <1>1 DEF BuiltTxs, j
    <3>2. (j + 1) + 0 + d.txLeft = j + 1 + d.txLeft
      BY <1>4
    <3>3. \A i \in 1..(j + 1) : i \in 1..j \/ i = j + 1
      BY <1>4
    <3>4. \A i \in 1..(j + 1) : TxMeaning(s[i]) = TxMeaning(B.txs[i])
      BY <2>5, <2>8, <2>9, <3>1, <3>3 DEF t
    <3>5. Len(e.txs) + 0 + e.txLeft = Len(B.txs)
      BY <1>5, <2>7, <2>11, <3>2
    <3>6. QED
      BY <2>7, <2>11, <3>1, <3>4, <3>5 DEF BuiltTxs
  <2>13. BuiltBlocks(m, e)
    BY <1>1, <2>11 DEF BuiltBlocks
  <2>14. m.body.blocks[Len(e.items) + 1] = B
    BY <2>11 DEF B, c, k
  <2>15. Built(m, e)
    BY <1>1, <2>11, <2>12, <2>13, <2>14 DEF Built, KindOf, c
  <2>16. DFrom(m, e) = o + TxAt(B, j + 1)
    BY <2>7, <2>11, <2>14 DEF DFrom, From, o, c, k
  <2>17. e.group \notin DOMAIN Layout
    BY <2>11, Layouts
  <2>18. Reading(m, e)
    BY <2>10, <2>11, <2>16, <2>17 DEF Reading
  <2>19. QED
    BY <2>11, <2>15, <2>18 DEF Doing
<1>16. d.cur[5] \in Nat /\ d.cur[5] <= SigSize
  BY <1>10, <1>11
<1>17. QED
  BY <1>13, <1>14, <1>15, <1>16 DEF P

\* The transactions of a block have been read.
BlockAdded(d) == [d EXCEPT !.items = Append(@, [fields |-> d.fields, txs |-> d.txs])]

\* Blocks whose transactions mean the same mean the same.
LEMMA SameBlock ==
    ASSUME NEW u, NEW b, NEW S, NEW T, u.fields = b.fields, u.txs \in Seq(S), b.txs \in Seq(T),
           Len(u.txs) = Len(b.txs),
           \A j \in 1..Len(u.txs) : TxMeaning(u.txs[j]) = TxMeaning(b.txs[j])
    PROVE  BlockMeaning(u) = BlockMeaning(b)
<1>1. DOMAIN u.txs = 1..Len(u.txs) /\ DOMAIN b.txs = 1..Len(u.txs)
  OBVIOUS
<1>2. [j \in DOMAIN u.txs |-> TxMeaning(u.txs[j])] = [j \in DOMAIN b.txs |-> TxMeaning(b.txs[j])]
  BY <1>1
<1>3. QED
  BY <1>2 DEF BlockMeaning

LEMMA BlockStep ==
    ASSUME NEW m \in Message, NEW d \in Decoder, Doing(m, d), d.group = "txs", d.txLeft = 0
    PROVE  /\ BlockAdded(d) \in Decoder
           /\ BlockAdded(d).left = 0 => Finished(m, BlockAdded(d))
           /\ BlockAdded(d).left # 0 => /\ Took(BlockAdded(d), "block") \in Decoder
                                        /\ Doing(m, Took(BlockAdded(d), "block"))
                                        /\ Took(BlockAdded(d), "block").group = "block"
<1> DEFINE k == Len(d.items)
           c == m.body
           n == Len(c.blocks)
           b == c.blocks[k + 1]
           u == [fields |-> d.fields, txs |-> d.txs]
           s == Append(d.items, u)
           f == BlockAdded(d)
           e == Took(f, "block")
<1>1. /\ m.kind = COMMAND_SEND_BLOCKCHAIN /\ d.zeros = c.zeros /\ BuiltBlocks(m, d)
      /\ BuiltTxs(b, d, 0) /\ d.pos = DFrom(m, d)
  BY DEF Doing, Built, KindOf, Reading
<1>2. c \in ChainData /\ n \in Nat /\ c.blocks \in Seq(BlockData)
  BY <1>1, MessageKinds, ChainPlaces DEF ChainData
<1>3. DFrom(m, d) = BlockAt(c, k) + TxAt(b, Len(d.txs))
  BY DEF DFrom, From
<1>4. /\ k \in Nat /\ d.left \in Nat /\ d.items \in Seq(Item) /\ d.txs \in Seq(Tx)
      /\ d.fields \in Seq(Nat) /\ Len(d.txs) \in Nat
  BY DecoderFields
<1>5. /\ k + 1 + d.left = n
      /\ \A i \in 1..k : BlockMeaning(d.items[i]) = BlockMeaning(c.blocks[i])
  BY <1>1 DEF BuiltBlocks
<1>6. /\ d.fields = b.fields /\ Len(d.txs) + 0 + 0 = Len(b.txs)
      /\ \A j \in 1..Len(d.txs) : TxMeaning(d.txs[j]) = TxMeaning(b.txs[j])
  BY <1>1 DEF BuiltTxs
<1>7. f = [d EXCEPT !.items = s]
  BY DEF BlockAdded
<1>8. u \in Item /\ u.fields = d.fields /\ u.txs = d.txs
  BY <1>4 DEF Item
<1> HIDE DEF u, f
<1>9. s \in Seq(Item) /\ Len(s) = k + 1
  BY <1>4, <1>8
<1>10. s[k + 1] = u
  BY <1>4, <1>8
<1>11. \A i \in 1..k : s[i] = d.items[i]
  BY <1>4, <1>8
<1> HIDE DEF s, k, n
<1>12. k + 1 \in 1..n /\ (k + 1) - 1 = k
  BY <1>2, <1>4, <1>5
<1>13. b \in BlockData /\ BlockAt(c, k + 1) = BlockAt(c, k) + TxAt(b, Len(b.txs))
  BY <1>2, <1>12, BlockHeld DEF n
<1>14. b.txs \in Seq(Transaction)
  BY <1>13, BlockFields
<1>15. Len(d.txs) = Len(b.txs)
  BY <1>4, <1>6
<1>16. BlockMeaning(u) = BlockMeaning(b)
  <2> HIDE DEF b
  <2>1. u.fields = b.fields /\ u.txs \in Seq(Tx) /\ Len(u.txs) = Len(b.txs)
        /\ \A j \in 1..Len(u.txs) : TxMeaning(u.txs[j]) = TxMeaning(b.txs[j])
    BY <1>4, <1>6, <1>8, <1>15
  <2>2. QED
    BY <1>14, <2>1, SameBlock
<1>17. \A i \in 1..(k + 1) : BlockMeaning(s[i]) = BlockMeaning(c.blocks[i])
  <2>1. \A i \in 1..(k + 1) : i \in 1..k \/ i = k + 1
    BY <1>4
  <2>2. QED
    BY <1>5, <1>10, <1>11, <1>16, <2>1
<1>18. /\ f \in Decoder /\ f.items = s /\ f.left = d.left /\ f.pos = d.pos /\ f.zeros = d.zeros
  BY <1>7, <1>9 DEF Decoder
<1>19. ASSUME f.left = 0 PROVE Finished(m, f)
  <2>1. n = k + 1
    BY <1>2, <1>4, <1>5, <1>18, <1>19
  <2>2. DOMAIN s = 1..(k + 1) /\ DOMAIN c.blocks = 1..(k + 1)
    BY <1>2, <1>9, <2>1 DEF n
  <2>3. [i \in DOMAIN s |-> BlockMeaning(s[i])] = [i \in DOMAIN c.blocks |-> BlockMeaning(c.blocks[i])]
    BY <1>17, <2>2
  <2>4. Meaning(f.zeros, f.items) = Meaning(c.zeros, c.blocks)
    BY <1>1, <1>18, <2>3 DEF Meaning
  <2>5. QED
    BY <1>1, <2>4, Commands DEF Finished
<1>20. ASSUME f.left # 0 PROVE e \in Decoder /\ Doing(m, e) /\ e.group = "block"
  <2>1. "block" \in DOMAIN Layout
    BY DEF Layout
  <2>2. /\ e \in Decoder /\ e.group = "block" /\ e.cur = <<>> /\ e.left = d.left - 1
        /\ e.pos = d.pos /\ e.items = s /\ e.zeros = d.zeros
    BY <1>18, <1>20, <2>1, ItemTaken
  <2> HIDE DEF e
  <2>3. (k + 1) + 1 + e.left = n
    <3>1. k \in Nat /\ n \in Nat /\ d.left \in Nat /\ k + 1 + d.left = n /\ e.left = d.left - 1
      BY <1>2, <1>4, <1>5, <2>2
    <3>2. QED
      BY <3>1
  <2>4. BuiltBlocks(m, e)
    BY <1>9, <1>17, <2>2, <2>3 DEF BuiltBlocks, n
  <2>5. Built(m, e)
    BY <1>1, <2>2, <2>4 DEF Built, KindOf
  <2>6. DFrom(m, e) = BlockAt(c, k + 1)
    BY <1>9, <2>2 DEF DFrom, From
  <2>7. e.pos = DFrom(m, e)
    BY <1>1, <1>3, <1>13, <1>15, <2>2, <2>6
  <2>8. QED
    BY <2>1, <2>2, <2>5, <2>7, Fresh
<1>21. QED
  BY <1>18, <1>19, <1>20 DEF f

-----------------------------------------------------------------------------
(* The invariant.                                                          *)

Torn == medium = "file" /\ closed /\ Cut

\* What is sent, and as which bytes.
ChoiceInv ==
    /\ msg \in Message /\ medium \in {"socket", "file"}
    /\ medium = "file" => msg.kind = COMMAND_SEND_BLOCKCHAIN /\ expect = msg.kind
    /\ stream = IF medium = "file" THEN EncodeChain(msg.body) ELSE Serialize(msg)

\* How far it is, and how much of it the receiver asks for.
StreamInv ==
    /\ sent \in 0..Len(stream) /\ closed \in BOOLEAN
    /\ pc \in {"open", "header", "body", "decode", "ok", "failed", "spinning", "faulted"}
    /\ got \in 0..sent /\ want \in Nat
    /\ faulty \in BOOLEAN /\ overread \in BOOLEAN
    /\ pc = "open" => medium = "file"
    /\ pc = "header" => medium = "socket" /\ want = HeaderSize
    /\ pc = "body" => medium = "socket" /\ want = Len(stream) /\ expect = msg.kind

\* What the decoder owns in each group of fields.
Held(group) ==
    CASE group = "peer"               -> {"peers"}
      [] group \in {"count", "block"} -> {"chain"}
      [] group = "txs"                -> {"chain", "txs"}
      [] group = "tx"                 -> {"chain", "txs", "tx"}
      [] OTHER                        -> {}

HeapInv ==
    /\ heap \subseteq {"peers", "chain", "txs", "tx"}
    /\ pc = "decode" => heap = Held(dec.group)
    /\ pc = "ok" => heap \in {{}, {"peers"}, {"chain"}}
    /\ pc \notin {"decode", "ok", "faulted"} => heap = {}

\* The buffer is what was sent, or what is left of a file.
BufInv ==
    /\ buf \in Seq(Nat) /\ Holds(Payload(msg), 0, buf)
    /\ Len(buf) < Len(Payload(msg)) => Torn

DecodeInv ==
    /\ dec \in Decoder
    /\ pc = "decode" => expect = msg.kind /\ BufInv /\ Doing(msg, dec)
    /\ pc = "ok" => expect = msg.kind /\ Finished(msg, dec)
    /\ pc = "failed" => expect # msg.kind \/ Torn \/ faulty
    /\ overread => Torn

IInv == ChoiceInv /\ StreamInv /\ HeapInv /\ DecodeInv

\* The stream is a sequence of bytes, and a file has only the chain in it.
LEMMA StreamBytes ==
    ASSUME ChoiceInv
    PROVE  /\ stream \in Seq(Nat) /\ Len(stream) \in Nat
           /\ medium = "file" => stream = Payload(msg)
           /\ medium = "socket" => stream = Serialize(msg)
<1>1. CASE medium = "file"
  <2>1. msg.body \in ChainData /\ stream = EncodeChain(msg.body) /\ msg.kind = COMMAND_SEND_BLOCKCHAIN
    BY <1>1, MessageKinds DEF ChoiceInv
  <2>2. stream = Payload(msg)
    BY <2>1, Commands DEF Payload
  <2>3. stream \in Seq(Nat)
    BY <2>1, ChainPlaces
  <2>4. Len(stream) \in Nat
    BY <2>3
  <2>5. QED
    BY <1>1, <2>2, <2>3, <2>4
<1>2. CASE medium = "socket"
  <2>1. msg \in Message /\ stream = Serialize(msg)
    BY <1>2 DEF ChoiceInv
  <2>2. stream \in Seq(Nat)
    BY <2>1, MessageStream
  <2>3. Len(stream) \in Nat
    BY <2>2
  <2>4. QED
    BY <1>2, <2>1, <2>2, <2>3
<1>3. QED
  BY <1>1, <1>2 DEF ChoiceInv

\* The initial decoder, and the ones a buffer is started with.
LEMMA StartDecoder ==
    ASSUME NEW g \in DOMAIN Layout, NEW p \in Nat
    PROVE  /\ NoDec \in Decoder /\ NoDec.group = "none"
           /\ Start(g, p) \in Decoder /\ Start(g, p).group = g /\ Start(g, p).pos = p
           /\ Start(g, p).cur = <<>> /\ Start(g, p).items = <<>>
<1>1. <<>> \in Seq(Nat) /\ <<>> \in Seq(Tx) /\ <<>> \in Seq(Item) /\ 0 \in Nat
  OBVIOUS
<1>2. /\ NoDec \in Decoder /\ NoDec.group = "none" /\ NoDec.cur = <<>> /\ NoDec.items = <<>>
  BY <1>1 DEF NoDec, Decoder
<1>3. QED
  BY <1>2 DEF Start, Decoder

LEMMA InitInv == ASSUME Init PROVE IInv
<1>1. msg \in Message /\ (medium = "file" => msg.kind = COMMAND_SEND_BLOCKCHAIN)
      /\ medium \in {"socket", "file"}
  <2>1. CASE medium = "socket" /\ msg \in Messages
    BY <2>1, TransferAssumption
  <2>2. CASE medium = "file" /\ msg \in [kind : {COMMAND_SEND_BLOCKCHAIN}, body : Chains]
    <3>1. msg \in [kind : {COMMAND_SEND_BLOCKCHAIN}, body : ChainData]
      BY <2>2, TransferAssumption
    <3>2. msg \in Message
      BY <3>1 DEF Message
    <3>3. QED
      BY <2>2, <3>1, <3>2
  <2>3. QED
    BY <2>1, <2>2 DEF Init
<1>2. ChoiceInv
  BY <1>1 DEF Init, ChoiceInv
<1>3. Len(stream) \in Nat
  BY <1>2, StreamBytes
<1>4. StreamInv
  <2>1. /\ sent = 0 /\ closed = FALSE /\ got = 0 /\ want = HeaderSize
        /\ faulty = FALSE /\ overread = FALSE
    BY DEF Init
  <2>2. pc = IF medium = "file" THEN "open" ELSE "header"
    BY DEF Init
  <2>3. sent \in 0..Len(stream) /\ got \in 0..sent /\ want \in Nat
    BY <1>3, <2>1 DEF HeaderSize
  <2>4. QED
    BY <1>1, <2>1, <2>2, <2>3 DEF StreamInv
<1>5. HeapInv
  BY DEF Init, HeapInv
<1>6. DecodeInv
  <2>1. NoDec \in Decoder
    <3>1. "chain" \in DOMAIN Layout /\ 0 \in Nat
      BY DEF Layout
    <3>2. QED
      BY <3>1, StartDecoder
  <2>2. QED
    BY <2>1 DEF Init, DecodeInv
<1>7. QED
  BY <1>2, <1>4, <1>5, <1>6 DEF IInv

-----------------------------------------------------------------------------
(* Steps of the decoder: it goes on, succeeds, fails or faults.             *)

GoesOn ==
    /\ pc' = "decode" /\ dec' \in Decoder /\ Doing(msg, dec') /\ heap' = Held(dec'.group)
    /\ faulty' = faulty /\ overread' \in BOOLEAN /\ (overread' => overread \/ Torn)

Succeeds ==
    /\ pc' = "ok" /\ dec' \in Decoder /\ Finished(msg, dec')
    /\ heap' \in {{}, {"peers"}, {"chain"}} /\ faulty' = faulty /\ overread' = overread

Fails ==
    /\ pc' = "failed" /\ dec' = dec /\ heap' = {} /\ (Torn \/ faulty') /\ faulty' \in BOOLEAN
    /\ overread' \in BOOLEAN /\ (overread' => overread \/ Torn)

Faults ==
    /\ pc' = "faulted" /\ dec' = dec /\ heap' = heap /\ faulty' = faulty
    /\ overread' \in BOOLEAN /\ (overread' => Torn)

LEMMA DecoderKeeps ==
    ASSUME IInv, pc = "decode", UNCHANGED <<choice, sender, got, want, buf>>,
           GoesOn \/ Succeeds \/ Fails \/ Faults
    PROVE  IInv'
<1>0. /\ UNCHANGED <<msg, medium, stream, expect, sent, closed, got, want, buf>>
      /\ expect = msg.kind /\ BufInv /\ dec \in Decoder /\ (overread => Torn)
      /\ ChoiceInv /\ StreamInv /\ HeapInv
  BY DEF choice, sender, IInv, DecodeInv
<1>1. ChoiceInv'
  BY <1>0 DEF ChoiceInv
<1>2. Torn' = Torn /\ BufInv'
  BY <1>0 DEF Torn, Cut, BufInv
<1>3. StreamInv'
  <2>1. CASE GoesOn
    BY <1>0, <2>1 DEF GoesOn, StreamInv
  <2>2. CASE Succeeds
    BY <1>0, <2>2 DEF Succeeds, StreamInv
  <2>3. CASE Fails
    BY <1>0, <2>3 DEF Fails, StreamInv
  <2>4. CASE Faults
    BY <1>0, <2>4 DEF Faults, StreamInv
  <2>5. QED
    BY <2>1, <2>2, <2>3, <2>4
<1>4. HeapInv'
  <2>1. CASE GoesOn
    BY <2>1 DEF GoesOn, HeapInv, Held
  <2>2. CASE Succeeds
    BY <2>2 DEF Succeeds, HeapInv
  <2>3. CASE Fails
    BY <2>3 DEF Fails, HeapInv
  <2>4. CASE Faults
    BY <1>0, <2>4 DEF Faults, HeapInv
  <2>5. QED
    BY <2>1, <2>2, <2>3, <2>4
<1>5. DecodeInv'
  <2>1. CASE GoesOn
    <3>1. Doing(msg, dec)'
      BY <1>0, <2>1 DEF GoesOn
    <3>2. QED
      BY <1>0, <1>2, <2>1, <3>1 DEF GoesOn, DecodeInv
  <2>2. CASE Succeeds
    <3>1. Finished(msg, dec)'
      BY <1>0, <2>2 DEF Succeeds
    <3>2. QED
      BY <1>0, <1>2, <2>2, <3>1 DEF Succeeds, DecodeInv
  <2>3. CASE Fails
    BY <1>0, <1>2, <2>3 DEF Fails, DecodeInv
  <2>4. CASE Faults
    BY <1>0, <1>2, <2>4 DEF Faults, DecodeInv
  <2>5. QED
    BY <2>1, <2>2, <2>3, <2>4
<1>6. QED
  BY <1>1, <1>3, <1>4, <1>5 DEF IInv

-----------------------------------------------------------------------------
(* The steps of the sender and of recv_all.                                 *)

LEMMA SenderKeeps == ASSUME IInv, Sender PROVE IInv'
<1>0. /\ ~closed /\ UNCHANGED <<msg, medium, stream, expect, pc, got, want, buf, dec, heap, faulty>>
      /\ UNCHANGED overread /\ ChoiceInv /\ StreamInv /\ HeapInv /\ DecodeInv
  BY DEF Sender, SendSome, SenderCloses, choice, receiver, IInv
<1>1. ChoiceInv' /\ HeapInv'
  BY <1>0 DEF ChoiceInv, HeapInv
<1>2. ~Torn
  BY <1>0 DEF Torn
<1>3. StreamInv'
  <2>1. Len(stream) \in Nat
    BY <1>0, StreamBytes
  <2>2. sent' \in 0..Len(stream) /\ closed' \in BOOLEAN /\ got \in 0..sent'
    <3>1. sent \in 0..Len(stream) /\ got \in 0..sent /\ closed \in BOOLEAN
      BY <1>0 DEF StreamInv
    <3>2. CASE SendSome
      <4>1. sent' \in (sent + 1)..Len(stream) /\ closed' = closed
        BY <3>2 DEF SendSome
      <4>2. QED
        BY <1>0, <2>1, <3>1, <4>1
    <3>3. CASE SenderCloses
      BY <3>1, <3>3 DEF SenderCloses
    <3>4. QED
      BY <3>2, <3>3 DEF Sender
  <2>3. QED
    BY <1>0, <2>2 DEF StreamInv
<1>4. DecodeInv'
  <2>1. pc = "decode" => BufInv'
    BY <1>0, <1>2 DEF DecodeInv, BufInv
  <2>2. QED
    BY <1>0, <1>2, <2>1 DEF DecodeInv
<1>5. QED
  BY <1>1, <1>3, <1>4 DEF IInv

\* A step of recv_all or of a codec before the decoder starts.
LEMMA BeforeKeeps ==
    ASSUME IInv, UNCHANGED <<choice, sender>>, pc \in {"open", "header", "body"},
           heap' = heap, overread' = overread, StreamInv', DecodeInv',
           pc' # "ok", pc' = "decode" => Held(dec'.group) = {}
    PROVE  IInv'
<1>0. /\ UNCHANGED <<msg, medium, stream, expect, sent, closed>> /\ ChoiceInv /\ heap = {}
  BY DEF choice, sender, IInv, HeapInv
<1>1. ChoiceInv'
  BY <1>0 DEF ChoiceInv
<1>2. HeapInv'
  BY <1>0 DEF HeapInv
<1>3. QED
  BY <1>1, <1>2 DEF IInv

LEMMA RecvKeeps == ASSUME IInv, RecvSome \/ RecvEnd PROVE IInv'
<1>0. /\ UNCHANGED <<choice, sender, want, buf, dec, heap, overread>> /\ pc \in {"header", "body"}
      /\ UNCHANGED <<msg, medium, stream, expect, sent, closed>>
      /\ StreamInv /\ DecodeInv
  BY DEF RecvSome, RecvEnd, IInv, choice, sender
<1>1. CASE RecvSome
  <2>1. pc' = pc /\ faulty' = faulty /\ got' \in 0..sent
    <3>1. PICK n \in (got + 1)..want : n <= sent /\ got' = n
      BY <1>1 DEF RecvSome
    <3>2. got \in Nat /\ want \in Nat /\ sent \in Nat
      <4>1. Len(stream) \in Nat
        BY StreamBytes DEF IInv
      <4>2. QED
        BY <1>0, <4>1 DEF StreamInv
    <3>3. got' \in 0..sent
      BY <3>1, <3>2
    <3>4. QED
      BY <1>1, <3>3 DEF RecvSome
  <2>2. StreamInv'
    BY <1>0, <2>1 DEF StreamInv
  <2>3. DecodeInv'
    BY <1>0, <2>1 DEF DecodeInv, Torn, Cut
  <2>4. QED
    BY <1>0, <2>1, <2>2, <2>3, BeforeKeeps
<1>2. CASE RecvEnd
  <2>1. /\ got' = got
        /\ \/ pc' = "spinning" /\ UNCHANGED faulty
           \/ pc' = "failed" /\ faulty' = TRUE
    BY <1>2, Zenon DEF RecvEnd
  <2>2. StreamInv'
    BY <1>0, <2>1 DEF StreamInv
  <2>3. DecodeInv'
    BY <1>0, <2>1 DEF DecodeInv, Torn, Cut
  <2>4. QED
    BY <1>0, <2>1, <2>2, <2>3, BeforeKeeps
<1>3. QED
  BY <1>1, <1>2

LEMMA HeaderKeeps == ASSUME IInv, HeaderDone PROVE IInv'
<1>0. /\ UNCHANGED <<choice, sender, got, buf, dec, heap, faulty, overread>> /\ pc = "header"
      /\ UNCHANGED <<msg, medium, stream, expect, sent, closed>>
      /\ ChoiceInv /\ StreamInv /\ DecodeInv /\ got = want
  BY DEF HeaderDone, IInv, choice, sender
<1>1. msg \in Message /\ stream = Serialize(msg) /\ stream \in Seq(Nat) /\ Len(stream) \in Nat
  BY <1>0, StreamBytes DEF ChoiceInv, StreamInv
<1>2. got = HeaderSize /\ got \in 0..Len(stream) /\ medium = "socket"
  <2>1. got = HeaderSize /\ got \in 0..sent /\ sent \in 0..Len(stream) /\ medium = "socket"
    BY <1>0 DEF StreamInv
  <2>2. QED
    BY <1>1, <2>1
<1> DEFINE hdr == Received(got)
<1>3. hdr \in Seq(Nat) /\ Len(hdr) = HeaderSize /\ Holds(stream, 0, hdr)
  BY <1>1, <1>2, HoldsFirst DEF Received
<1>4. Len(hdr) >= HeaderSize
  BY <1>3 DEF HeaderSize
<1> HIDE DEF hdr
<1>5. /\ FieldAt(hdr, 0, Raw) = COMMAND_PREFIX /\ FieldAt(hdr, 1, Num) = msg.kind
      /\ HeaderSize + FieldAt(hdr, 3, Num) = Len(stream)
  BY <1>1, <1>3, <1>4, MessageHeader
<1>6. \/ pc' = "body" /\ want' = Len(stream) /\ expect = msg.kind
      \/ pc' = "failed" /\ want' = want /\ expect # msg.kind
  BY <1>5 DEF HeaderDone, hdr
<1>7. StreamInv'
  BY <1>0, <1>1, <1>2, <1>6 DEF StreamInv
<1>8. DecodeInv'
  BY <1>0, <1>6 DEF DecodeInv, Torn, Cut
<1>9. QED
  BY <1>0, <1>6, <1>7, <1>8, BeforeKeeps

\* A decoder at the beginning of a buffer.
LEMMA StartDoing ==
    ASSUME NEW m \in Message, NEW g, NEW p,
           \/ m.kind = COMMAND_REGISTER_PEER /\ g = "register" /\ p = HeaderSize
           \/ m.kind = COMMAND_SEND_PEER_LIST /\ g = "peers" /\ p = 0
           \/ m.kind = COMMAND_SEND_BLOCKCHAIN /\ g = "chain" /\ p = 0
    PROVE  /\ Start(g, p) \in Decoder /\ Doing(m, Start(g, p)) /\ Held(Start(g, p).group) = {}
<1> DEFINE e == Start(g, p)
<1>1. g \in DOMAIN Layout /\ p \in Nat
  BY DEF Layout, HeaderSize
<1>2. e \in Decoder /\ e.group = g /\ e.pos = p /\ e.cur = <<>> /\ e.items = <<>>
  BY <1>1, StartDecoder
<1> HIDE DEF e
<1>3. Built(m, e)
  BY <1>2 DEF Built, KindOf
<1>4. DFrom(m, e) = p
  BY <1>2 DEF DFrom, From
<1>5. Held(e.group) = {}
  BY <1>2 DEF Held
<1>6. QED
  BY <1>1, <1>2, <1>3, <1>4, <1>5, Fresh DEF e

\* A whole message: recv_all has returned.
LEMMA BodyBuffer ==
    ASSUME IInv, pc = "body", got = want
    PROVE  /\ msg \in Message /\ expect = msg.kind /\ medium = "socket" /\ got = Len(stream)
           /\ Received(got) \in Seq(Nat) /\ Len(Received(got)) = Len(Serialize(msg))
           /\ Holds(Serialize(msg), 0, Received(got)) /\ got \in Nat
<1>1. /\ msg \in Message /\ expect = msg.kind /\ medium = "socket" /\ got = Len(stream)
  BY DEF IInv, ChoiceInv, StreamInv
<1>2. stream \in Seq(Nat) /\ Len(stream) \in Nat /\ stream = Serialize(msg)
  BY <1>1, StreamBytes DEF IInv
<1>3. got \in 0..Len(stream)
  BY <1>1, <1>2
<1>4. Received(got) \in Seq(Nat) /\ Len(Received(got)) = got /\ Holds(stream, 0, Received(got))
  BY <1>2, <1>3, HoldsFirst DEF Received
<1>5. QED
  BY <1>1, <1>2, <1>4

LEMMA RegisterKeeps == ASSUME IInv, RegisterDone PROVE IInv'
<1>0. /\ UNCHANGED <<choice, sender, got, want, heap, faulty, overread>> /\ pc = "body"
      /\ UNCHANGED <<msg, medium, stream, expect, sent, closed>>
      /\ got = want /\ expect = COMMAND_REGISTER_PEER
      /\ pc' = "decode" /\ buf' = Received(got) /\ dec' = Start("register", HeaderSize)
      /\ StreamInv /\ DecodeInv
  BY DEF RegisterDone, IInv, choice, sender
<1>1. /\ msg \in Message /\ expect = msg.kind
      /\ Received(got) \in Seq(Nat) /\ Len(Received(got)) = Len(Serialize(msg))
      /\ Holds(Serialize(msg), 0, Received(got))
  BY <1>0, BodyBuffer
<1>2. Payload(msg) = Serialize(msg) /\ msg.kind = COMMAND_REGISTER_PEER
  BY <1>0, <1>1, Commands DEF Payload
<1>3. /\ dec' \in Decoder /\ Doing(msg, dec') /\ Held(dec'.group) = {}
  BY <1>0, <1>1, <1>2, StartDoing
<1>4. BufInv'
  <2>1. buf' \in Seq(Nat) /\ Holds(Payload(msg), 0, buf') /\ Len(buf') = Len(Payload(msg))
    BY <1>0, <1>1, <1>2
  <2>2. ~(Len(buf') < Len(Payload(msg)))
    <3>1. Len(buf') \in Nat
      BY <2>1
    <3>2. QED
      BY <2>1, <3>1
  <2>3. QED
    BY <1>0, <2>1, <2>2 DEF BufInv
<1>5. StreamInv'
  BY <1>0 DEF StreamInv
<1>6. DecodeInv'
  <2>1. Doing(msg, dec)'
    BY <1>0, <1>3
  <2>2. QED
    BY <1>0, <1>1, <1>3, <1>4, <2>1 DEF DecodeInv, Torn, Cut
<1>7. QED
  BY <1>0, <1>3, <1>5, <1>6, BeforeKeeps

LEMMA BodyKeeps == ASSUME IInv, BodyDone PROVE IInv'
<1> DEFINE all == Received(got)
           from == HeaderSize + Size(Num)
           len == FieldAt(all, HeaderSize, Num)
           g == IF expect = COMMAND_SEND_PEER_LIST THEN "peers" ELSE "chain"
<1>0. /\ UNCHANGED <<choice, sender, got, want, heap, overread>> /\ pc = "body"
      /\ UNCHANGED <<msg, medium, stream, expect, sent, closed>>
      /\ got = want /\ expect # COMMAND_REGISTER_PEER
      /\ StreamInv /\ DecodeInv
  BY DEF BodyDone, IInv, choice, sender
<1>1. /\ msg \in Message /\ expect = msg.kind /\ got = Len(stream) /\ got \in Nat
      /\ all \in Seq(Nat) /\ Len(all) = Len(Serialize(msg)) /\ Holds(Serialize(msg), 0, all)
      /\ stream = Serialize(msg)
  <2>1. stream = Serialize(msg)
    BY <1>0, BodyBuffer, StreamBytes DEF IInv
  <2>2. QED
    BY <1>0, <2>1, BodyBuffer
<1> HIDE DEF all
<1>2. /\ len = Len(Payload(msg)) /\ Len(Payload(msg)) \in Nat /\ from + len = Len(all)
      /\ SubSeq(all, from + 1, from + len) = Payload(msg)
  <2>1. msg.kind # COMMAND_REGISTER_PEER
    BY <1>0, <1>1
  <2>2. QED
    BY <1>1, <2>1, MessageBody
<1>3. from \in Nat /\ from + len = got
  BY <1>1, <1>2 DEF HeaderSize, Size
<1> HIDE DEF len, from, g
<1>4. from <= got /\ from + len <= got
  BY <1>1, <1>2, <1>3
<1>5. \/ /\ pc' = "decode" /\ buf' = SubSeq(all, from + 1, from + len) /\ dec' = Start(g, 0)
         /\ UNCHANGED faulty
      \/ /\ from > got \/ from + len > got
         /\ pc' = "failed" /\ UNCHANGED <<buf, dec, faulty>>
      \/ pc' = "failed" /\ faulty' = TRUE /\ UNCHANGED <<buf, dec>>
  BY Zenon DEF BodyDone, all, from, len, g
<1>6. CASE pc' = "decode" /\ buf' = SubSeq(all, from + 1, from + len) /\ dec' = Start(g, 0)
           /\ UNCHANGED faulty
  <2>1. buf' = Payload(msg)
    BY <1>2, <1>6
  <2>2. Payload(msg) \in Seq(Nat)
    BY <1>0, <1>1, MessageBytes
  <2>3. Holds(Payload(msg), 0, Payload(msg)) /\ ~(Len(Payload(msg)) < Len(Payload(msg)))
    <3> DEFINE p == Payload(msg)
    <3>1. p \in Seq(Nat) /\ Len(p) \in Nat
      BY <1>2, <2>2
    <3> HIDE DEF p
    <3>2. \A j \in 1..Len(p) : 0 + j = j
      BY <3>1
    <3>3. Holds(p, 0, p) /\ ~(Len(p) < Len(p))
      BY <3>1, <3>2 DEF Holds
    <3>4. QED
      BY <3>3 DEF p
  <2>4. BufInv'
    BY <1>0, <2>1, <2>2, <2>3 DEF BufInv
  <2>5. \/ msg.kind = COMMAND_SEND_PEER_LIST /\ g = "peers"
        \/ msg.kind = COMMAND_SEND_BLOCKCHAIN /\ g = "chain"
    BY <1>0, <1>1, MessageKinds DEF g
  <2>6. dec' \in Decoder /\ Doing(msg, dec') /\ Held(dec'.group) = {}
    BY <1>1, <1>6, <2>5, StartDoing
  <2>7. Doing(msg, dec)'
    BY <1>0, <2>6
  <2>8. StreamInv'
    BY <1>0, <1>6 DEF StreamInv
  <2>9. DecodeInv'
    BY <1>0, <1>1, <1>6, <2>4, <2>6, <2>7 DEF DecodeInv, Torn, Cut
  <2>10. QED
    BY <1>0, <1>6, <2>6, <2>8, <2>9, BeforeKeeps
<1>7. CASE pc' = "failed" /\ faulty' = TRUE /\ UNCHANGED <<buf, dec>>
  <2>1. StreamInv'
    BY <1>0, <1>7 DEF StreamInv
  <2>2. DecodeInv'
    BY <1>0, <1>7 DEF DecodeInv, Torn, Cut
  <2>3. QED
    BY <1>0, <1>7, <2>1, <2>2, BeforeKeeps
<1>8. ~(from > got \/ from + len > got)
  <2>1. from + len \in Nat
    BY <1>1, <1>3
  <2>2. QED
    BY <1>1, <1>3, <1>4, <2>1
<1>9. QED
  BY <1>5, <1>6, <1>7, <1>8

LEMMA FileKeeps == ASSUME IInv, FileRead PROVE IInv'
<1>0. /\ UNCHANGED <<choice, sender, got, want, heap, overread>> /\ pc = "open" /\ closed
      /\ UNCHANGED <<msg, medium, stream, expect, sent, closed>>
      /\ buf' = Received(sent) /\ dec' = Start("chain", 0)
      /\ ChoiceInv /\ StreamInv /\ DecodeInv
  BY DEF FileRead, IInv, choice, sender
<1>1. \/ pc' = "decode" /\ UNCHANGED faulty
      \/ pc' = "failed" /\ faulty' = TRUE
  BY Zenon DEF FileRead
<1>2. /\ medium = "file" /\ msg \in Message /\ msg.kind = COMMAND_SEND_BLOCKCHAIN
      /\ expect = msg.kind /\ sent \in 0..Len(stream)
  BY <1>0 DEF ChoiceInv, StreamInv
<1>3. stream \in Seq(Nat) /\ Len(stream) \in Nat /\ stream = Payload(msg)
  BY <1>0, <1>2, StreamBytes
<1>4. /\ buf' \in Seq(Nat) /\ Len(buf') = sent /\ Holds(stream, 0, buf')
  BY <1>0, <1>2, <1>3, HoldsFirst DEF Received
<1>5. BufInv'
  <2>1. Len(buf') < Len(stream) => Torn'
    BY <1>0, <1>2, <1>4 DEF Torn, Cut
  <2>2. QED
    BY <1>0, <1>3, <1>4, <2>1 DEF BufInv
<1>6. dec' \in Decoder /\ Doing(msg, dec') /\ Held(dec'.group) = {}
  BY <1>0, <1>2, StartDoing
<1>7. Doing(msg, dec)'
  BY <1>0, <1>6
<1>8. StreamInv'
  BY <1>0, <1>1 DEF StreamInv
<1>9. DecodeInv'
  BY <1>0, <1>1, <1>2, <1>5, <1>6, <1>7 DEF DecodeInv, Torn, Cut
<1>10. QED
  BY <1>0, <1>1, <1>6, <1>8, <1>9, BeforeKeeps

-----------------------------------------------------------------------------
(* The steps of the decoder.                                                *)

LEMMA Decodes ==
    ASSUME IInv, pc = "decode"
    PROVE  /\ msg \in Message /\ dec \in Decoder /\ Doing(msg, dec) /\ buf \in Seq(Nat)
           /\ Holds(Payload(msg), 0, buf) /\ (Len(buf) < Len(Payload(msg)) => Torn)
           /\ heap = Held(dec.group) /\ faulty \in BOOLEAN /\ overread \in BOOLEAN
           /\ (overread => Torn) /\ Len(buf) \in Nat
<1>1. buf \in Seq(Nat)
  BY DEF IInv, DecodeInv, BufInv
<1>2. Len(buf) \in Nat
  BY <1>1
<1>3. QED
  BY <1>1, <1>2 DEF IInv, ChoiceInv, StreamInv, HeapInv, DecodeInv, BufInv

\* An allocation fails, and all that is held is freed.
LEMMA MemoryFails ==
    ASSUME IInv, pc = "decode", NEW freed, NoMemory(freed), Held(dec.group) \subseteq freed
    PROVE  Fails
<1>1. heap = Held(dec.group) /\ overread \in BOOLEAN
  BY Decodes
<1>2. /\ pc' = "failed" /\ heap' = heap \ freed /\ faulty' = TRUE /\ dec' = dec
      /\ overread' = overread
  BY DEF NoMemory, Reject
<1>3. heap' = {}
  BY <1>1, <1>2
<1>4. QED
  BY <1>1, <1>2, <1>3 DEF Fails

\* The next item is begun, or there is none.
LEMMA ItemGoes ==
    ASSUME IInv, pc = "decode", NEW d \in Decoder, NEW g, NextItem(d, g),
           d.left = 0 => Finished(msg, d),
           d.left # 0 => Took(d, g) \in Decoder /\ Doing(msg, Took(d, g)) /\ Took(d, g).group = g,
           heap' = Held(g), heap' \in {{}, {"peers"}, {"chain"}}
    PROVE  GoesOn \/ Succeeds
<1>0. overread \in BOOLEAN /\ faulty' = faulty /\ overread' = overread
  BY Decodes DEF NextItem
<1>1. CASE d.left = 0
  <2>1. pc' = "ok" /\ dec' = d
    BY <1>1 DEF NextItem
  <2>2. QED
    BY <1>0, <1>1, <2>1 DEF Succeeds
<1>2. CASE d.left # 0
  <2>1. pc' = "decode" /\ dec' = Took(d, g)
    BY <1>2 DEF NextItem, Took
  <2>2. dec' \in Decoder /\ Doing(msg, dec') /\ dec'.group = g
    BY <1>2, <2>1
  <2>3. QED
    BY <1>0, <2>1, <2>2 DEF GoesOn
<1>3. QED
  BY <1>1, <1>2

LEMMA FieldKeeps == ASSUME IInv, ReadField PROVE IInv'
<1> DEFINE layout == Layout[dec.group]
           end == End(dec)
           e == FieldTaken(dec, buf)
<1>0. /\ pc = "decode" /\ dec.group \in DOMAIN Layout /\ Len(dec.cur) < Len(layout)
      /\ UNCHANGED <<choice, sender, got, want, buf>> /\ UNCHANGED faulty /\ UNCHANGED overread
  BY DEF ReadField
<1>1. \/ end > Len(buf) /\ Reject(Frees(dec.group)) /\ UNCHANGED dec
      \/ ~(end > Len(buf)) /\ dec' = e /\ UNCHANGED <<pc, heap>>
  BY DEF ReadField, End, Kind, FieldTaken
<1>2. /\ msg \in Message /\ dec \in Decoder /\ Doing(msg, dec) /\ buf \in Seq(Nat)
      /\ Holds(Payload(msg), 0, buf) /\ (Len(buf) < Len(Payload(msg)) => Torn)
      /\ heap = Held(dec.group) /\ faulty \in BOOLEAN /\ overread \in BOOLEAN
      /\ Len(buf) \in Nat
  BY <1>0, Decodes
<1>3. /\ end \in Nat /\ end <= Len(Payload(msg)) /\ Len(Payload(msg)) \in Nat
      /\ end <= Len(buf) => e \in Decoder /\ Doing(msg, e) /\ e.group = dec.group
  BY <1>0, <1>2, FieldStep
<1> HIDE DEF end, e, layout
<1>4. CASE end > Len(buf) /\ Reject(Frees(dec.group)) /\ UNCHANGED dec
  <2>1. Torn
    BY <1>2, <1>3, <1>4
  <2>2. Held(dec.group) \subseteq Frees(dec.group)
    BY <1>0, Layouts DEF Held, Frees
  <2>3. pc' = "failed" /\ heap' = {}
    BY <1>2, <1>4, <2>2 DEF Reject
  <2>4. Fails
    BY <1>0, <1>2, <1>4, <2>1, <2>3 DEF Fails
  <2>5. QED
    BY <1>0, <2>4, DecoderKeeps
<1>5. CASE ~(end > Len(buf)) /\ dec' = e /\ UNCHANGED <<pc, heap>>
  <2>1. end <= Len(buf)
    BY <1>2, <1>3, <1>5
  <2>2. dec' \in Decoder /\ Doing(msg, dec') /\ dec'.group = dec.group
    BY <1>3, <1>5, <2>1
  <2>3. GoesOn
    BY <1>0, <1>2, <1>5, <2>2 DEF GoesOn
  <2>4. QED
    BY <1>0, <2>3, DecoderKeeps
<1>6. QED
  BY <1>1, <1>4, <1>5

\* What a step that follows a group of fields starts from.
LEMMA Completes ==
    ASSUME IInv, NEW g, Complete(g)
    PROVE  /\ pc = "decode" /\ dec.group = g /\ Len(dec.cur) = Len(Layout[g])
           /\ UNCHANGED <<choice, sender, got, want, buf>>
           /\ msg \in Message /\ dec \in Decoder /\ Doing(msg, dec) /\ heap = Held(g)
           /\ faulty \in BOOLEAN /\ overread \in BOOLEAN
<1>1. /\ pc = "decode" /\ dec.group = g /\ Len(dec.cur) = Len(Layout[g])
      /\ UNCHANGED <<choice, sender, got, want, buf>>
  BY DEF Complete
<1>2. QED
  BY <1>1, Decodes

LEMMA RegisterCompleteKeeps == ASSUME IInv, RegisterComplete PROVE IInv'
<1>1. Complete("register") /\ pc' = "ok" /\ UNCHANGED <<dec, heap, faulty, overread>>
  BY DEF RegisterComplete
<1>2. /\ pc = "decode" /\ dec.group = "register" /\ Len(dec.cur) = Len(Layout["register"])
      /\ UNCHANGED <<choice, sender, got, want, buf>>
      /\ msg \in Message /\ dec \in Decoder /\ Doing(msg, dec) /\ heap = Held("register")
  BY <1>1, Completes
<1>3. Finished(msg, dec)
  BY <1>2, RegisterStep
<1>4. heap' = {}
  BY <1>1, <1>2 DEF Held
<1>5. Succeeds
  BY <1>1, <1>2, <1>3, <1>4 DEF Succeeds
<1>6. QED
  BY <1>2, <1>5, DecoderKeeps

LEMMA PeersCompleteKeeps == ASSUME IInv, PeersComplete PROVE IInv'
<1>1. /\ Complete("peers")
      /\ \/ heap' = heap \cup {"peers"} /\ NextItem(Counted(dec), "peer")
         \/ NoMemory({})
  BY DEF PeersComplete, Counted
<1>2. /\ pc = "decode" /\ dec.group = "peers" /\ Len(dec.cur) = Len(Layout["peers"])
      /\ UNCHANGED <<choice, sender, got, want, buf>>
      /\ msg \in Message /\ dec \in Decoder /\ Doing(msg, dec) /\ heap = Held("peers")
  BY <1>1, Completes
<1>3. CASE heap' = heap \cup {"peers"} /\ NextItem(Counted(dec), "peer")
  <2>1. heap' = {"peers"} /\ Held("peer") = {"peers"}
    BY <1>2, <1>3 DEF Held
  <2>2. /\ Counted(dec) \in Decoder
        /\ Counted(dec).left = 0 => Finished(msg, Counted(dec))
        /\ Counted(dec).left # 0 => /\ Took(Counted(dec), "peer") \in Decoder
                                    /\ Doing(msg, Took(Counted(dec), "peer"))
                                    /\ Took(Counted(dec), "peer").group = "peer"
    BY <1>2, PeersStep
  <2>3. GoesOn \/ Succeeds
    BY <1>2, <1>3, <2>1, <2>2, ItemGoes
  <2>4. QED
    BY <1>2, <2>3, DecoderKeeps
<1>4. CASE NoMemory({})
  <2>1. Held(dec.group) \subseteq {}
    BY <1>2 DEF Held
  <2>2. Fails
    BY <1>2, <1>4, <2>1, MemoryFails
  <2>3. QED
    BY <1>2, <2>2, DecoderKeeps
<1>5. QED
  BY <1>1, <1>3, <1>4

LEMMA PeerCompleteKeeps == ASSUME IInv, PeerComplete PROVE IInv'
<1>1. /\ Complete("peer")
      /\ \/ heap' = heap /\ NextItem(PeerAdded(dec), "peer")
         \/ NoMemory({"peers"})
  BY DEF PeerComplete, PeerAdded
<1>2. /\ pc = "decode" /\ dec.group = "peer" /\ Len(dec.cur) = Len(Layout["peer"])
      /\ UNCHANGED <<choice, sender, got, want, buf>>
      /\ msg \in Message /\ dec \in Decoder /\ Doing(msg, dec) /\ heap = Held("peer")
  BY <1>1, Completes
<1>3. CASE heap' = heap /\ NextItem(PeerAdded(dec), "peer")
  <2>1. heap' = {"peers"} /\ Held("peer") = {"peers"}
    BY <1>2, <1>3 DEF Held
  <2>2. /\ PeerAdded(dec) \in Decoder
        /\ PeerAdded(dec).left = 0 => Finished(msg, PeerAdded(dec))
        /\ PeerAdded(dec).left # 0 => /\ Took(PeerAdded(dec), "peer") \in Decoder
                                      /\ Doing(msg, Took(PeerAdded(dec), "peer"))
                                      /\ Took(PeerAdded(dec), "peer").group = "peer"
    BY <1>2, PeerStep
  <2>3. GoesOn \/ Succeeds
    BY <1>2, <1>3, <2>1, <2>2, ItemGoes
  <2>4. QED
    BY <1>2, <2>3, DecoderKeeps
<1>4. CASE NoMemory({"peers"})
  <2>1. Held(dec.group) \subseteq {"peers"}
    BY <1>2 DEF Held
  <2>2. Fails
    BY <1>2, <1>4, <2>1, MemoryFails
  <2>3. QED
    BY <1>2, <2>2, DecoderKeeps
<1>5. QED
  BY <1>1, <1>3, <1>4

LEMMA ZerosCompleteKeeps == ASSUME IInv, ZerosComplete PROVE IInv'
<1>1. /\ Complete("chain")
      /\ \/ heap' = heap \cup {"chain"} /\ Goes /\ dec' = ZerosRead(dec)
         \/ NoMemory({})
  BY DEF ZerosComplete, ZerosRead
<1>2. /\ pc = "decode" /\ dec.group = "chain" /\ Len(dec.cur) = Len(Layout["chain"])
      /\ UNCHANGED <<choice, sender, got, want, buf>>
      /\ msg \in Message /\ dec \in Decoder /\ Doing(msg, dec) /\ heap = Held("chain")
      /\ overread \in BOOLEAN
  BY <1>1, Completes
<1>3. CASE heap' = heap \cup {"chain"} /\ Goes /\ dec' = ZerosRead(dec)
  <2>1. heap' = {"chain"} /\ Held("count") = {"chain"}
    BY <1>2, <1>3 DEF Held
  <2>2. dec' \in Decoder /\ Doing(msg, dec') /\ dec'.group = "count"
    BY <1>2, <1>3, ZerosStep
  <2>3. pc' = "decode" /\ faulty' = faulty /\ overread' = overread
    BY <1>2, <1>3 DEF Goes
  <2>4. GoesOn
    BY <1>2, <2>1, <2>2, <2>3 DEF GoesOn
  <2>5. QED
    BY <1>2, <2>4, DecoderKeeps
<1>4. CASE NoMemory({})
  <2>1. Held(dec.group) \subseteq {}
    BY <1>2 DEF Held
  <2>2. Fails
    BY <1>2, <1>4, <2>1, MemoryFails
  <2>3. QED
    BY <1>2, <2>2, DecoderKeeps
<1>5. QED
  BY <1>1, <1>3, <1>4

LEMMA CountCompleteKeeps == ASSUME IInv, CountComplete PROVE IInv'
<1>1. Complete("count") /\ heap' = heap /\ NextItem(Counted(dec), "block")
  BY DEF CountComplete, Counted
<1>2. /\ pc = "decode" /\ dec.group = "count" /\ Len(dec.cur) = Len(Layout["count"])
      /\ UNCHANGED <<choice, sender, got, want, buf>>
      /\ msg \in Message /\ dec \in Decoder /\ Doing(msg, dec) /\ heap = Held("count")
  BY <1>1, Completes
<1>3. heap' = {"chain"} /\ Held("block") = {"chain"}
  BY <1>1, <1>2 DEF Held
<1>4. /\ Counted(dec) \in Decoder
      /\ Counted(dec).left = 0 => Finished(msg, Counted(dec))
      /\ Counted(dec).left # 0 => /\ Took(Counted(dec), "block") \in Decoder
                                  /\ Doing(msg, Took(Counted(dec), "block"))
                                  /\ Took(Counted(dec), "block").group = "block"
  BY <1>2, CountStep
<1>5. GoesOn \/ Succeeds
  BY <1>1, <1>2, <1>3, <1>4, ItemGoes
<1>6. QED
  BY <1>2, <1>5, DecoderKeeps

LEMMA BlockHeadCompleteKeeps == ASSUME IInv, BlockHeadComplete PROVE IInv'
<1>1. /\ Complete("block")
      /\ \/ heap' = heap \cup {"txs"} /\ Goes /\ dec' = HeadRead(dec)
         \/ NoMemory({"chain"})
  BY DEF BlockHeadComplete, HeadRead
<1>2. /\ pc = "decode" /\ dec.group = "block" /\ Len(dec.cur) = Len(Layout["block"])
      /\ UNCHANGED <<choice, sender, got, want, buf>>
      /\ msg \in Message /\ dec \in Decoder /\ Doing(msg, dec) /\ heap = Held("block")
      /\ overread \in BOOLEAN
  BY <1>1, Completes
<1>3. CASE heap' = heap \cup {"txs"} /\ Goes /\ dec' = HeadRead(dec)
  <2>1. heap' = {"chain", "txs"} /\ Held("txs") = {"chain", "txs"}
    BY <1>2, <1>3 DEF Held
  <2>2. dec' \in Decoder /\ Doing(msg, dec') /\ dec'.group = "txs"
    BY <1>2, <1>3, BlockHeadStep
  <2>3. pc' = "decode" /\ faulty' = faulty /\ overread' = overread
    BY <1>2, <1>3 DEF Goes
  <2>4. GoesOn
    BY <1>2, <2>1, <2>2, <2>3 DEF GoesOn
  <2>5. QED
    BY <1>2, <2>4, DecoderKeeps
<1>4. CASE NoMemory({"chain"})
  <2>1. Held(dec.group) \subseteq {"chain"}
    BY <1>2 DEF Held
  <2>2. Fails
    BY <1>2, <1>4, <2>1, MemoryFails
  <2>3. QED
    BY <1>2, <2>2, DecoderKeeps
<1>5. QED
  BY <1>1, <1>3, <1>4

LEMMA TxStartKeeps == ASSUME IInv, TxStart PROVE IInv'
<1>1. /\ pc = "decode" /\ dec.group = "txs" /\ dec.txLeft > 0
      /\ UNCHANGED <<choice, sender, got, want, buf>>
      /\ \/ heap' = heap \cup {"tx"} /\ Goes /\ dec' = TxTaken(dec)
         \/ NoMemory({"chain", "txs"})
  BY DEF TxStart, TxTaken
<1>2. /\ msg \in Message /\ dec \in Decoder /\ Doing(msg, dec) /\ heap = Held(dec.group)
      /\ overread \in BOOLEAN
  BY <1>1, Decodes
<1>3. CASE heap' = heap \cup {"tx"} /\ Goes /\ dec' = TxTaken(dec)
  <2>1. heap' = {"chain", "txs", "tx"} /\ Held("tx") = {"chain", "txs", "tx"}
    BY <1>1, <1>2, <1>3 DEF Held
  <2>2. dec' \in Decoder /\ Doing(msg, dec') /\ dec'.group = "tx"
    BY <1>1, <1>2, <1>3, TxStartStep
  <2>3. pc' = "decode" /\ faulty' = faulty /\ overread' = overread
    BY <1>1, <1>3 DEF Goes
  <2>4. GoesOn
    BY <1>2, <2>1, <2>2, <2>3 DEF GoesOn
  <2>5. QED
    BY <1>1, <2>4, DecoderKeeps
<1>4. CASE NoMemory({"chain", "txs"})
  <2>1. Held(dec.group) \subseteq {"chain", "txs"}
    BY <1>1 DEF Held
  <2>2. Fails
    BY <1>1, <1>4, <2>1, MemoryFails
  <2>3. QED
    BY <1>1, <2>2, DecoderKeeps
<1>5. QED
  BY <1>1, <1>3, <1>4

LEMMA TxCompleteKeeps == ASSUME IInv, TxComplete PROVE IInv'
<1> DEFINE length == dec.cur[5]
           sig == SigAt(buf, dec.pos)
           all == {"chain", "txs", "tx"}
           e == TxRead(dec, sig)
<1>1. /\ Complete("tx")
      /\ \/ /\ length > SigSize \/ dec.pos + length > Len(buf)
            /\ Reject(all) /\ UNCHANGED <<dec, faulty, overread>>
         \/ /\ length <= SigSize /\ dec.pos + length <= Len(buf)
            /\ overread' = (overread \/ dec.pos + SigSize > Len(buf))
            /\ \/ heap' = heap \ {"tx"} /\ UNCHANGED <<pc, faulty>> /\ dec' = e
               \/ Reject(all) /\ faulty' = TRUE /\ UNCHANGED dec
               \/ overread' /\ pc' = "faulted" /\ UNCHANGED <<dec, heap, faulty>>
  BY Zenon DEF TxComplete, TxRead, SigAt
<1>2. /\ pc = "decode" /\ dec.group = "tx" /\ Len(dec.cur) = Len(Layout["tx"])
      /\ UNCHANGED <<choice, sender, got, want, buf>>
      /\ msg \in Message /\ dec \in Decoder /\ Doing(msg, dec) /\ heap = Held("tx")
      /\ faulty \in BOOLEAN /\ overread \in BOOLEAN
  BY <1>1, Completes
<1>3. /\ buf \in Seq(Nat) /\ Holds(Payload(msg), 0, buf) /\ Len(buf) \in Nat
      /\ (Len(buf) < Len(Payload(msg)) => Torn)
  BY <1>2, Decodes
<1>4. /\ length \in Nat /\ length <= SigSize
      /\ dec.pos + SigSize <= Len(Payload(msg)) /\ Len(Payload(msg)) \in Nat
      /\ dec.pos + length <= Len(buf) => e \in Decoder /\ Doing(msg, e) /\ e.group = "txs"
  BY <1>2, <1>3, TxStep
<1>5. dec.pos \in Nat /\ SigSize \in Nat
  BY <1>2, DecoderFields, WireAssumption
<1>6. Held("tx") = {"chain", "txs", "tx"} /\ Held("txs") = {"chain", "txs"}
  BY DEF Held
<1> HIDE DEF length, sig, e
<1>7. CASE /\ length > SigSize \/ dec.pos + length > Len(buf)
           /\ Reject(all) /\ UNCHANGED <<dec, faulty, overread>>
  <2>1. Torn
    BY <1>3, <1>4, <1>5, <1>7
  <2>2. pc' = "failed" /\ heap' = {}
    BY <1>2, <1>6, <1>7 DEF Reject
  <2>3. Fails
    BY <1>2, <1>7, <2>1, <2>2 DEF Fails
  <2>4. QED
    BY <1>2, <2>3, DecoderKeeps
<1>8. CASE /\ length <= SigSize /\ dec.pos + length <= Len(buf)
           /\ overread' = (overread \/ dec.pos + SigSize > Len(buf))
           /\ \/ heap' = heap \ {"tx"} /\ UNCHANGED <<pc, faulty>> /\ dec' = e
              \/ Reject(all) /\ faulty' = TRUE /\ UNCHANGED dec
              \/ overread' /\ pc' = "faulted" /\ UNCHANGED <<dec, heap, faulty>>
  <2>1. dec.pos + SigSize > Len(buf) => Torn
    BY <1>3, <1>4, <1>5
  <2>2. overread' \in BOOLEAN /\ (overread' => overread \/ Torn)
    BY <1>2, <1>8, <2>1
  <2>o. overread => Torn
    BY <1>2, Decodes
  <2>3. CASE heap' = heap \ {"tx"} /\ UNCHANGED <<pc, faulty>> /\ dec' = e
    <3>1. dec' \in Decoder /\ Doing(msg, dec') /\ dec'.group = "txs"
      BY <1>4, <1>8, <2>3
    <3>2. heap' = {"chain", "txs"}
      BY <1>2, <1>6, <2>3
    <3>3. GoesOn
      BY <1>2, <1>6, <2>2, <2>3, <3>1, <3>2 DEF GoesOn
    <3>4. QED
      BY <1>2, <3>3, DecoderKeeps
  <2>4. CASE Reject(all) /\ faulty' = TRUE /\ UNCHANGED dec
    <3>1. pc' = "failed" /\ heap' = {}
      BY <1>2, <1>6, <2>4 DEF Reject
    <3>2. Fails
      BY <1>2, <2>2, <2>4, <3>1 DEF Fails
    <3>3. QED
      BY <1>2, <3>2, DecoderKeeps
  <2>5. CASE overread' /\ pc' = "faulted" /\ UNCHANGED <<dec, heap, faulty>>
    <3>1. Faults
      BY <2>2, <2>o, <2>5 DEF Faults
    <3>2. QED
      BY <1>2, <3>1, DecoderKeeps
  <2>6. QED
    BY <1>8, <2>3, <2>4, <2>5
<1>9. QED
  BY <1>1, <1>7, <1>8

LEMMA BlockCompleteKeeps == ASSUME IInv, BlockComplete PROVE IInv'
<1>1. /\ pc = "decode" /\ dec.group = "txs" /\ dec.txLeft = 0
      /\ UNCHANGED <<choice, sender, got, want, buf>>
      /\ \/ heap' = heap \ {"txs"} /\ NextItem(BlockAdded(dec), "block")
         \/ NoMemory({"chain", "txs"})
  BY DEF BlockComplete, BlockAdded
<1>2. /\ msg \in Message /\ dec \in Decoder /\ Doing(msg, dec) /\ heap = Held(dec.group)
  BY <1>1, Decodes
<1>3. CASE heap' = heap \ {"txs"} /\ NextItem(BlockAdded(dec), "block")
  <2>1. heap' = {"chain"} /\ Held("block") = {"chain"}
    BY <1>1, <1>2, <1>3 DEF Held
  <2>2. /\ BlockAdded(dec) \in Decoder
        /\ BlockAdded(dec).left = 0 => Finished(msg, BlockAdded(dec))
        /\ BlockAdded(dec).left # 0 => /\ Took(BlockAdded(dec), "block") \in Decoder
                                       /\ Doing(msg, Took(BlockAdded(dec), "block"))
                                       /\ Took(BlockAdded(dec), "block").group = "block"
    BY <1>1, <1>2, BlockStep
  <2>3. GoesOn \/ Succeeds
    BY <1>1, <1>3, <2>1, <2>2, ItemGoes
  <2>4. QED
    BY <1>1, <2>3, DecoderKeeps
<1>4. CASE NoMemory({"chain", "txs"})
  <2>1. Held(dec.group) \subseteq {"chain", "txs"}
    BY <1>1 DEF Held
  <2>2. Fails
    BY <1>1, <1>4, <2>1, MemoryFails
  <2>3. QED
    BY <1>1, <2>2, DecoderKeeps
<1>5. QED
  BY <1>1, <1>3, <1>4

-----------------------------------------------------------------------------
(* The theorems.                                                           *)

LEMMA Unmoved == ASSUME IInv, UNCHANGED vars PROVE IInv'
<1>1. UNCHANGED <<msg, medium, stream, expect, sent, closed, pc, got, want, buf, dec, heap,
                  faulty, overread>>
  BY DEF vars, choice, sender, receiver
<1>2. QED
  BY <1>1 DEF IInv, ChoiceInv, StreamInv, HeapInv, DecodeInv, BufInv, Torn, Cut

LEMMA NextInv == IInv /\ [Next]_vars => IInv'
<1> SUFFICES ASSUME IInv, [Next]_vars PROVE IInv'
  OBVIOUS
<1>1. CASE Sender
  BY <1>1, SenderKeeps
<1>2. CASE RecvSome \/ RecvEnd
  BY <1>2, RecvKeeps
<1>3. CASE HeaderDone
  BY <1>3, HeaderKeeps
<1>4. CASE RegisterDone
  BY <1>4, RegisterKeeps
<1>5. CASE BodyDone
  BY <1>5, BodyKeeps
<1>6. CASE FileRead
  BY <1>6, FileKeeps
<1>7. CASE ReadField
  BY <1>7, FieldKeeps
<1>8. CASE RegisterComplete
  BY <1>8, RegisterCompleteKeeps
<1>9. CASE PeersComplete
  BY <1>9, PeersCompleteKeeps
<1>10. CASE PeerComplete
  BY <1>10, PeerCompleteKeeps
<1>11. CASE ZerosComplete
  BY <1>11, ZerosCompleteKeeps
<1>12. CASE CountComplete
  BY <1>12, CountCompleteKeeps
<1>13. CASE BlockHeadComplete
  BY <1>13, BlockHeadCompleteKeeps
<1>14. CASE TxStart
  BY <1>14, TxStartKeeps
<1>15. CASE TxComplete
  BY <1>15, TxCompleteKeeps
<1>16. CASE BlockComplete
  BY <1>16, BlockCompleteKeeps
<1>17. CASE UNCHANGED vars
  BY <1>17, Unmoved
<1>18. QED
  BY <1>1, <1>2, <1>3, <1>4, <1>5, <1>6, <1>7, <1>8, <1>9, <1>10, <1>11, <1>12, <1>13, <1>14,
     <1>15, <1>16, <1>17 DEF Next, Receiver

LEMMA TransferInv == Spec => []IInv
<1>1. Init => IInv
  BY InitInv
<1>2. QED
  BY <1>1, NextInv, PTL DEF Spec

(* The receiver's counters stay in their ranges whatever splits the stream:  *)
(* recv_all never counts more than was sent, and the decoder's position and  *)
(* its counters of what is left never go below zero (networking.c,           *)
(* blockchain.c).                                                            *)
THEOREM TransferTypeCorrect == Spec => []TypeOK
<1>1. IInv => TypeOK
  <2> SUFFICES ASSUME IInv PROVE TypeOK
    OBVIOUS
  <2>1. /\ dec.group \in DOMAIN Layout \cup {"none", "txs"} /\ dec.pos \in Nat
        /\ dec.left \in Nat /\ dec.txLeft \in Nat
    BY DecoderFields DEF IInv, DecodeInv
  <2>2. QED
    BY <2>1 DEF IInv, ChoiceInv, StreamInv, HeapInv, TypeOK
<1>2. QED
  BY <1>1, TransferInv, PTL

(* What blockchain_deserialize, peer_info_list_deserialize or                *)
(* command_register_peer_deserialize accepts is what was serialized, for     *)
(* every message whose values fit their fields, every way recv_all splits it *)
(* and every place a file may be cut off at.                                 *)
THEOREM RoundTrip == Spec => []AcceptedIsSent
<1>1. IInv => AcceptedIsSent
  <2> SUFFICES ASSUME IInv, pc = "ok" PROVE expect = msg.kind /\ Decoded = Original
    BY DEF AcceptedIsSent
  <2>1. expect = msg.kind /\ Finished(msg, dec) /\ msg \in Message
    BY DEF IInv, DecodeInv, ChoiceInv
  <2>2. CASE msg.kind = COMMAND_REGISTER_PEER
    BY <2>1, <2>2, Commands DEF Finished, Decoded, Original
  <2>3. CASE msg.kind = COMMAND_SEND_PEER_LIST
    BY <2>1, <2>3, Commands DEF Finished, Decoded, Original
  <2>4. CASE msg.kind = COMMAND_SEND_BLOCKCHAIN
    BY <2>1, <2>4, Commands DEF Finished, Decoded, Original
  <2>5. QED
    BY <2>1, <2>2, <2>3, <2>4, MessageKinds
<1>2. QED
  BY <1>1, TransferInv, PTL

(* None of the codecs refuses what another one wrote: an error is due to the *)
(* other command, a cut file, a reset or a failed allocation.                *)
THEOREM NoFalseReject == Spec => []WholeIsAccepted
<1>1. IInv => WholeIsAccepted
  BY DEF IInv, DecodeInv, Torn, WholeIsAccepted
<1>2. QED
  BY <1>1, TransferInv, PTL

(* Every error path of the decoders frees what was allocated before it.      *)
THEOREM DecoderFreesAll == Spec => []NoDecoderLeak
<1>1. IInv => NoDecoderLeak
  <2> SUFFICES ASSUME IInv PROVE NoDecoderLeak
    OBVIOUS
  <2>1. /\ pc = "failed" => heap = {}
        /\ pc = "ok" => heap \in {{}, {"peers"}, {"chain"}}
    BY DEF IInv, HeapInv
  <2>2. \A h \in {{}, {"peers"}, {"chain"}} :
            h \subseteq {"peers", "chain"} /\ Cardinality(h) <= 1
    <3>1. Cardinality({}) = 0 /\ Cardinality({"peers"}) = 1 /\ Cardinality({"chain"}) = 1
      BY FS_EmptySet, FS_Singleton
    <3>2. QED
      BY <3>1
  <2>3. QED
    BY <2>1, <2>2 DEF NoDecoderLeak
<1>2. QED
  BY <1>1, TransferInv, PTL
=============================================================================
