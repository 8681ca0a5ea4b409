-------------------------- MODULE DescriptorsProofs --------------------------
(***************************************************************************)
(* The descriptor table for any size and any number of peers.  The argument *)
(* is an account of the table: every open descriptor is held by exactly one *)
(* thread or was leaked by a failed exchange, and each failure leaks at     *)
(* most one.                                                                *)
(***************************************************************************)
EXTENDS Descriptors, FiniteSetTheorems, LeastElement, TLAPS

\* What the threads hold.
Owned == {listenFd, connFd, cFd, dFd, fileFd} \ {None}

\* A thread holds a descriptor only where its code uses one.
PcInv ==
    /\ sPc = "start" => listenFd = None
    /\ sPc # "serve" => connFd = None
    /\ cPc # "exchange" => cFd = None
    /\ dPc # "exchange" => dFd = None
    /\ mPc # "write" => fileFd = None

\* NoSharedDescriptor without the index of Held.
Apart ==
    /\ Owned \subseteq table
    /\ listenFd # None => listenFd \notin {connFd, cFd, dFd, fileFd}
    /\ connFd # None => connFd \notin {cFd, dFd, fileFd}
    /\ cFd # None => cFd \notin {dFd, fileFd}
    /\ dFd # None => dFd # fileFd

\* The descriptors nobody will close are paid for by failures.
Account == Cardinality(table \ Owned) <= failures

Inv == TypeOK /\ PcInv /\ Apart /\ Account /\ FailuresAloneExhaust

-----------------------------------------------------------------------------
\* A table that is not full has a lowest free descriptor.
LEMMA LowestFree ==
    ASSUME table \subseteq Descriptor, ~Full
    PROVE  Lowest \in Descriptor /\ Lowest \notin table /\ Lowest # None
<1> DEFINE Free == Descriptor \ table
<1>1. PICK x \in Descriptor : x \notin table
  BY DEF Full
<1>2. Free # {} /\ Free \subseteq Nat
  BY <1>1, ConstantsAssumption DEF Descriptor
<1>3. PICK d \in Free : \A e \in Free : d <= e
  <2> HIDE DEF Free
  <2>1. QED
    BY <1>2, LeastNat
<1>4. Lowest \in Free
  BY <1>3 DEF Lowest
<1>5. QED
  BY <1>4, ConstantsAssumption DEF Descriptor, None

\* The table is finite, and so is everything in it.
LEMMA TableFinite ==
    ASSUME TypeOK
    PROVE  /\ IsFiniteSet(Descriptor) /\ Cardinality(Descriptor) = Limit
           /\ IsFiniteSet(table)
           /\ \A S : IsFiniteSet(table \ S) /\ Cardinality(table \ S) \in Nat
<1>1. IsFiniteSet(Descriptor) /\ Cardinality(Descriptor) = Limit
  BY FS_Interval, ConstantsAssumption DEF Descriptor
<1>2. IsFiniteSet(table)
  BY <1>1, FS_Subset DEF TypeOK
<1>3. ASSUME NEW S PROVE IsFiniteSet(table \ S) /\ Cardinality(table \ S) \in Nat
  BY <1>2, FS_Difference, FS_CardinalityType
<1>4. QED
  BY <1>1, <1>2, <1>3

\* Adding a value adds at most one to the size of a set.
LEMMA OneMore ==
    ASSUME NEW S, NEW x, IsFiniteSet(S)
    PROVE  /\ IsFiniteSet(S \cup {x})
           /\ Cardinality(S) \in Nat /\ Cardinality(S \cup {x}) \in Nat
           /\ Cardinality(S \cup {x}) <= Cardinality(S) + 1
BY FS_AddElement, FS_CardinalityType

\* Four values make a set of at most four.
LEMMA FourAtMost ==
    ASSUME NEW a, NEW b, NEW c, NEW d, NEW S, S \subseteq {a, b, c, d}
    PROVE  IsFiniteSet(S) /\ Cardinality(S) \in Nat /\ Cardinality(S) <= 4
<1> DEFINE One == {a}
           Two == One \cup {b}
           Three == Two \cup {c}
           All == Three \cup {d}
<1>1. IsFiniteSet(One) /\ Cardinality(One) = 1 /\ S \subseteq All
  BY FS_Singleton
<1> HIDE DEF One
<1>2. IsFiniteSet(Two) /\ Cardinality(Two) \in Nat /\ Cardinality(Two) <= 2
  <2>1. /\ IsFiniteSet(Two) /\ Cardinality(Two) \in Nat
        /\ Cardinality(Two) <= Cardinality(One) + 1
    BY <1>1, OneMore, Zenon
  <2>2. QED
    BY <1>1, <2>1
<1> HIDE DEF Two
<1>3. IsFiniteSet(Three) /\ Cardinality(Three) \in Nat /\ Cardinality(Three) <= 3
  <2>1. /\ IsFiniteSet(Three) /\ Cardinality(Three) \in Nat
        /\ Cardinality(Three) <= Cardinality(Two) + 1
    BY <1>2, OneMore, Zenon
  <2>2. QED
    BY <1>2, <2>1
<1> HIDE DEF Three
<1>4. IsFiniteSet(All) /\ Cardinality(All) \in Nat /\ Cardinality(All) <= 4
  <2>1. /\ IsFiniteSet(All) /\ Cardinality(All) \in Nat
        /\ Cardinality(All) <= Cardinality(Three) + 1
    BY <1>3, OneMore, Zenon
  <2>2. QED
    BY <1>3, <2>1
<1> HIDE DEF All
<1>5. IsFiniteSet(S) /\ Cardinality(S) <= Cardinality(All)
  BY <1>1, <1>4, FS_Subset
<1>6. Cardinality(S) \in Nat
  BY <1>5, FS_CardinalityType
<1>7. QED
  BY <1>4, <1>5, <1>6

-----------------------------------------------------------------------------
(* The steps.                                                              *)

\* Nothing is open at first.
LEMMA InitInv == Init => Inv
<1> SUFFICES ASSUME Init PROVE Inv
  OBVIOUS
<1>1. TypeOK /\ PcInv /\ FailuresAloneExhaust
  <2>1. 0 \in 0..MaxPeers /\ None \in Fd
    BY ConstantsAssumption DEF Fd
  <2>2. TypeOK
    BY <2>1 DEF Init, TypeOK
  <2>3. QED
    BY <2>2 DEF Init, PcInv, FailuresAloneExhaust
<1>2. Apart /\ Owned = {}
  BY DEF Init, Apart, Owned
<1>3. Cardinality(table \ Owned) = 0
  <2>1. table \ Owned = {}
    BY DEF Init
  <2>2. QED
    BY <2>1, FS_EmptySet
<1>4. QED
  BY <1>1, <1>2, <1>3 DEF Inv, Account, Init

\* A step that changes neither what is leaked nor the count of failures.
LEMMA SameAccount ==
    ASSUME Account, table' \ Owned' = table \ Owned, failures' = failures
    PROVE  Account'
BY DEF Account

\* A failed exchange leaks the one descriptor its thread held.
LEMMA LeakAccount ==
    ASSUME TypeOK, Account, NEW fd, UNCHANGED table, failures' = failures + 1,
           table \ Owned' \subseteq (table \ Owned) \cup {fd}
    PROVE  Account'
<1>1. /\ IsFiniteSet(table \ Owned) /\ Cardinality(table \ Owned) \in Nat
      /\ IsFiniteSet(table \ Owned') /\ Cardinality(table \ Owned') \in Nat
  BY TableFinite
<1> DEFINE Old == table \ Owned
           New == table \ Owned'
<1>2. New \subseteq Old \cup {fd} /\ table' \ Owned' = New
  OBVIOUS
<1>3. Cardinality(Old) <= failures /\ failures \in Nat
  BY DEF Account, TypeOK
<1> HIDE DEF Old, New
<1>4. /\ IsFiniteSet(Old \cup {fd}) /\ Cardinality(Old \cup {fd}) \in Nat
      /\ Cardinality(Old \cup {fd}) <= Cardinality(Old) + 1
  <2>1. IsFiniteSet(Old)
    BY <1>1 DEF Old
  <2>2. QED
    BY <2>1, OneMore, Zenon
<1>5. Cardinality(New) <= Cardinality(Old \cup {fd})
  BY <1>2, <1>4, FS_Subset
<1>6. Cardinality(New) <= failures + 1
  <2>1. Cardinality(New) \in Nat /\ Cardinality(Old) \in Nat
    BY <1>1 DEF Old, New
  <2>2. QED
    BY <1>3, <1>4, <1>5, <2>1
<1>7. QED
  BY <1>2, <1>6 DEF Account

\* When socket, accept or fopen finds the table full, all of it is leaked but
\* for what the other four descriptors of the process account for.
LEMMA FullIsPaid ==
    ASSUME TypeOK, Account, Full, NEW a, NEW b, NEW c, NEW d,
           Owned \subseteq {a, b, c, d}
    PROVE  failures + Needed > Limit
<1> DEFINE Leaked == table \ Owned
<1>1. /\ IsFiniteSet(Owned) /\ Cardinality(Owned) \in Nat /\ Cardinality(Owned) <= 4
  BY FourAtMost
<1>2. IsFiniteSet(Leaked) /\ Cardinality(Leaked) \in Nat
  BY TableFinite
<1>3. Cardinality(Leaked) <= failures /\ failures \in Nat /\ Limit \in Nat
  BY ConstantsAssumption DEF Account, TypeOK
<1>4. Descriptor \subseteq Leaked \cup Owned
  BY DEF Full
<1> HIDE DEF Leaked
<1>5. /\ IsFiniteSet(Leaked \cup Owned)
      /\ Cardinality(Leaked \cup Owned)
            = Cardinality(Leaked) + Cardinality(Owned) - Cardinality(Leaked \cap Owned)
      /\ Cardinality(Leaked \cap Owned) \in Nat
  BY <1>1, <1>2, FS_Union, FS_Intersection, FS_CardinalityType
<1>6. Limit <= Cardinality(Leaked \cup Owned)
  <2>1. Cardinality(Descriptor) = Limit
    BY TableFinite
  <2>2. QED
    BY <1>4, <1>5, <2>1, FS_Subset
<1>7. QED
  BY <1>1, <1>2, <1>3, <1>5, <1>6 DEF Needed

\* The server opens its listening socket, or finds no room.
LEMMA ServerListenInv == Inv /\ ServerListen => Inv'
<1> SUFFICES ASSUME Inv, ServerListen PROVE Inv'
  OBVIOUS
<1>0. TypeOK /\ PcInv /\ Apart /\ Account /\ FailuresAloneExhaust
  BY DEF Inv
<1>1. CASE ~Full
  <2>1. Lowest \in Descriptor /\ Lowest \notin table /\ Lowest # None
    BY <1>1, <1>0, LowestFree DEF ServerListen, Take, TypeOK
  <2>2. table' = table \cup {Lowest} /\ listenFd' = Lowest /\ listenFd = None
    BY <1>1, <1>0 DEF ServerListen, Take, PcInv
  <2>3. TypeOK' /\ PcInv' /\ FailuresAloneExhaust'
    BY <1>1, <1>0, <2>1, <2>2 DEF ServerListen, TypeOK, Fd, PcInv, FailuresAloneExhaust, client, discovery, miner
  <2>4. Apart' /\ Owned' = Owned \cup {Lowest}
    BY <1>1, <1>0, <2>1, <2>2 DEF ServerListen, Apart, Owned, client, discovery, miner
  <2>5. Account'
    <3>1. table' \ Owned' = table \ Owned /\ failures' = failures
      BY <1>1, <2>1, <2>2, <2>4 DEF ServerListen
    <3>2. QED
      BY <1>0, <3>1, SameAccount
  <2>6. QED
    BY <2>3, <2>4, <2>5 DEF Inv
<1>2. CASE Full
  <2>1. UNCHANGED <<table, listenFd, connFd, cFd, dFd, fileFd, failures>> /\ listenFd = None
    BY <1>0, <1>2 DEF ServerListen, Take, PcInv, client, discovery, miner
  <2>2. failures + Needed > Limit
    <3>1. Owned \subseteq {connFd, cFd, dFd, fileFd}
      BY <2>1 DEF Owned
    <3>2. QED
      BY <1>0, <1>2, <3>1, FullIsPaid
  <2>3. TypeOK' /\ PcInv'
    BY <1>0, <1>2 DEF ServerListen, Take, TypeOK, Fd, PcInv, client, discovery, miner
  <2>4. FailuresAloneExhaust'
    BY <2>1, <2>2 DEF FailuresAloneExhaust
  <2>5. Apart' /\ table' \ Owned' = table \ Owned
    BY <1>0, <2>1 DEF Apart, Owned
  <2>6. QED
    BY <1>0, <2>1, <2>3, <2>4, <2>5, SameAccount DEF Inv
<1>3. QED
  BY <1>1, <1>2


\* The server accepts, or finds no room.
LEMMA ServerAcceptInv == Inv /\ ServerAccept => Inv'
<1> SUFFICES ASSUME Inv, ServerAccept PROVE Inv'
  OBVIOUS
<1>0. TypeOK /\ PcInv /\ Apart /\ Account /\ FailuresAloneExhaust
  BY DEF Inv
<1>1. CASE ~Full
  <2>1. Lowest \in Descriptor /\ Lowest \notin table /\ Lowest # None
    BY <1>1, <1>0, LowestFree DEF ServerAccept, Take, TypeOK
  <2>2. table' = table \cup {Lowest} /\ connFd' = Lowest /\ connFd = None
    BY <1>1, <1>0 DEF ServerAccept, Take, PcInv
  <2>3. TypeOK' /\ PcInv' /\ FailuresAloneExhaust'
    BY <1>1, <1>0, <2>1, <2>2 DEF ServerAccept, TypeOK, Fd, PcInv, FailuresAloneExhaust, client, discovery, miner
  <2>4. Apart' /\ Owned' = Owned \cup {Lowest}
    BY <1>1, <1>0, <2>1, <2>2 DEF ServerAccept, Apart, Owned, client, discovery, miner
  <2>5. Account'
    <3>1. table' \ Owned' = table \ Owned /\ failures' = failures
      BY <1>1, <2>1, <2>2, <2>4 DEF ServerAccept
    <3>2. QED
      BY <1>0, <3>1, SameAccount
  <2>6. QED
    BY <2>3, <2>4, <2>5 DEF Inv
<1>2. CASE Full
  <2>1. UNCHANGED <<table, listenFd, connFd, cFd, dFd, fileFd, failures>> /\ connFd = None
    BY <1>0, <1>2 DEF ServerAccept, Take, PcInv, client, discovery, miner
  <2>2. failures + Needed > Limit
    <3>1. Owned \subseteq {listenFd, cFd, dFd, fileFd}
      BY <2>1 DEF Owned
    <3>2. QED
      BY <1>0, <1>2, <3>1, FullIsPaid
  <2>3. TypeOK' /\ PcInv'
    BY <1>0, <1>2 DEF ServerAccept, Take, TypeOK, Fd, PcInv, client, discovery, miner
  <2>4. FailuresAloneExhaust'
    BY <2>1, <2>2 DEF FailuresAloneExhaust
  <2>5. Apart' /\ table' \ Owned' = table \ Owned
    BY <1>0, <2>1 DEF Apart, Owned
  <2>6. QED
    BY <1>0, <2>1, <2>3, <2>4, <2>5, SameAccount DEF Inv
<1>3. QED
  BY <1>1, <1>2


\* The server closes its connection.
LEMMA ServerCloseInv == Inv /\ ServerClose => Inv'
<1> SUFFICES ASSUME Inv, ServerClose PROVE Inv'
  OBVIOUS
<1>0. TypeOK /\ PcInv /\ Apart /\ Account /\ FailuresAloneExhaust
  BY DEF Inv
<1>1. TypeOK' /\ PcInv' /\ FailuresAloneExhaust'
  BY <1>0 DEF ServerClose, Close, TypeOK, Fd, PcInv, FailuresAloneExhaust, client, discovery, miner
<1>2. Apart' /\ Owned' = Owned \ {connFd}
  BY <1>0 DEF ServerClose, Close, Apart, Owned, client, discovery, miner
<1>3. Account'
  <2>1. connFd \in Owned \/ connFd \notin table
    BY <1>0 DEF Owned, TypeOK, Descriptor, None
  <2>2. table' = table \ {connFd} /\ failures' = failures
    BY DEF ServerClose, Close
  <2>3. table' \ Owned' = table \ Owned
    BY <1>2, <2>1, <2>2
  <2>4. QED
    BY <1>0, <2>2, <2>3, SameAccount
<1>4. QED
  BY <1>1, <1>2, <1>3 DEF Inv


\* The broadcast thread opens a socket; without room it tries the next peer.
LEMMA ClientSocketInv == Inv /\ ClientSocket => Inv'
<1> SUFFICES ASSUME Inv, ClientSocket PROVE Inv'
  OBVIOUS
<1>0. TypeOK /\ PcInv /\ Apart /\ Account /\ FailuresAloneExhaust
  BY DEF Inv
<1>a. cLeft - 1 \in 0..MaxPeers
  BY <1>0, ConstantsAssumption DEF ClientSocket, TypeOK
<1>1. CASE ~Full
  <2>1. Lowest \in Descriptor /\ Lowest \notin table /\ Lowest # None
    BY <1>1, <1>0, LowestFree DEF ClientSocket, Take, TypeOK
  <2>2. table' = table \cup {Lowest} /\ cFd' = Lowest /\ cFd = None
    BY <1>1, <1>a, <1>0 DEF ClientSocket, Take, PcInv
  <2>3. TypeOK' /\ PcInv' /\ FailuresAloneExhaust'
    BY <1>1, <1>a, <1>0, <2>1, <2>2 DEF ClientSocket, TypeOK, Fd, PcInv, FailuresAloneExhaust, server, discovery, miner
  <2>4. Apart' /\ Owned' = Owned \cup {Lowest}
    BY <1>1, <1>a, <1>0, <2>1, <2>2 DEF ClientSocket, Apart, Owned, server, discovery, miner
  <2>5. Account'
    <3>1. table' \ Owned' = table \ Owned /\ failures' = failures
      BY <1>1, <1>a, <2>1, <2>2, <2>4 DEF ClientSocket
    <3>2. QED
      BY <1>0, <3>1, SameAccount
  <2>6. QED
    BY <2>3, <2>4, <2>5 DEF Inv
<1>2. CASE Full
  <2>1. TypeOK' /\ PcInv' /\ FailuresAloneExhaust'
    BY <1>0, <1>2, <1>a
       DEF ClientSocket, Take, TypeOK, Fd, PcInv, FailuresAloneExhaust, server, discovery, miner
  <2>2. Apart' /\ table' \ Owned' = table \ Owned /\ failures' = failures
    BY <1>0, <1>2 DEF ClientSocket, Take, Apart, Owned, server, discovery, miner
  <2>3. QED
    BY <1>0, <2>1, <2>2, SameAccount DEF Inv
<1>3. QED
  BY <1>1, <1>2


\* The broadcast thread closes its socket.
LEMMA ClientCloseInv == Inv /\ ClientClose => Inv'
<1> SUFFICES ASSUME Inv, ClientClose PROVE Inv'
  OBVIOUS
<1>0. TypeOK /\ PcInv /\ Apart /\ Account /\ FailuresAloneExhaust
  BY DEF Inv
<1>1. TypeOK' /\ PcInv' /\ FailuresAloneExhaust'
  BY <1>0 DEF ClientClose, Close, TypeOK, Fd, PcInv, FailuresAloneExhaust, server, discovery, miner
<1>2. Apart' /\ Owned' = Owned \ {cFd}
  BY <1>0 DEF ClientClose, Close, Apart, Owned, server, discovery, miner
<1>3. Account'
  <2>1. cFd \in Owned \/ cFd \notin table
    BY <1>0 DEF Owned, TypeOK, Descriptor, None
  <2>2. table' = table \ {cFd} /\ failures' = failures
    BY DEF ClientClose, Close
  <2>3. table' \ Owned' = table \ Owned
    BY <1>2, <2>1, <2>2
  <2>4. QED
    BY <1>0, <2>2, <2>3, SameAccount
<1>4. QED
  BY <1>1, <1>2, <1>3 DEF Inv


\* An exchange of the broadcast thread fails.
LEMMA ClientFailInv == Inv /\ ClientFail => Inv'
<1> SUFFICES ASSUME Inv, ClientFail PROVE Inv'
  OBVIOUS
<1>0. TypeOK /\ PcInv /\ Apart /\ Account /\ FailuresAloneExhaust
  BY DEF Inv
<1>1. TypeOK' /\ PcInv' /\ FailuresAloneExhaust'
  <2>1. failures' = failures + 1 /\ failures \in Nat
    BY <1>0 DEF ClientFail, TypeOK
  <2>2. FailuresAloneExhaust'
    BY <1>0, <2>1, ConstantsAssumption DEF ClientFail, FailuresAloneExhaust, Needed, server, discovery, miner
  <2>3. QED
    BY <1>0, <2>1, <2>2 DEF ClientFail, TypeOK, Fd, PcInv, server, discovery, miner
<1>2. Apart'
  BY <1>0 DEF ClientFail, Apart, Owned, server, discovery, miner
<1>3. Account'
  <2>1. /\ table \ Owned' \subseteq (table \ Owned) \cup {cFd}
        /\ UNCHANGED table /\ failures' = failures + 1
    BY DEF ClientFail, Owned, server, discovery, miner
  <2>2. QED
    BY <1>0, <2>1, LeakAccount
<1>4. QED
  BY <1>1, <1>2, <1>3 DEF Inv


\* The broadcast thread ends.
LEMMA ClientFinishInv == Inv /\ ClientFinish => Inv'
<1> SUFFICES ASSUME Inv, ClientFinish PROVE Inv'
  OBVIOUS
<1>0. TypeOK /\ PcInv /\ Apart /\ Account /\ FailuresAloneExhaust
  BY DEF Inv
<1>1. TypeOK' /\ PcInv' /\ FailuresAloneExhaust'
  BY <1>0, ConstantsAssumption DEF ClientFinish, TypeOK, Fd, PcInv, FailuresAloneExhaust, server, discovery, miner
<1>2. Apart' /\ table' \ Owned' = table \ Owned /\ failures' = failures
  BY <1>0 DEF ClientFinish, Apart, Owned, server, discovery, miner
<1>3. QED
  BY <1>0, <1>1, <1>2, SameAccount DEF Inv


\* The discovery thread opens a socket.
LEMMA DiscoverySocketInv == Inv /\ DiscoverySocket => Inv'
<1> SUFFICES ASSUME Inv, DiscoverySocket PROVE Inv'
  OBVIOUS
<1>0. TypeOK /\ PcInv /\ Apart /\ Account /\ FailuresAloneExhaust
  BY DEF Inv
<1>1. Lowest \in Descriptor /\ Lowest \notin table /\ Lowest # None
  BY <1>0, LowestFree DEF DiscoverySocket, Take, TypeOK
<1>2. table' = table \cup {Lowest} /\ dFd' = Lowest /\ dFd = None
  BY <1>0 DEF DiscoverySocket, Take, PcInv
<1>3. TypeOK' /\ PcInv' /\ FailuresAloneExhaust'
  BY <1>0, <1>1, <1>2 DEF DiscoverySocket, TypeOK, Fd, PcInv, FailuresAloneExhaust, server, client, miner
<1>4. Apart' /\ Owned' = Owned \cup {Lowest}
  BY <1>0, <1>1, <1>2 DEF DiscoverySocket, Apart, Owned, server, client, miner
<1>5. Account'
  <2>1. table' \ Owned' = table \ Owned /\ failures' = failures
    BY <1>1, <1>2, <1>4 DEF DiscoverySocket
  <2>2. QED
    BY <1>0, <2>1, SameAccount
<1>6. QED
  BY <1>3, <1>4, <1>5 DEF Inv


\* The discovery thread closes its socket.
LEMMA DiscoveryCloseInv == Inv /\ DiscoveryClose => Inv'
<1> SUFFICES ASSUME Inv, DiscoveryClose PROVE Inv'
  OBVIOUS
<1>0. TypeOK /\ PcInv /\ Apart /\ Account /\ FailuresAloneExhaust
  BY DEF Inv
<1>1. TypeOK' /\ PcInv' /\ FailuresAloneExhaust'
  BY <1>0 DEF DiscoveryClose, Close, TypeOK, Fd, PcInv, FailuresAloneExhaust, server, client, miner
<1>2. Apart' /\ Owned' = Owned \ {dFd}
  BY <1>0 DEF DiscoveryClose, Close, Apart, Owned, server, client, miner
<1>3. Account'
  <2>1. dFd \in Owned \/ dFd \notin table
    BY <1>0 DEF Owned, TypeOK, Descriptor, None
  <2>2. table' = table \ {dFd} /\ failures' = failures
    BY DEF DiscoveryClose, Close
  <2>3. table' \ Owned' = table \ Owned
    BY <1>2, <2>1, <2>2
  <2>4. QED
    BY <1>0, <2>2, <2>3, SameAccount
<1>4. QED
  BY <1>1, <1>2, <1>3 DEF Inv


\* An exchange of the discovery thread fails.
LEMMA DiscoveryFailInv == Inv /\ DiscoveryFail => Inv'
<1> SUFFICES ASSUME Inv, DiscoveryFail PROVE Inv'
  OBVIOUS
<1>0. TypeOK /\ PcInv /\ Apart /\ Account /\ FailuresAloneExhaust
  BY DEF Inv
<1>1. TypeOK' /\ PcInv' /\ FailuresAloneExhaust'
  <2>1. failures' = failures + 1 /\ failures \in Nat
    BY <1>0 DEF DiscoveryFail, TypeOK
  <2>2. FailuresAloneExhaust'
    BY <1>0, <2>1, ConstantsAssumption DEF DiscoveryFail, FailuresAloneExhaust, Needed, server, client, miner
  <2>3. QED
    BY <1>0, <2>1, <2>2 DEF DiscoveryFail, TypeOK, Fd, PcInv, server, client, miner
<1>2. Apart'
  BY <1>0 DEF DiscoveryFail, Apart, Owned, server, client, miner
<1>3. Account'
  <2>1. /\ table \ Owned' \subseteq (table \ Owned) \cup {dFd}
        /\ UNCHANGED table /\ failures' = failures + 1
    BY DEF DiscoveryFail, Owned, server, client, miner
  <2>2. QED
    BY <1>0, <2>1, LeakAccount
<1>4. QED
  BY <1>1, <1>2, <1>3 DEF Inv


\* The miner opens the outfile, or finds no room.
LEMMA SaveOpenInv == Inv /\ SaveOpen => Inv'
<1> SUFFICES ASSUME Inv, SaveOpen PROVE Inv'
  OBVIOUS
<1>0. TypeOK /\ PcInv /\ Apart /\ Account /\ FailuresAloneExhaust
  BY DEF Inv
<1>1. CASE ~Full
  <2>1. Lowest \in Descriptor /\ Lowest \notin table /\ Lowest # None
    BY <1>1, <1>0, LowestFree DEF SaveOpen, Take, TypeOK
  <2>2. table' = table \cup {Lowest} /\ fileFd' = Lowest /\ fileFd = None
    BY <1>1, <1>0 DEF SaveOpen, Take, PcInv
  <2>3. TypeOK' /\ PcInv' /\ FailuresAloneExhaust'
    BY <1>1, <1>0, <2>1, <2>2 DEF SaveOpen, TypeOK, Fd, PcInv, FailuresAloneExhaust, server, client, discovery
  <2>4. Apart' /\ Owned' = Owned \cup {Lowest}
    BY <1>1, <1>0, <2>1, <2>2 DEF SaveOpen, Apart, Owned, server, client, discovery
  <2>5. Account'
    <3>1. table' \ Owned' = table \ Owned /\ failures' = failures
      BY <1>1, <2>1, <2>2, <2>4 DEF SaveOpen
    <3>2. QED
      BY <1>0, <3>1, SameAccount
  <2>6. QED
    BY <2>3, <2>4, <2>5 DEF Inv
<1>2. CASE Full
  <2>1. UNCHANGED <<table, listenFd, connFd, cFd, dFd, fileFd, failures>> /\ fileFd = None
    BY <1>0, <1>2 DEF SaveOpen, Take, PcInv, server, client, discovery
  <2>2. failures + Needed > Limit
    <3>1. Owned \subseteq {listenFd, connFd, cFd, dFd}
      BY <2>1 DEF Owned
    <3>2. QED
      BY <1>0, <1>2, <3>1, FullIsPaid
  <2>3. TypeOK' /\ PcInv'
    BY <1>0, <1>2 DEF SaveOpen, Take, TypeOK, Fd, PcInv, server, client, discovery
  <2>4. FailuresAloneExhaust'
    BY <2>1, <2>2 DEF FailuresAloneExhaust
  <2>5. Apart' /\ table' \ Owned' = table \ Owned
    BY <1>0, <2>1 DEF Apart, Owned
  <2>6. QED
    BY <1>0, <2>1, <2>3, <2>4, <2>5, SameAccount DEF Inv
<1>3. QED
  BY <1>1, <1>2


\* The miner closes the outfile.
LEMMA SaveCloseInv == Inv /\ SaveClose => Inv'
<1> SUFFICES ASSUME Inv, SaveClose PROVE Inv'
  OBVIOUS
<1>0. TypeOK /\ PcInv /\ Apart /\ Account /\ FailuresAloneExhaust
  BY DEF Inv
<1>1. TypeOK' /\ PcInv' /\ FailuresAloneExhaust'
  BY <1>0 DEF SaveClose, Close, TypeOK, Fd, PcInv, FailuresAloneExhaust, server, client, discovery
<1>2. Apart' /\ Owned' = Owned \ {fileFd}
  BY <1>0 DEF SaveClose, Close, Apart, Owned, server, client, discovery
<1>3. Account'
  <2>1. fileFd \in Owned \/ fileFd \notin table
    BY <1>0 DEF Owned, TypeOK, Descriptor, None
  <2>2. table' = table \ {fileFd} /\ failures' = failures
    BY DEF SaveClose, Close
  <2>3. table' \ Owned' = table \ Owned
    BY <1>2, <2>1, <2>2
  <2>4. QED
    BY <1>0, <2>2, <2>3, SameAccount
<1>4. QED
  BY <1>1, <1>2, <1>3 DEF Inv


\* The miner starts a broadcast.
LEMMA MinerBroadcastInv == Inv /\ MinerBroadcast => Inv'
<1> SUFFICES ASSUME Inv, MinerBroadcast PROVE Inv'
  OBVIOUS
<1>0. TypeOK /\ PcInv /\ Apart /\ Account /\ FailuresAloneExhaust
  BY DEF Inv
<1>1. TypeOK' /\ PcInv' /\ FailuresAloneExhaust'
  BY <1>0, ConstantsAssumption DEF MinerBroadcast, TypeOK, Fd, PcInv, FailuresAloneExhaust, server, discovery
<1>2. Apart' /\ table' \ Owned' = table \ Owned /\ failures' = failures
  BY <1>0 DEF MinerBroadcast, Apart, Owned, server, discovery
<1>3. QED
  BY <1>0, <1>1, <1>2, SameAccount DEF Inv


\* Every step of every thread.
LEMMA NextInv == Inv /\ [Next]_vars => Inv'
<1>1. Inv /\ UNCHANGED vars => Inv'
  BY DEF vars, server, client, discovery, miner, Inv, TypeOK, PcInv, Apart, Owned,
         Account, FailuresAloneExhaust
<1>2. QED
  BY <1>1, ServerListenInv, ServerAcceptInv, ServerCloseInv, ClientSocketInv,
     ClientCloseInv, ClientFailInv, ClientFinishInv, DiscoverySocketInv,
     DiscoveryCloseInv, DiscoveryFailInv, SaveOpenInv, SaveCloseInv,
     MinerBroadcastInv
  DEF Next, Server, Client, Discovery, Miner

\* The account is right in every reachable state.
LEMMA InvHolds == Spec => []Inv
BY InitInv, NextInv, PTL DEF Spec

-----------------------------------------------------------------------------
\* Every reachable state of the table and its four users is typed: no thread
\* works with a descriptor that socket, accept or fopen did not return.
THEOREM DescriptorsTypeCorrect == Spec => []TypeOK
<1>1. Inv => TypeOK
  BY DEF Inv
<1>2. QED
  BY <1>1, InvHolds, PTL

\* However the four threads interleave, the descriptors they hold are open and
\* all different, so no close reaches another thread's connection or file.
THEOREM DescriptorsApart == Spec => []NoSharedDescriptor
<1>1. Apart => NoSharedDescriptor
  <2> SUFFICES ASSUME Apart, NEW i \in 1..5, Held[i] # None
               PROVE  /\ Held[i] \in table
                      /\ \A j \in (1..5) \ {i} : Held[j] # Held[i]
    BY DEF NoSharedDescriptor, Held
  <2>1. i \in {1, 2, 3, 4, 5}
    OBVIOUS
  <2>2. Held[i] \in table
    BY <2>1 DEF Apart, Owned, Held
  <2>3. ASSUME NEW j \in (1..5) \ {i} PROVE Held[j] # Held[i]
    <3>1. j \in {1, 2, 3, 4, 5} /\ j # i
      OBVIOUS
    <3>2. QED
      BY <2>1, <3>1 DEF Apart, Held
  <2>4. QED
    BY <2>2, <2>3
<1>2. Inv => Apart
  BY DEF Inv
<1>3. QED
  BY <1>1, <1>2, InvHolds, PTL

\* The server's thread ends for want of a descriptor, and a chain is not saved,
\* only after so many failed exchanges that what they leaked leaves no room for
\* the five descriptors the threads use.
THEOREM FailuresPayForExhaustion == Spec => []FailuresAloneExhaust
<1>1. Inv => FailuresAloneExhaust
  BY DEF Inv
<1>2. QED
  BY <1>1, InvHolds, PTL
=============================================================================
