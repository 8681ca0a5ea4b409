--------------------------- MODULE MinerNodeProofs ---------------------------
(***************************************************************************)
(* Proofs of the safety of MinerNode for every value of its constants: the  *)
(* invariants of the runs of MCMinerNode and the refinement of              *)
(* PublishedChain.                                                          *)
(*                                                                         *)
(* The argument.  LockInv says who is inside a critical section.  PtrInv    *)
(* orders the pointers: minerPtr - 1 <= mined <= version = syncPtr - 1      *)
(* whenever the miner is not between its pointer read and its version       *)
(* store, so a miner that sees mined # version holds a strictly older       *)
(* pointer and frees a chain nobody refers to.  BlockInv ties the block     *)
(* under construction to the end of the miner's chain.  LenInv is the heart *)
(* of the refinement: a length read under the mutex can become stale by one *)
(* unlocked append, and by no second one, because the next proof-of-work    *)
(* search begins with the mutex (blockchain.c:240).                         *)
(***************************************************************************)
EXTENDS MinerNode, TLAPS

USE DEF shared, minerVars, serverVars, clientVars

-----------------------------------------------------------------------------
(* Types.                                                                  *)

\* The fields of a chain object (blockchain_t) have their types.
LEMMA ChainTyped ==
    ASSUME NEW c \in Chain
    PROVE  c.len \in Nat /\ c.zeros \in Nat /\ c.ok \in BOOLEAN
BY DEF Chain

\* sync->blockchain points to a chain object.
LEMMA PublishedTyped ==
    ASSUME TypeOK
    PROVE  Published \in Chain /\ Published.len \in Nat /\ Published.zeros \in Nat
BY ChainTyped DEF TypeOK, Published

\* The genesis chain and the placeholders of cleared locals are typed.
LEMMA DefaultsTyped ==
    /\ Genesis \in Chain /\ NoChain \in Chain
    /\ NoBlock \in Block
    /\ NoWire \in Wire
BY ConstantsAssumption DEF Genesis, NoChain, NoBlock, NoWire, Chain, Block, Wire

\* Whatever a peer sends deserializes to a chain object.
LEMMA PeerChainTyped == PeerChain \subseteq Chain
<1> SUFFICES ASSUME NEW c \in PeerChain PROVE c \in Chain
  OBVIOUS
<1>1. PeerZeros \cup {OurZeros} \subseteq Nat /\ PeerLens \subseteq Nat
  BY ConstantsAssumption
<1>2. QED
  BY <1>1 DEF PeerChain, Chain

\* Creating a block and setting its difficulty keeps its type.
LEMMA BlockTyped ==
    ASSUME NEW p \in Nat, NEW n \in Nat, NEW z \in Nat, NEW b \in Block
    PROVE  /\ [on |-> p, pos |-> n, zeros |-> z] \in Block
           /\ [b EXCEPT !.zeros = z] \in Block
BY DEF Block

\* Writing the count and then the body of a serialized chain keeps its type.
LEMMA WireTyped ==
    ASSUME NEW n \in Nat, NEW w \in Wire
    PROVE  /\ [count |-> n, body |-> 0] \in Wire
           /\ [w EXCEPT !.body = n] \in Wire
BY DEF Wire
\* main starts the threads with typed state.
LEMMA InitTypeOK == Init => TypeOK
BY DefaultsTyped
   DEF Init, TypeOK, ServerCritical, ClientCritical

\* Every step of every thread keeps the state typed.
LEMMA NextTypeOK == TypeOK /\ [Next]_vars => TypeOK'
<1> SUFFICES ASSUME TypeOK, [Next]_vars PROVE TypeOK'
  OBVIOUS
<1> USE DEF TypeOK
<1>1. CASE MinerStart
  BY <1>1 DEF MinerStart
<1>2. CASE MinerCheck
  BY <1>2 DEF MinerCheck
<1>3. CASE MinerReread
  BY <1>3 DEF MinerReread
<1>4. CASE MinerDestroy
  BY <1>4 DEF MinerDestroy
<1>5. CASE MinerStore
  BY <1>5 DEF MinerStore
<1>6. CASE MinerPrepare
  <2>1. minerPtr \in Nat /\ heap[minerPtr].len \in Nat /\ block \in Block
    BY ChainTyped
  <2>2. [on |-> minerPtr, pos |-> heap[minerPtr].len, zeros |-> 0] \in Block
    BY <2>1, BlockTyped
  <2>3. QED
    BY <1>6, <2>2 DEF MinerPrepare
<1>7. CASE MineLock
  BY <1>7, PublishedTyped, BlockTyped DEF MineLock
<1>8. CASE MineStopped
  BY <1>8, DefaultsTyped DEF MineStopped, MineAttempt
<1>9. CASE MineSwitched
  BY <1>9, DefaultsTyped DEF MineSwitched, MineAttempt
<1>10. CASE MineFound
  BY <1>10, DefaultsTyped DEF MineFound, MineAttempt
<1>11. CASE MineExhausted
  BY <1>11, DefaultsTyped DEF MineExhausted, MineAttempt
<1>12. CASE MinerAppend
  <2> DEFINE c == heap[minerPtr]
             d == [len   |-> c.len + 1,
                   zeros |-> c.zeros,
                   ok    |-> c.ok /\ block.on = minerPtr /\ block.pos = c.len
                                  /\ block.zeros >= c.zeros]
  <2>1. d \in Chain
    <3>1. c \in Chain
      OBVIOUS
    <3>2. QED
      BY <3>1, ChainTyped, SMTT(30) DEF Chain
  <2>2. heap' = [heap EXCEPT ![minerPtr] = d]
    BY <1>12 DEF MinerAppend
  <2> HIDE DEF d
  <2>3. heap' \in Seq(Chain) /\ DOMAIN heap' = DOMAIN heap
    BY <2>1, <2>2
  <2>4. QED
    BY <1>12, <2>3, DefaultsTyped DEF MinerAppend
<1>13. CASE MinerJoin
  BY <1>13 DEF MinerJoin, JoinBroadcast
<1>14. CASE MinerSpawn
  BY <1>14 DEF MinerSpawn
<1>15. CASE MinerExitJoin
  BY <1>15 DEF MinerExitJoin, JoinBroadcast
<1>16. CASE MinerExit
  BY <1>16 DEF MinerExit
<1>17. CASE ServerCheck
  BY <1>17, ZenonT(60) DEF ServerCheck
<1>18. CASE ServerIdle
  BY <1>18 DEF ServerIdle
<1>19. CASE ServerReceive
  BY <1>19, PeerChainTyped DEF ServerReceive
<1>20. CASE ServerHang
  BY <1>20 DEF ServerHang
<1>21. CASE ServerLock
  BY <1>21, PublishedTyped DEF ServerLock, Lock, ServerCritical
<1>22. CASE ServerCompare
  <2>1. CASE Acceptable(sReq, sLen)
    BY <1>22, <2>1 DEF ServerCompare, Install, ServerCritical
  <2>2. CASE ~Acceptable(sReq, sLen)
    BY <1>22, <2>2 DEF ServerCompare, KeepPublished, ServerCritical
  <2>3. QED
    BY <2>1, <2>2
<1>23. CASE ServerCount
  BY <1>23, PublishedTyped, WireTyped, ZenonT(60) DEF ServerCount, ServerCritical
<1>24. CASE ServerBody
  BY <1>24, PublishedTyped, WireTyped, ZenonT(60) DEF ServerBody, Unlock
<1>25. CASE ServerReply
  BY <1>25, DefaultsTyped DEF ServerReply
<1>26. CASE ClientCopy
  BY <1>26 DEF ClientCopy
<1>27. CASE ClientConnect
  BY <1>27 DEF ClientConnect
<1>28. CASE ClientFinish
  BY <1>28 DEF ClientFinish
<1>29. CASE ClientCount
  BY <1>29, PublishedTyped, WireTyped DEF ClientCount, Lock, ClientCritical
<1>30. CASE ClientBody
  BY <1>30, PublishedTyped, WireTyped DEF ClientBody, Unlock
<1>31. CASE ClientReceive
  BY <1>31, PeerChainTyped, DefaultsTyped DEF ClientReceive
<1>32. CASE ClientHang
  BY <1>32 DEF ClientHang
<1>33. CASE ClientLock
  BY <1>33, PublishedTyped DEF ClientLock, Lock, ClientCritical
<1>34. CASE ClientCompare
  BY <1>34, DefaultsTyped, SMTT(30) DEF ClientCompare, Install, KeepPublished, Unlock
<1>35. CASE RequestStop
  BY <1>35 DEF RequestStop
<1>36. CASE UNCHANGED vars
  BY <1>36 DEF vars
<1>37. CASE MineFails
  BY <1>37, DefaultsTyped DEF MineFails, MineAttempt
<1>38. CASE MinerAppendFails
  BY <1>38, DefaultsTyped DEF MinerAppendFails
<1>39. CASE ServerSerializeFails
  BY <1>39, DefaultsTyped DEF ServerSerializeFails, Unlock
<1>40. CASE ClientSerializeFails
  BY <1>40, DefaultsTyped DEF ClientSerializeFails, Unlock
<1>41. QED
  BY <1>1, <1>2, <1>3, <1>4, <1>5, <1>6, <1>7, <1>8, <1>9, <1>10, <1>11, <1>12, <1>13, <1>14, <1>15, <1>16, <1>17, <1>18, <1>19, <1>20, <1>21, <1>22, <1>23, <1>24, <1>25, <1>26, <1>27, <1>28, <1>29, <1>30, <1>31, <1>32, <1>33, <1>34, <1>35, <1>36, <1>37, <1>38, <1>39, <1>40
  DEF Next, Miner, MinerLocks, Server, Client, ClientLocks, Terminated

\* Who holds sync->mutex, when a broadcast thread exists, and who has exited.
LockInv ==
    /\ sPc \in ServerCritical <=> mutex = "server"
    /\ cPc \in ClientCritical <=> mutex = "client"
    /\ handle = "uninit" => cPc = "none"
    /\ mPc \in {"spawn", "exit", "done"} => handle = "uninit"
    /\ "miner" \in exitReady => mPc = "done"

\* How the miner's pointer trails the published one, and what is freed.
PtrInv ==
    /\ Len(heap) = version + 1 /\ syncPtr = version + 1
    /\ minerPtr <= syncPtr
    /\ mined <= version
    /\ mPc = "reread" => mined < version
    /\ mPc \notin {"destroy", "store"} => minerPtr <= mined + 1
    /\ mPc = "destroy" => 0 < oldPtr /\ oldPtr < minerPtr /\ freed \subseteq 1..(oldPtr - 1)
    /\ mPc # "destroy" => oldPtr = 0 /\ freed \subseteq 1..(minerPtr - 1)
    /\ mPc = "start" => /\ version = 0
                        /\ sPc \in {"check", "poll", "stopped", "spinning"}
                        /\ cPc = "none"

\* The block under construction extends the chain the miner holds.
BlockInv ==
    /\ mPc \in {"mineLock", "mine", "append"} =>
           block.on = minerPtr /\ block.pos = heap[minerPtr].len
    /\ mPc \in {"mine", "append"} => block.zeros = OurZeros

\* While a thread that read length n holds the mutex, the published chain is
\* n long, or n + 1 and then the miner cannot append to it again.
Window(n) ==
    /\ n <= Published.len /\ Published.len <= n + 1
    /\ mPc \in {"mine", "append"} /\ minerPtr = syncPtr => Published.len = n

LenInv ==
    /\ sPc = "compare" => Window(sLen)
    /\ cPc = "compare" => Window(cLen)

\* What the two serializers and the server have established so far.
WireInv ==
    /\ sPc = "body" => sOut.count <= Published.len
    /\ cPc = "body" => cOut.count <= Published.len
    /\ sReq.ok /\ sReq.zeros = OurZeros =>
           /\ sPc = "count" => sReq.len <= Published.len
           /\ sPc = "body" => sReq.len <= sOut.count

\* No thread holds sync->mutex when the threads start.
LEMMA InitLockInv == Init => LockInv
BY DEF Init, LockInv, ServerCritical, ClientCritical

\* sync->mutex is held exactly inside the critical sections.
LEMMA NextLockInv == LockInv /\ [Next]_vars => LockInv'
<1> SUFFICES ASSUME LockInv, [Next]_vars PROVE LockInv'
  OBVIOUS
<1> USE DEF LockInv
<1>1. CASE MinerStart
  BY <1>1 DEF MinerStart
<1>2. CASE MinerCheck
  BY <1>2 DEF MinerCheck
<1>3. CASE MinerReread
  BY <1>3 DEF MinerReread
<1>4. CASE MinerDestroy
  BY <1>4 DEF MinerDestroy
<1>5. CASE MinerStore
  BY <1>5 DEF MinerStore
<1>6. CASE MinerPrepare
  BY <1>6 DEF MinerPrepare
<1>7. CASE MineLock
  BY <1>7 DEF MineLock
<1>8. CASE MineStopped
  BY <1>8 DEF MineStopped, MineAttempt
<1>9. CASE MineSwitched
  BY <1>9 DEF MineSwitched, MineAttempt
<1>10. CASE MineFound
  BY <1>10 DEF MineFound, MineAttempt
<1>11. CASE MineExhausted
  BY <1>11 DEF MineExhausted, MineAttempt
<1>12. CASE MinerAppend
  BY <1>12 DEF MinerAppend
<1>13. CASE MinerJoin
  BY <1>13 DEF MinerJoin, JoinBroadcast, ClientCritical
<1>14. CASE MinerSpawn
  BY <1>14 DEF MinerSpawn, JoinBroadcast, ClientCritical
<1>15. CASE MinerExitJoin
  BY <1>15 DEF MinerExitJoin, JoinBroadcast, ClientCritical
<1>16. CASE MinerExit
  BY <1>16 DEF MinerExit
<1>17. CASE ServerCheck
  BY <1>17 DEF ServerCheck, ServerCritical, ClientCritical
<1>18. CASE ServerIdle
  BY <1>18 DEF ServerIdle, ServerCritical, ClientCritical
<1>19. CASE ServerReceive
  BY <1>19 DEF ServerReceive, ServerCritical, ClientCritical
<1>20. CASE ServerHang
  BY <1>20 DEF ServerHang, ServerCritical, ClientCritical
<1>21. CASE ServerLock
  BY <1>21 DEF ServerLock, ServerCritical, ClientCritical, Lock
<1>22. CASE ServerCompare
  BY <1>22 DEF ServerCompare, ServerCritical, ClientCritical
<1>23. CASE ServerCount
  BY <1>23 DEF ServerCount, ServerCritical, ClientCritical
<1>24. CASE ServerBody
  BY <1>24 DEF ServerBody, ServerCritical, ClientCritical, Unlock
<1>25. CASE ServerReply
  BY <1>25 DEF ServerReply, ServerCritical, ClientCritical
<1>26. CASE ClientCopy
  BY <1>26 DEF ClientCopy, ServerCritical, ClientCritical
<1>27. CASE ClientConnect
  BY <1>27 DEF ClientConnect, ServerCritical, ClientCritical
<1>28. CASE ClientFinish
  BY <1>28 DEF ClientFinish, ServerCritical, ClientCritical
<1>29. CASE ClientCount
  BY <1>29 DEF ClientCount, ServerCritical, ClientCritical, Lock
<1>30. CASE ClientBody
  BY <1>30 DEF ClientBody, ServerCritical, ClientCritical, Unlock
<1>31. CASE ClientReceive
  BY <1>31 DEF ClientReceive, ServerCritical, ClientCritical
<1>32. CASE ClientHang
  BY <1>32 DEF ClientHang, ServerCritical, ClientCritical
<1>33. CASE ClientLock
  BY <1>33 DEF ClientLock, ServerCritical, ClientCritical, Lock
<1>34. CASE ClientCompare
  BY <1>34 DEF ClientCompare, ServerCritical, ClientCritical, Unlock
<1>35. CASE RequestStop
  BY <1>35 DEF RequestStop
<1>36. CASE UNCHANGED vars
  BY <1>36 DEF vars
<1>37. CASE MineFails
  BY <1>37 DEF MineFails, MineAttempt
<1>38. CASE MinerAppendFails
  BY <1>38 DEF MinerAppendFails
<1>39. CASE ServerSerializeFails
  BY <1>39 DEF ServerSerializeFails, Unlock, ServerCritical, ClientCritical
<1>40. CASE ClientSerializeFails
  BY <1>40 DEF ClientSerializeFails, Unlock, ServerCritical, ClientCritical
<1>41. QED
  BY <1>1, <1>2, <1>3, <1>4, <1>5, <1>6, <1>7, <1>8, <1>9, <1>10, <1>11, <1>12, <1>13, <1>14, <1>15, <1>16, <1>17, <1>18, <1>19, <1>20, <1>21, <1>22, <1>23, <1>24, <1>25, <1>26, <1>27, <1>28, <1>29, <1>30, <1>31, <1>32, <1>33, <1>34, <1>35, <1>36, <1>37, <1>38, <1>39, <1>40
  DEF Next, Miner, MinerLocks, Server, Client, ClientLocks, Terminated

\* The miner starts on the published chain.
LEMMA InitPtrInv == Init => PtrInv
BY DEF Init, PtrInv

\* Unless a peer is served before mine_blocks starts, the miner's pointer never
\* overtakes the version it recorded, and only pointers below it are freed.
LEMMA NextPtrInv ==
    ASSUME "early" \notin Faults, TypeOK, LockInv, PtrInv, [Next]_vars
    PROVE  PtrInv'
<1>a. /\ heap \in Seq(Chain) /\ version \in Nat /\ mined \in Nat /\ oldPtr \in Nat
      /\ minerPtr \in 1..Len(heap) /\ syncPtr \in 1..Len(heap)
      /\ sReq \in Chain /\ cRep \in Chain
  BY DEF TypeOK
<1> USE <1>a DEF PtrInv
<1>1. CASE MinerStart
  BY <1>1 DEF MinerStart
<1>2. CASE MinerCheck
  BY <1>2 DEF MinerCheck
<1>3. CASE MinerReread
  BY <1>3 DEF MinerReread
<1>4. CASE MinerDestroy
  BY <1>4 DEF MinerDestroy
<1>5. CASE MinerStore
  BY <1>5 DEF MinerStore
<1>6. CASE MinerPrepare
  BY <1>6 DEF MinerPrepare
<1>7. CASE MineLock
  BY <1>7 DEF MineLock
<1>8. CASE MineStopped
  BY <1>8 DEF MineStopped, MineAttempt
<1>9. CASE MineSwitched
  BY <1>9 DEF MineSwitched, MineAttempt
<1>10. CASE MineFound
  BY <1>10 DEF MineFound, MineAttempt
<1>11. CASE MineExhausted
  BY <1>11 DEF MineExhausted, MineAttempt
<1>12. CASE MinerAppend
  BY <1>12 DEF MinerAppend
<1>13. CASE MinerJoin
  BY <1>13 DEF MinerJoin, JoinBroadcast
<1>14. CASE MinerSpawn
  BY <1>14 DEF MinerSpawn
<1>15. CASE MinerExitJoin
  BY <1>15 DEF MinerExitJoin, JoinBroadcast
<1>16. CASE MinerExit
  BY <1>16 DEF MinerExit
<1>17. CASE ServerCheck
  BY <1>17 DEF ServerCheck
<1>18. CASE ServerIdle
  BY <1>18 DEF ServerIdle
<1>19. CASE ServerReceive
  BY <1>19 DEF ServerReceive
<1>20. CASE ServerHang
  BY <1>20 DEF ServerHang
<1>21. CASE ServerLock
  BY <1>21 DEF ServerLock
<1>22. CASE ServerCompare
  BY <1>22 DEF ServerCompare, Install, KeepPublished
<1>23. CASE ServerCount
  BY <1>23 DEF ServerCount
<1>24. CASE ServerBody
  BY <1>24 DEF ServerBody
<1>25. CASE ServerReply
  BY <1>25 DEF ServerReply
<1>26. CASE ClientCopy
  BY <1>26 DEF ClientCopy
<1>27. CASE ClientConnect
  BY <1>27 DEF ClientConnect
<1>28. CASE ClientFinish
  BY <1>28 DEF ClientFinish
<1>29. CASE ClientCount
  BY <1>29 DEF ClientCount
<1>30. CASE ClientBody
  BY <1>30 DEF ClientBody
<1>31. CASE ClientReceive
  BY <1>31 DEF ClientReceive
<1>32. CASE ClientHang
  BY <1>32 DEF ClientHang
<1>33. CASE ClientLock
  BY <1>33 DEF ClientLock
<1>34. CASE ClientCompare
  BY <1>34 DEF ClientCompare, Install, KeepPublished
<1>35. CASE RequestStop
  BY <1>35 DEF RequestStop
<1>36. CASE UNCHANGED vars
  BY <1>36 DEF vars
<1>37. CASE MineFails
  BY <1>37 DEF MineFails, MineAttempt
<1>38. CASE MinerAppendFails
  BY <1>38 DEF MinerAppendFails
<1>39. CASE ServerSerializeFails
  BY <1>39 DEF ServerSerializeFails, Unlock
<1>40. CASE ClientSerializeFails
  BY <1>40 DEF ClientSerializeFails, Unlock
<1>41. QED
  BY <1>1, <1>2, <1>3, <1>4, <1>5, <1>6, <1>7, <1>8, <1>9, <1>10, <1>11, <1>12, <1>13, <1>14, <1>15, <1>16, <1>17, <1>18, <1>19, <1>20, <1>21, <1>22, <1>23, <1>24, <1>25, <1>26, <1>27, <1>28, <1>29, <1>30, <1>31, <1>32, <1>33, <1>34, <1>35, <1>36, <1>37, <1>38, <1>39, <1>40
  DEF Next, Miner, MinerLocks, Server, Client, ClientLocks, Terminated

ChainInv == ChainsStayValid /\ BlockInv

\* What an append does to the chain objects, seen from any pointer.
\* blockchain_add_block makes the miner's chain one longer, keeps it valid, and
\* leaves the other chain objects alone.
LEMMA AppendHeap ==
    ASSUME TypeOK, BlockInv, ChainsStayValid, MinerAppend
    PROVE  /\ Len(heap') = Len(heap)
           /\ heap'[minerPtr].len = heap[minerPtr].len + 1
           /\ heap'[minerPtr].ok /\ heap'[minerPtr].zeros = OurZeros
           /\ \A p \in 1..Len(heap) : p # minerPtr => heap'[p] = heap[p]
<1>1. /\ heap \in Seq(Chain) /\ minerPtr \in 1..Len(heap) /\ DOMAIN heap = 1..Len(heap)
  BY DEF TypeOK
<1>2. /\ heap[minerPtr].ok /\ heap[minerPtr].zeros = OurZeros
  BY <1>1 DEF ChainsStayValid
<1>3. /\ block.on = minerPtr /\ block.pos = heap[minerPtr].len
      /\ block.zeros = OurZeros /\ OurZeros >= OurZeros
  BY ConstantsAssumption DEF BlockInv, MinerAppend
<1> DEFINE d == [len   |-> heap[minerPtr].len + 1,
                 zeros |-> heap[minerPtr].zeros,
                 ok    |-> /\ heap[minerPtr].ok /\ block.on = minerPtr
                           /\ block.pos = heap[minerPtr].len
                           /\ block.zeros >= heap[minerPtr].zeros]
<1>4. heap' = [heap EXCEPT ![minerPtr] = d]
  BY DEF MinerAppend
<1>5. d.len = heap[minerPtr].len + 1 /\ d.ok /\ d.zeros = OurZeros
  BY <1>2, <1>3
<1> HIDE DEF d
<1>6. QED
  BY <1>1, <1>4, <1>5

\* The genesis chain is valid.
LEMMA InitChainInv == Init => ChainInv
BY DEF Init, ChainInv, ChainsStayValid, BlockInv, Genesis

\* Appends and switches keep every chain object valid.
LEMMA NextChainInv ==
    ASSUME TypeOK, ChainInv, [Next]_vars
    PROVE  ChainInv'
<1>a. /\ heap \in Seq(Chain) /\ DOMAIN heap = 1..Len(heap)
      /\ minerPtr \in 1..Len(heap) /\ syncPtr \in 1..Len(heap)
      /\ sReq \in Chain /\ cRep \in Chain
  BY DEF TypeOK
<1> USE <1>a DEF ChainInv, ChainsStayValid, BlockInv
<1>1. CASE MinerStart
  BY <1>1 DEF MinerStart
<1>2. CASE MinerCheck
  BY <1>2 DEF MinerCheck
<1>3. CASE MinerReread
  BY <1>3 DEF MinerReread
<1>4. CASE MinerDestroy
  BY <1>4 DEF MinerDestroy
<1>5. CASE MinerStore
  BY <1>5 DEF MinerStore
<1>6. CASE MinerPrepare
  BY <1>6 DEF MinerPrepare
<1>7. CASE MineLock
  <2>1. block \in Block /\ block' = [block EXCEPT !.zeros = Published.zeros]
    BY <1>7 DEF MineLock, TypeOK
  <2>2. block'.on = block.on /\ block'.pos = block.pos /\ block'.zeros = OurZeros
    BY <2>1 DEF Block, Published
  <2>3. QED
    BY <1>7, <2>2 DEF MineLock
<1>8. CASE MineStopped
  BY <1>8 DEF MineStopped, MineAttempt, NoBlock
<1>9. CASE MineSwitched
  BY <1>9 DEF MineSwitched, MineAttempt, NoBlock
<1>10. CASE MineFound
  BY <1>10 DEF MineFound, MineAttempt, NoBlock
<1>11. CASE MineExhausted
  BY <1>11 DEF MineExhausted, MineAttempt, NoBlock
<1>12. CASE MinerAppend
  BY <1>12, AppendHeap DEF MinerAppend
<1>13. CASE MinerJoin
  BY <1>13 DEF MinerJoin, JoinBroadcast
<1>14. CASE MinerSpawn
  BY <1>14 DEF MinerSpawn
<1>15. CASE MinerExitJoin
  BY <1>15 DEF MinerExitJoin, JoinBroadcast
<1>16. CASE MinerExit
  BY <1>16 DEF MinerExit
<1>17. CASE ServerCheck
  BY <1>17 DEF ServerCheck
<1>18. CASE ServerIdle
  BY <1>18 DEF ServerIdle
<1>19. CASE ServerReceive
  BY <1>19 DEF ServerReceive
<1>20. CASE ServerHang
  BY <1>20 DEF ServerHang
<1>21. CASE ServerLock
  BY <1>21 DEF ServerLock
<1>22. CASE ServerCompare
  <2>1. CASE Acceptable(sReq, sLen)
    BY <1>22, <2>1, SMTT(30) DEF ServerCompare, Acceptable, Install, Published
  <2>2. CASE ~Acceptable(sReq, sLen)
    BY <1>22, <2>2 DEF ServerCompare, KeepPublished
  <2>3. QED
    BY <2>1, <2>2
<1>23. CASE ServerCount
  BY <1>23 DEF ServerCount
<1>24. CASE ServerBody
  BY <1>24 DEF ServerBody
<1>25. CASE ServerReply
  BY <1>25 DEF ServerReply
<1>26. CASE ClientCopy
  BY <1>26 DEF ClientCopy
<1>27. CASE ClientConnect
  BY <1>27 DEF ClientConnect
<1>28. CASE ClientFinish
  BY <1>28 DEF ClientFinish
<1>29. CASE ClientCount
  BY <1>29 DEF ClientCount
<1>30. CASE ClientBody
  BY <1>30 DEF ClientBody
<1>31. CASE ClientReceive
  BY <1>31 DEF ClientReceive
<1>32. CASE ClientHang
  BY <1>32 DEF ClientHang
<1>33. CASE ClientLock
  BY <1>33 DEF ClientLock
<1>34. CASE ClientCompare
  <2>1. CASE Acceptable(cRep, cLen)
    BY <1>34, <2>1 DEF ClientCompare, Acceptable, Install, Published
  <2>2. CASE ~Acceptable(cRep, cLen)
    BY <1>34, <2>2 DEF ClientCompare, KeepPublished
  <2>3. QED
    BY <2>1, <2>2
<1>35. CASE RequestStop
  BY <1>35 DEF RequestStop
<1>36. CASE UNCHANGED vars
  BY <1>36 DEF vars
<1>37. CASE MineFails
  BY <1>37 DEF MineFails, MineAttempt, NoBlock
<1>38. CASE MinerAppendFails
  BY <1>38 DEF MinerAppendFails, NoBlock
<1>39. CASE ServerSerializeFails
  BY <1>39 DEF ServerSerializeFails, Unlock
<1>40. CASE ClientSerializeFails
  BY <1>40 DEF ClientSerializeFails, Unlock
<1>41. QED
  BY <1>1, <1>2, <1>3, <1>4, <1>5, <1>6, <1>7, <1>8, <1>9, <1>10, <1>11, <1>12, <1>13, <1>14, <1>15, <1>16, <1>17, <1>18, <1>19, <1>20, <1>21, <1>22, <1>23, <1>24, <1>25, <1>26, <1>27, <1>28, <1>29, <1>30, <1>31, <1>32, <1>33, <1>34, <1>35, <1>36, <1>37, <1>38, <1>39, <1>40
  DEF Next, Miner, MinerLocks, Server, Client, ClientLocks, Terminated

\* No thread is comparing lengths when the threads start.
LEMMA InitLenInv == Init => LenInv
BY DEF Init, LenInv

\* The unlocked append (mining_thread.c:184) happens at most once in a comparison.
LEMMA NextLenInv ==
    ASSUME TypeOK, LockInv, ChainInv, LenInv, [Next]_vars
    PROVE  LenInv'
<1>a. /\ heap \in Seq(Chain) /\ DOMAIN heap = 1..Len(heap)
      /\ minerPtr \in 1..Len(heap) /\ syncPtr \in 1..Len(heap)
      /\ sLen \in Nat /\ cLen \in Nat /\ Published.len \in Nat
  BY PublishedTyped DEF TypeOK
<1> USE <1>a DEF LenInv, Window, Published, LockInv, ServerCritical, ClientCritical
<1>1. CASE MinerStart
  BY <1>1 DEF MinerStart
<1>2. CASE MinerCheck
  BY <1>2 DEF MinerCheck
<1>3. CASE MinerReread
  BY <1>3 DEF MinerReread
<1>4. CASE MinerDestroy
  BY <1>4 DEF MinerDestroy
<1>5. CASE MinerStore
  BY <1>5 DEF MinerStore
<1>6. CASE MinerPrepare
  BY <1>6 DEF MinerPrepare
<1>7. CASE MineLock
  BY <1>7 DEF MineLock
<1>8. CASE MineStopped
  BY <1>8 DEF MineStopped, MineAttempt
<1>9. CASE MineSwitched
  BY <1>9 DEF MineSwitched, MineAttempt
<1>10. CASE MineFound
  BY <1>10 DEF MineFound, MineAttempt
<1>11. CASE MineExhausted
  BY <1>11 DEF MineExhausted, MineAttempt
<1>12. CASE MinerAppend
  <2>1. /\ heap'[minerPtr].len = heap[minerPtr].len + 1
        /\ \A p \in 1..Len(heap) : p # minerPtr => heap'[p] = heap[p]
    BY <1>12, AppendHeap DEF ChainInv
  <2>2. CASE minerPtr = syncPtr
    BY <1>12, <2>1, <2>2 DEF MinerAppend
  <2>3. CASE minerPtr # syncPtr
    BY <1>12, <2>1, <2>3 DEF MinerAppend
  <2>4. QED
    BY <2>2, <2>3
<1>13. CASE MinerJoin
  BY <1>13 DEF MinerJoin, JoinBroadcast
<1>14. CASE MinerSpawn
  BY <1>14 DEF MinerSpawn
<1>15. CASE MinerExitJoin
  BY <1>15 DEF MinerExitJoin, JoinBroadcast
<1>16. CASE MinerExit
  BY <1>16 DEF MinerExit
<1>17. CASE ServerCheck
  BY <1>17 DEF ServerCheck
<1>18. CASE ServerIdle
  BY <1>18 DEF ServerIdle
<1>19. CASE ServerReceive
  BY <1>19 DEF ServerReceive
<1>20. CASE ServerHang
  BY <1>20 DEF ServerHang
<1>21. CASE ServerLock
  BY <1>21 DEF ServerLock, Lock
<1>22. CASE ServerCompare
  BY <1>22 DEF ServerCompare, Install, KeepPublished
<1>23. CASE ServerCount
  BY <1>23 DEF ServerCount
<1>24. CASE ServerBody
  BY <1>24 DEF ServerBody, Unlock
<1>25. CASE ServerReply
  BY <1>25 DEF ServerReply
<1>26. CASE ClientCopy
  BY <1>26 DEF ClientCopy
<1>27. CASE ClientConnect
  BY <1>27 DEF ClientConnect
<1>28. CASE ClientFinish
  BY <1>28 DEF ClientFinish
<1>29. CASE ClientCount
  BY <1>29 DEF ClientCount, Lock
<1>30. CASE ClientBody
  BY <1>30 DEF ClientBody, Unlock
<1>31. CASE ClientReceive
  BY <1>31 DEF ClientReceive
<1>32. CASE ClientHang
  BY <1>32 DEF ClientHang
<1>33. CASE ClientLock
  BY <1>33 DEF ClientLock, Lock
<1>34. CASE ClientCompare
  BY <1>34 DEF ClientCompare, Install, KeepPublished, Unlock
<1>35. CASE RequestStop
  BY <1>35 DEF RequestStop
<1>36. CASE UNCHANGED vars
  BY <1>36 DEF vars
<1>37. CASE MineFails
  BY <1>37 DEF MineFails, MineAttempt
<1>38. CASE MinerAppendFails
  BY <1>38 DEF MinerAppendFails
<1>39. CASE ServerSerializeFails
  BY <1>39 DEF ServerSerializeFails, Unlock
<1>40. CASE ClientSerializeFails
  BY <1>40 DEF ClientSerializeFails, Unlock
<1>41. QED
  BY <1>1, <1>2, <1>3, <1>4, <1>5, <1>6, <1>7, <1>8, <1>9, <1>10, <1>11, <1>12, <1>13, <1>14, <1>15, <1>16, <1>17, <1>18, <1>19, <1>20, <1>21, <1>22, <1>23, <1>24, <1>25, <1>26, <1>27, <1>28, <1>29, <1>30, <1>31, <1>32, <1>33, <1>34, <1>35, <1>36, <1>37, <1>38, <1>39, <1>40
  DEF Next, Miner, MinerLocks, Server, Client, ClientLocks, Terminated

\* A chain of the same difficulty and validity that is one block longer.
LEMMA OneLonger ==
    ASSUME NEW c \in Chain
    PROVE  [c EXCEPT !.len = @ + 1] = [len |-> c.len + 1, zeros |-> c.zeros, ok |-> c.ok]
BY DEF Chain

\* Nothing is being serialized when the threads start.
LEMMA InitWireInv == Init => WireInv /\ WireComplete /\ ReplyIsLongest
BY DEF Init, WireInv, WireComplete, ReplyIsLongest

\* An append between counting and traversing the blocks, or between comparing
\* and counting, cannot spoil the message.
LEMMA NextWireInv ==
    ASSUME TypeOK, LockInv, ChainInv, LenInv, [Next]_vars,
           WireInv, WireComplete, ReplyIsLongest
    PROVE  WireInv' /\ WireComplete' /\ ReplyIsLongest'
<1>a. /\ heap \in Seq(Chain) /\ DOMAIN heap = 1..Len(heap)
      /\ minerPtr \in 1..Len(heap) /\ syncPtr \in 1..Len(heap)
      /\ sLen \in Nat /\ heap[syncPtr].len \in Nat
      /\ sReq.len \in Nat
  BY PublishedTyped, ChainTyped DEF TypeOK, Published
<1>b. /\ sOut \in Wire /\ cOut \in Wire
      /\ sOut.count \in Nat /\ sOut.body \in Nat /\ cOut.count \in Nat /\ cOut.body \in Nat
  BY DEF TypeOK, Wire
<1>c. heap[syncPtr].zeros = OurZeros
  BY <1>a DEF ChainInv, ChainsStayValid
<1> USE <1>a, <1>b, <1>c
    DEF WireInv, WireComplete, ReplyIsLongest, Published, LockInv,
        ServerCritical, ClientCritical
<1>1. CASE MinerStart
  BY <1>1 DEF MinerStart
<1>2. CASE MinerCheck
  BY <1>2 DEF MinerCheck
<1>3. CASE MinerReread
  BY <1>3 DEF MinerReread
<1>4. CASE MinerDestroy
  BY <1>4 DEF MinerDestroy
<1>5. CASE MinerStore
  BY <1>5 DEF MinerStore
<1>6. CASE MinerPrepare
  BY <1>6 DEF MinerPrepare
<1>7. CASE MineLock
  BY <1>7 DEF MineLock
<1>8. CASE MineStopped
  BY <1>8 DEF MineStopped, MineAttempt
<1>9. CASE MineSwitched
  BY <1>9 DEF MineSwitched, MineAttempt
<1>10. CASE MineFound
  BY <1>10 DEF MineFound, MineAttempt
<1>11. CASE MineExhausted
  BY <1>11 DEF MineExhausted, MineAttempt
<1>12. CASE MinerAppend
  <2>1. /\ heap'[minerPtr].len = heap[minerPtr].len + 1
        /\ \A p \in 1..Len(heap) : p # minerPtr => heap'[p] = heap[p]
    BY <1>12, AppendHeap DEF ChainInv
  <2>2. CASE minerPtr = syncPtr
    BY <1>12, <2>1, <2>2 DEF MinerAppend
  <2>3. CASE minerPtr # syncPtr
    BY <1>12, <2>1, <2>3 DEF MinerAppend
  <2>4. QED
    BY <2>2, <2>3
<1>13. CASE MinerJoin
  BY <1>13 DEF MinerJoin, JoinBroadcast
<1>14. CASE MinerSpawn
  BY <1>14 DEF MinerSpawn
<1>15. CASE MinerExitJoin
  BY <1>15 DEF MinerExitJoin, JoinBroadcast
<1>16. CASE MinerExit
  BY <1>16 DEF MinerExit
<1>17. CASE ServerCheck
  BY <1>17 DEF ServerCheck
<1>18. CASE ServerIdle
  BY <1>18 DEF ServerIdle
<1>19. CASE ServerReceive
  BY <1>19 DEF ServerReceive
<1>20. CASE ServerHang
  BY <1>20 DEF ServerHang
<1>21. CASE ServerLock
  BY <1>21 DEF ServerLock, Lock
<1>22. CASE ServerCompare
  <2>1. CASE Acceptable(sReq, sLen)
    BY <1>22, <2>1 DEF ServerCompare, Install, TypeOK
  <2>2. CASE ~Acceptable(sReq, sLen)
    BY <1>22, <2>2 DEF ServerCompare, Acceptable, KeepPublished, LenInv, Window
  <2>3. QED
    BY <2>1, <2>2
<1>23. CASE ServerCount
  BY <1>23 DEF ServerCount
<1>24. CASE ServerBody
  <2>1. sOut'.count = sOut.count /\ sOut'.body = heap[syncPtr].len
    BY <1>24 DEF ServerBody, Wire
  <2>2. QED
    BY <1>24, <2>1 DEF ServerBody, Unlock
<1>25. CASE ServerReply
  BY <1>25 DEF ServerReply
<1>26. CASE ClientCopy
  BY <1>26 DEF ClientCopy
<1>27. CASE ClientConnect
  BY <1>27 DEF ClientConnect
<1>28. CASE ClientFinish
  BY <1>28 DEF ClientFinish
<1>29. CASE ClientCount
  BY <1>29 DEF ClientCount, Lock
<1>30. CASE ClientBody
  <2>1. cOut'.count = cOut.count /\ cOut'.body = heap[syncPtr].len
    BY <1>30 DEF ClientBody, Wire
  <2>2. QED
    BY <1>30, <2>1 DEF ClientBody, Unlock
<1>31. CASE ClientReceive
  BY <1>31 DEF ClientReceive
<1>32. CASE ClientHang
  BY <1>32 DEF ClientHang
<1>33. CASE ClientLock
  BY <1>33 DEF ClientLock, Lock
<1>34. CASE ClientCompare
  BY <1>34 DEF ClientCompare, Install, KeepPublished, Unlock
<1>35. CASE RequestStop
  BY <1>35 DEF RequestStop
<1>36. CASE UNCHANGED vars
  BY <1>36 DEF vars
<1>37. CASE MineFails
  BY <1>37 DEF MineFails, MineAttempt
<1>38. CASE MinerAppendFails
  BY <1>38 DEF MinerAppendFails
<1>39. CASE ServerSerializeFails
  BY <1>39 DEF ServerSerializeFails, Unlock
<1>40. CASE ClientSerializeFails
  BY <1>40 DEF ClientSerializeFails, Unlock
<1>41. QED
  BY <1>1, <1>2, <1>3, <1>4, <1>5, <1>6, <1>7, <1>8, <1>9, <1>10, <1>11, <1>12, <1>13, <1>14, <1>15, <1>16, <1>17, <1>18, <1>19, <1>20, <1>21, <1>22, <1>23, <1>24, <1>25, <1>26, <1>27, <1>28, <1>29, <1>30, <1>31, <1>32, <1>33, <1>34, <1>35, <1>36, <1>37, <1>38, <1>39, <1>40
  DEF Next, Miner, MinerLocks, Server, Client, ClientLocks, Terminated

\* The inductive invariant without the assumption on start-up.
SafetyInv ==
    /\ TypeOK /\ LockInv /\ ChainInv /\ LenInv
    /\ WireInv /\ WireComplete /\ ReplyIsLongest

\* Every reachable state of the node is typed.
THEOREM TypeCorrect == Spec => []TypeOK
<1>1. QED
  BY InitTypeOK, NextTypeOK, PTL DEF Spec

\* The conjunction of the invariants above is inductive.
LEMMA SafetyInductive == Spec => []SafetyInv
<1>1. Init => SafetyInv
  BY InitTypeOK, InitLockInv, InitChainInv, InitLenInv, InitWireInv DEF SafetyInv
<1>2. SafetyInv /\ [Next]_vars => SafetyInv'
  BY NextTypeOK, NextLockInv, NextChainInv, NextLenInv, NextWireInv DEF SafetyInv
<1>3. QED
  BY <1>1, <1>2, PTL DEF Spec

\* No chain object of the node ever becomes invalid: the unlocked append of
\* mining_thread.c:184 and the switches of both consensus threads keep it so.
THEOREM ValidityHolds == Spec => []ChainsStayValid
<1>1. SafetyInv => ChainsStayValid
  BY DEF SafetyInv, ChainInv
<1>2. QED
  BY <1>1, SafetyInductive, PTL

\* A chain is never sent with a block count that exceeds the blocks behind it,
\* although blockchain_serialize races with the miner's append.
THEOREM WireHolds == Spec => []WireComplete
<1>1. SafetyInv => WireComplete
  BY DEF SafetyInv
<1>2. QED
  BY <1>1, SafetyInductive, PTL

\* The consensus server answers an acceptable chain with one at least as long.
THEOREM ReplyHolds == Spec => []ReplyIsLongest
<1>1. SafetyInv => ReplyIsLongest
  BY DEF SafetyInv
<1>2. QED
  BY <1>1, SafetyInductive, PTL

\* When mine_blocks raises exit_ready its last broadcast thread has been joined,
\* in every interleaving with peers that hang up and threads that cannot start.
THEOREM ExitHolds == Spec => []ExitMeansQuiet
<1>1. LockInv => ExitMeansQuiet
  BY DEF LockInv, ExitMeansQuiet
<1>2. QED
  BY <1>1, InitLockInv, NextLockInv, PTL DEF Spec

\* When no peer is served before mine_blocks first reads the pointer, the chain
\* that mining_thread.c:78 destroys is never the published one nor the miner's.
THEOREM MemorySafety ==
    ASSUME "early" \notin Faults
    PROVE  Spec => []NoUseAfterFree
<1> DEFINE Inv == TypeOK /\ LockInv /\ PtrInv
<1>1. Init => Inv
  BY InitTypeOK, InitLockInv, InitPtrInv
<1>2. Inv /\ [Next]_vars => Inv'
  BY NextTypeOK, NextLockInv, NextPtrInv
<1>3. Inv => NoUseAfterFree
  BY DEF TypeOK, PtrInv, NoUseAfterFree
<1>4. QED
  BY <1>1, <1>2, <1>3, PTL DEF Spec

\* The genesis chain is an initial state of PublishedChain.
LEMMA InitRefines == Init => Promise!Init
BY DEF Init, Promise!Init, Promise!Start, Published, Genesis

\* Every step of the node extends, replaces or keeps the published chain.
LEMMA StepRefines ==
    ASSUME SafetyInv, [Next]_vars
    PROVE  [Promise!Next]_<<version, Published>>
<1>a. /\ heap \in Seq(Chain) /\ DOMAIN heap = 1..Len(heap)
      /\ minerPtr \in 1..Len(heap) /\ syncPtr \in 1..Len(heap)
      /\ sLen \in Nat /\ cLen \in Nat /\ sReq \in Chain /\ cRep \in Chain
      /\ Published \in Chain /\ version \in Nat
  BY PublishedTyped DEF SafetyInv, TypeOK
<1>b. Published.ok /\ Published.zeros = OurZeros /\ Published.ok \in BOOLEAN
  BY <1>a DEF SafetyInv, ChainInv, ChainsStayValid, Published, Chain
<1>c. ASSUME NEW c \in Chain, NEW n \in Nat, Acceptable(c, n), Window(n), Install(c)
      PROVE  Promise!Replace
  <2>1. Published' = c /\ version' = version + 1
    BY <1>a, <1>c DEF Install, Published
  <2>2. c.ok = Published.ok /\ c.zeros = Published.zeros /\ c.len > n
    BY <1>b, <1>c DEF Acceptable, Chain
  <2>3. c = [Published EXCEPT !.len = c.len]
    BY <1>a, <2>2 DEF Chain
  <2>4. c.len >= Published.len
    BY <1>a, <1>c, <2>2, ChainTyped DEF Window
  <2>5. QED
    BY <2>1, <2>3, <2>4 DEF Promise!Replace
<1>d. ASSUME KeepPublished PROVE UNCHANGED <<version, Published>>
  BY <1>d DEF KeepPublished, Published
<1> DEFINE Quiet == UNCHANGED <<version, Published>>
<1>1. ASSUME MinerAppend PROVE Promise!Extend \/ Quiet
  <2>1. CASE minerPtr = syncPtr
    <3>1. Published' = [Published EXCEPT !.len = @ + 1]
      <4>1. Published' = [len   |-> Published.len + 1,
                          zeros |-> Published.zeros,
                          ok    |-> /\ Published.ok /\ block.on = minerPtr
                                    /\ block.pos = Published.len
                                    /\ block.zeros >= Published.zeros]
        BY <1>1, <1>a, <2>1 DEF MinerAppend, Published
      <4>2. /\ block.on = minerPtr /\ block.pos = Published.len
            /\ block.zeros >= Published.zeros
        BY <1>1, <1>b, <2>1, ConstantsAssumption
           DEF MinerAppend, SafetyInv, ChainInv, BlockInv, Published
      <4>3. (/\ Published.ok /\ block.on = minerPtr /\ block.pos = Published.len
             /\ block.zeros >= Published.zeros) = Published.ok
        BY <1>b, <4>2
      <4>4. Published' = [len   |-> Published.len + 1,
                          zeros |-> Published.zeros,
                          ok    |-> Published.ok]
        BY <4>1, <4>3
      <4>5. QED
        BY <1>a, <4>4, OneLonger
    <3>2. QED
      BY <1>1, <3>1 DEF MinerAppend, Promise!Extend
  <2>2. CASE minerPtr # syncPtr
    BY <1>1, <1>a, <2>2 DEF MinerAppend, Published
  <2>3. QED
    BY <2>1, <2>2
<1>2. ASSUME ServerCompare PROVE Promise!Replace \/ Quiet
  <2>1. CASE Acceptable(sReq, sLen)
    BY <1>2, <1>a, <1>c, <2>1 DEF ServerCompare, SafetyInv, LenInv
  <2>2. CASE ~Acceptable(sReq, sLen)
    BY <1>2, <1>d, <2>2 DEF ServerCompare
  <2>3. QED
    BY <2>1, <2>2
<1>3. ASSUME ClientCompare PROVE Promise!Replace \/ Quiet
  <2>1. CASE Acceptable(cRep, cLen)
    BY <1>3, <1>a, <1>c, <2>1 DEF ClientCompare, SafetyInv, LenInv
  <2>2. CASE ~Acceptable(cRep, cLen)
    BY <1>3, <1>d, <2>2 DEF ClientCompare
  <2>3. QED
    BY <2>1, <2>2
<1>4. ASSUME Miner \/ Server \/ Client \/ RequestStop \/ UNCHANGED vars,
             ~MinerAppend, ~ServerCompare, ~ClientCompare
      PROVE  UNCHANGED <<heap, syncPtr, version>>
  BY <1>4
  DEF Miner, MinerLocks, Server, Client, ClientLocks, vars,
      MinerStart, MinerCheck, MinerReread, MinerDestroy, MinerStore,
      MinerPrepare, MineLock, MineStopped, MineSwitched, MineFound,
      MineExhausted, MineFails, MineAttempt, MinerAppendFails, MinerJoin, MinerSpawn, MinerExitJoin,
      MinerExit, ServerCheck, ServerIdle, ServerReceive, ServerHang,
      ServerLock, ServerCount, ServerBody, ServerSerializeFails, ServerReply,
      ClientCopy,
      ClientConnect, ClientFinish, ClientCount, ClientBody,
      ClientSerializeFails, ClientReceive,
      ClientHang, ClientLock, RequestStop
<1>5. Miner \/ Server \/ Client \/ RequestStop \/ UNCHANGED vars
  BY DEF Next, Terminated
<1>6. CASE MinerAppend \/ ServerCompare \/ ClientCompare
  BY <1>1, <1>2, <1>3, <1>6 DEF Promise!Next
<1>7. CASE ~MinerAppend /\ ~ServerCompare /\ ~ClientCompare
  BY <1>4, <1>5, <1>7 DEF Published
<1>8. QED
  BY <1>6, <1>7

\* Through sync->blockchain the node implements PublishedChain: valid, of one
\* difficulty, and never shorter, although appends do not take the mutex.
THEOREM Refinement == Spec => PublishedRefines
<1>1. SafetyInv /\ [Next]_vars => [Promise!Next]_<<version, Published>>
  BY StepRefines
<1>2. QED
  BY <1>1, InitRefines, SafetyInductive, PTL DEF Spec, PublishedRefines, Promise!Spec
=============================================================================
