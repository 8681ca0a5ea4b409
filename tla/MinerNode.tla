------------------------------ MODULE MinerNode ------------------------------
(***************************************************************************)
(* One LeoCoin node: the threads of one miner process that share its       *)
(* synchronized_blockchain_t.                                              *)
(*                                                                         *)
(*   "miner"   mine_blocks (mining_thread.c), which mines on a pointer it   *)
(*             keeps across iterations and appends without the mutex;      *)
(*   "server"  run_consensus_peer_server, which answers peers and may       *)
(*             replace the published chain;                                *)
(*   "client"  the broadcast thread the miner spawns after each block,      *)
(*             which runs run_consensus_peer_client over the peer list and *)
(*             may replace the published chain too.                        *)
(*                                                                         *)
(* A chain object is an entry of heap and a pointer is its index: the      *)
(* object published by the k-th switch is entry k + 1.  Of a chain the     *)
(* model keeps its length, the difficulty it claims, and whether           *)
(* blockchain_verify accepts it.  What peers send is arbitrary.            *)
(*                                                                         *)
(* Granularity.  Steps that only touch a thread's own memory are merged    *)
(* with a neighbour.  Under sync->mutex, reading a length, switching,      *)
(* counting blocks and traversing them stay separate steps, because the    *)
(* miner's append (mining_thread.c:184) takes no lock and can fall between *)
(* any two of them.  The pointer store and the version increment are one   *)
(* step: nobody reads the pointer without the mutex.                       *)
(***************************************************************************)
EXTENDS Integers, Sequences, FiniteSets

CONSTANTS
    MaxLen,      \* bound: the longest chain the model mines
    PeerLens,    \* the lengths of the chains peers send
    MaxPeers,    \* bound: the longest peer list a broadcast copies
    OurZeros,    \* the difficulty this node was started with (-n)
    PeerZeros,   \* the difficulties of the chains peers send
    Faults       \* what the environment may do wrong, see FaultKinds

(* early:  a peer is served before mine_blocks first reads the pointer.    *)
(* hangup: a peer closes its connection in the middle of a message.        *)
(* nomem:  an allocation, a hash or a signature fails: a block cannot be   *)
(*         prepared, hashed or appended, or a chain not be serialized.     *)
(* nospawn: pthread_create of the broadcast thread fails.                  *)
FaultKinds == {"early", "hangup", "nomem", "nospawn"}

ASSUME ConstantsAssumption ==
    /\ MaxLen \in Nat \ {0}
    /\ PeerLens \subseteq Nat
    /\ MaxPeers \in Nat
    /\ OurZeros \in Nat
    /\ PeerZeros \subseteq Nat
    /\ Faults \subseteq FaultKinds

VARIABLES
    heap,        \* the chain objects published so far, oldest first
    freed,       \* the pointers blockchain_destroy was called on
    syncPtr,     \* sync->blockchain
    version,     \* sync->version
    mutex,       \* the holder of sync->mutex, or "free"
    stop,        \* the threads whose should_stop flag is set
    exitReady,   \* the threads whose exit_ready flag is set
    mPc, minerPtr, oldPtr, mined, block, handle,   \* mine_blocks
    sPc, sReq, sLen, sOut,                         \* the consensus server
    cPc, cLeft, cRep, cLen, cOut                   \* the broadcast thread

shared == <<heap, freed, syncPtr, version, mutex, stop, exitReady>>
minerVars == <<mPc, minerPtr, oldPtr, mined, block, handle>>
serverVars == <<sPc, sReq, sLen, sOut>>
clientVars == <<cPc, cLeft, cRep, cLen, cOut>>
vars == <<shared, minerVars, serverVars, clientVars>>

-----------------------------------------------------------------------------
Chain == [len : Nat, zeros : Nat, ok : BOOLEAN]

\* What a peer's send_blockchain command can hold once deserialized.
PeerChain == [len : PeerLens, zeros : PeerZeros \cup {OurZeros}, ok : BOOLEAN]

\* The chain main creates: the genesis block alone.
Genesis == [len |-> 1, zeros |-> OurZeros, ok |-> TRUE]

\* A block under construction: the chain and length its previous hash was
\* taken from, and the difficulty its proof of work was searched for.
Block == [on : Nat, pos : Nat, zeros : Nat]

\* A serialized chain: the block count in its header and the blocks behind it.
Wire == [count : Nat, body : Nat]

NoChain == [len |-> 0, zeros |-> OurZeros, ok |-> FALSE]
NoBlock == [on |-> 0, pos |-> 0, zeros |-> 0]
NoWire == [count |-> 0, body |-> 0]

Published == heap[syncPtr]

(* The node may switch to c: valid, longer than the length n that was read *)
(* from the published chain, and of its difficulty.                        *)
Acceptable(c, n) == c.ok /\ c.len > n /\ c.zeros = Published.zeros

Install(c) ==
    /\ heap' = Append(heap, c)
    /\ syncPtr' = Len(heap) + 1
    /\ version' = version + 1

KeepPublished == UNCHANGED <<heap, syncPtr, version>>

Lock(t) == mutex = "free" /\ mutex' = t
Unlock == mutex' = "free"

Init ==
    /\ heap = <<Genesis>> /\ freed = {}
    /\ syncPtr = 1 /\ version = 0 /\ mutex = "free"
    /\ stop = {} /\ exitReady = {}
    /\ mPc = "start" /\ minerPtr = 1 /\ oldPtr = 0 /\ mined = 0
    /\ block = NoBlock /\ handle = "uninit"
    /\ sPc = "check" /\ sReq = NoChain /\ sLen = 0 /\ sOut = NoWire
    /\ cPc = "none" /\ cLeft = 0 /\ cRep = NoChain /\ cLen = 0 /\ cOut = NoWire

-----------------------------------------------------------------------------
(* The miner.                                                              *)

MinerStart ==
    /\ mPc = "start" /\ mutex = "free"
    /\ minerPtr' = syncPtr
    /\ mPc' = "check"
    /\ UNCHANGED <<shared, oldPtr, mined, block, handle, serverVars, clientVars>>

\* Mutant: the outer loop does not look at should_stop.
MinerCheckForever ==
    /\ mPc = "check"
    /\ mPc' = IF mined # version THEN "reread" ELSE "prepare"
    /\ UNCHANGED <<shared, minerPtr, oldPtr, mined, block, handle, serverVars, clientVars>>

MinerCheck ==
    /\ mPc = "check"
    /\ mPc' = IF "miner" \in stop THEN "exitJoin"
              ELSE IF mined # version THEN "reread" ELSE "prepare"
    /\ UNCHANGED <<shared, minerPtr, oldPtr, mined, block, handle, serverVars, clientVars>>

MinerReread ==
    /\ mPc = "reread" /\ mutex = "free"
    /\ oldPtr' = minerPtr
    /\ minerPtr' = syncPtr
    /\ mPc' = "destroy"
    /\ UNCHANGED <<shared, mined, block, handle, serverVars, clientVars>>

MinerDestroy ==
    /\ mPc = "destroy"
    /\ freed' = freed \cup {oldPtr}
    /\ oldPtr' = 0
    /\ mPc' = "store"
    /\ UNCHANGED <<heap, syncPtr, version, mutex, stop, exitReady,
                   minerPtr, mined, block, handle, serverVars, clientVars>>

\* Mutant: counts one switch per round, however many there were.
MinerStoreByOne ==
    /\ mPc = "store"
    /\ mined' = mined + 1
    /\ mPc' = "prepare"
    /\ UNCHANGED <<shared, minerPtr, oldPtr, block, handle, serverVars, clientVars>>

\* The version is loaded only here, after the mutex was released.
MinerStore ==
    /\ mPc = "store"
    /\ mined' = version
    /\ mPc' = "prepare"
    /\ UNCHANGED <<shared, minerPtr, oldPtr, block, handle, serverVars, clientVars>>

(* Verify the chain, hash its last block, create the mint transaction and  *)
(* the block.  Every failure returns without setting exit_ready.           *)
MinerPrepare ==
    /\ mPc = "prepare"
    /\ \/ /\ heap[minerPtr].ok
          /\ block' = [on |-> minerPtr, pos |-> heap[minerPtr].len, zeros |-> 0]
          /\ mPc' = "mineLock"
       \/ /\ ~heap[minerPtr].ok \/ "nomem" \in Faults
          /\ mPc' = "failed"
          /\ UNCHANGED block
    /\ UNCHANGED <<shared, minerPtr, oldPtr, mined, handle, serverVars, clientVars>>

\* Mutant: reads the difficulty without taking the mutex.
MineLockUnlocked ==
    /\ mPc = "mineLock"
    /\ block' = [block EXCEPT !.zeros = Published.zeros]
    /\ mPc' = "mine"
    /\ UNCHANGED <<shared, minerPtr, oldPtr, mined, handle, serverVars, clientVars>>

\* synchronized_blockchain_mine_block takes its difficulty from the
\* published chain, not from the chain the block extends.
MineLock ==
    /\ mPc = "mineLock" /\ mutex = "free"
    /\ block' = [block EXCEPT !.zeros = Published.zeros]
    /\ mPc' = "mine"
    /\ UNCHANGED <<shared, minerPtr, oldPtr, mined, handle, serverVars, clientVars>>

\* One iteration of the proof-of-work loop; a missed hash is a stuttering step.
\* Whatever ends the loop without a proof, the block is destroyed.
MineAttempt(next) ==
    /\ mPc = "mine"
    /\ mPc' = next
    /\ block' = IF next = "append" THEN block ELSE NoBlock
    /\ UNCHANGED <<shared, minerPtr, oldPtr, mined, handle, serverVars, clientVars>>

MineStopped == "miner" \in stop /\ MineAttempt("check")

\* Mutant: the version comparison is the wrong way round.
MineSwitchedBackwards == "miner" \notin stop /\ mined > version /\ MineAttempt("check")

MineSwitched == "miner" \notin stop /\ mined # version /\ MineAttempt("check")

MineFound ==
    /\ "miner" \notin stop /\ mined = version
    /\ heap[minerPtr].len < MaxLen
    /\ MineAttempt("append")

\* Every 64-bit proof was tried; the miner starts over with a new block.
MineExhausted == "miner" \notin stop /\ mined = version /\ MineAttempt("check")

\* block_hash fails: mine_blocks returns.
MineFails ==
    /\ "nomem" \in Faults
    /\ "miner" \notin stop /\ mined = version
    /\ MineAttempt("failed")

\* Mutant: appends to sync->blockchain instead of the chain the block extends.
MinerAppendPublished ==
    /\ mPc = "append"
    /\ heap' = [heap EXCEPT ![syncPtr] =
                  [len   |-> @.len + 1,
                   zeros |-> @.zeros,
                   ok    |-> @.ok /\ block.on = syncPtr /\ block.pos = @.len
                                  /\ block.zeros >= @.zeros]]
    /\ block' = NoBlock
    /\ mPc' = "join"
    /\ UNCHANGED <<freed, syncPtr, version, mutex, stop, exitReady,
                   minerPtr, oldPtr, mined, handle, serverVars, clientVars>>

(* blockchain_add_block on the miner's own pointer, without the mutex.     *)
MinerAppend ==
    /\ mPc = "append"
    /\ heap' = [heap EXCEPT ![minerPtr] =
                  [len   |-> @.len + 1,
                   zeros |-> @.zeros,
                   ok    |-> @.ok /\ block.on = minerPtr /\ block.pos = @.len
                                  /\ block.zeros >= @.zeros]]
    /\ block' = NoBlock
    /\ mPc' = "join"
    /\ UNCHANGED <<freed, syncPtr, version, mutex, stop, exitReady,
                   minerPtr, oldPtr, mined, handle, serverVars, clientVars>>

\* blockchain_add_block fails: the block is destroyed and mine_blocks returns.
MinerAppendFails ==
    /\ "nomem" \in Faults
    /\ mPc = "append"
    /\ block' = NoBlock
    /\ mPc' = "failed"
    /\ UNCHANGED <<shared, minerPtr, oldPtr, mined, handle, serverVars, clientVars>>

(* pthread_join(broadcast_thread): waits for a live thread.  On an         *)
(* uninitialised handle it is undefined: it reports an error, or faults.   *)
JoinBroadcast(next) ==
    \/ /\ handle = "live" /\ cPc = "done"
       /\ handle' = "uninit" /\ cPc' = "none" /\ mPc' = next
    \/ /\ handle = "uninit"
       /\ mPc' \in {next, "crashed"}
       /\ UNCHANGED <<handle, cPc>>

MinerJoin ==
    /\ mPc = "join"
    /\ JoinBroadcast("spawn")
    /\ UNCHANGED <<shared, minerPtr, oldPtr, mined, block, serverVars,
                   cLeft, cRep, cLen, cOut>>

MinerSpawn ==
    /\ mPc = "spawn"
    /\ \/ handle' = "live" /\ cPc' = "copy"
       \/ "nospawn" \in Faults /\ UNCHANGED <<handle, cPc>>
    /\ mPc' = "check"
    /\ UNCHANGED <<shared, minerPtr, oldPtr, mined, block, serverVars,
                   cLeft, cRep, cLen, cOut>>

\* Mutant: returns while the last broadcast is still running.
MinerExitNoJoin ==
    /\ mPc = "exitJoin"
    /\ mPc' = "exit"
    /\ UNCHANGED <<shared, minerPtr, oldPtr, mined, block, handle, serverVars, clientVars>>

MinerExitJoin ==
    /\ mPc = "exitJoin"
    /\ JoinBroadcast("exit")
    /\ UNCHANGED <<shared, minerPtr, oldPtr, mined, block, serverVars,
                   cLeft, cRep, cLen, cOut>>

MinerExit ==
    /\ mPc = "exit"
    /\ exitReady' = exitReady \cup {"miner"}
    /\ mPc' = "done"
    /\ UNCHANGED <<heap, freed, syncPtr, version, mutex, stop,
                   minerPtr, oldPtr, mined, block, handle, serverVars, clientVars>>

MinerLocks == MinerStart \/ MinerReread \/ MineLock

Miner ==
    \/ MinerLocks
    \/ MinerCheck \/ MinerDestroy \/ MinerStore \/ MinerPrepare
    \/ MineStopped \/ MineSwitched \/ MineFound \/ MineExhausted \/ MineFails
    \/ MinerAppend \/ MinerAppendFails \/ MinerJoin \/ MinerSpawn \/ MinerExitJoin \/ MinerExit

-----------------------------------------------------------------------------
(* The consensus peer server.                                              *)

ServerCheck ==
    /\ sPc = "check"
    /\ \/ /\ "server" \in stop
          /\ sPc' = "stopped" /\ exitReady' = exitReady \cup {"server"}
       \/ /\ "server" \notin stop
          /\ sPc' = "poll" /\ UNCHANGED exitReady
    /\ UNCHANGED <<heap, freed, syncPtr, version, mutex, stop, sReq, sLen, sOut,
                   minerVars, clientVars>>

(* poll timed out, or the request was refused before line 76 (a receive    *)
(* error, another command, bytes that do not deserialize): no reply.       *)
ServerIdle ==
    /\ sPc = "poll"
    /\ sPc' = "check"
    /\ UNCHANGED <<shared, sReq, sLen, sOut, minerVars, clientVars>>

\* A peer's chain was received, deserialized and verified.
ServerReceive ==
    /\ sPc = "poll"
    /\ "early" \in Faults \/ mPc # "start"
    /\ sReq' \in PeerChain
    /\ sPc' = "lock"
    /\ UNCHANGED <<shared, sLen, sOut, minerVars, clientVars>>

\* The peer closed its end early: recv returns 0 and recv_all loops for ever.
ServerHang ==
    /\ "hangup" \in Faults
    /\ sPc \in {"poll", "spinning"}
    /\ sPc' = "spinning"
    /\ UNCHANGED <<shared, sReq, sLen, sOut, minerVars, clientVars>>

ServerLock ==
    /\ sPc = "lock" /\ Lock("server")
    /\ sLen' = Published.len
    /\ sPc' = "compare"
    /\ UNCHANGED <<heap, freed, syncPtr, version, stop, exitReady, sReq, sOut,
                   minerVars, clientVars>>

ServerCompare ==
    /\ sPc = "compare"
    /\ IF Acceptable(sReq, sLen) THEN Install(sReq) ELSE KeepPublished
    /\ sPc' = "count"
    /\ UNCHANGED <<freed, mutex, stop, exitReady, sReq, sLen, sOut,
                   minerVars, clientVars>>

\* Mutant: serializes the chain that was published before the comparison.
ServerCountOld ==
    /\ sPc = "count"
    /\ sOut' = [count |-> sLen, body |-> 0]
    /\ sPc' = "body"
    /\ UNCHANGED <<shared, sReq, sLen, minerVars, clientVars>>

\* blockchain_serialize first counts the blocks of the chain now published...
ServerCount ==
    /\ sPc = "count"
    /\ sOut' = [count |-> Published.len, body |-> 0]
    /\ sPc' = "body"
    /\ UNCHANGED <<shared, sReq, sLen, minerVars, clientVars>>

\* ...and then traverses them.
ServerBody ==
    /\ sPc = "body"
    /\ sOut' = [sOut EXCEPT !.body = Published.len]
    /\ Unlock
    /\ sPc' = "send"
    /\ UNCHANGED <<heap, freed, syncPtr, version, stop, exitReady, sReq, sLen,
                   minerVars, clientVars>>

\* Without memory the peer gets no reply, also when its chain was installed.
ServerSerializeFails ==
    /\ "nomem" \in Faults
    /\ sPc = "body"
    /\ sReq' = NoChain /\ sLen' = 0 /\ sOut' = NoWire
    /\ Unlock
    /\ sPc' = "check"
    /\ UNCHANGED <<heap, freed, syncPtr, version, stop, exitReady,
                   minerVars, clientVars>>

\* Mutant: goes back to poll without looking at should_stop.
ServerReplyNoCheck ==
    /\ sPc = "send"
    /\ sReq' = NoChain /\ sLen' = 0 /\ sOut' = NoWire
    /\ sPc' = "poll"
    /\ UNCHANGED <<shared, minerVars, clientVars>>

\* The peer's chain is destroyed unless it was installed, and the reply sent;
\* a failed send is only printed.
ServerReply ==
    /\ sPc = "send"
    /\ sReq' = NoChain /\ sLen' = 0 /\ sOut' = NoWire
    /\ sPc' = "check"
    /\ UNCHANGED <<shared, minerVars, clientVars>>

Server ==
    \/ ServerCheck \/ ServerIdle \/ ServerReceive \/ ServerHang \/ ServerLock
    \/ ServerCompare \/ ServerCount \/ ServerBody \/ ServerSerializeFails
    \/ ServerReply

-----------------------------------------------------------------------------
(* The broadcast thread.  Its should_stop is a local that nobody sets.     *)

ClientCopy ==
    /\ cPc = "copy"
    /\ cLeft' \in 0..MaxPeers
    /\ cPc' = "next"
    /\ UNCHANGED <<shared, cRep, cLen, cOut, minerVars, serverVars>>

\* Mutant: does not notice the end of the list.
ClientConnectNoEnd ==
    /\ cPc = "next"
    /\ cLeft' = cLeft - 1
    /\ cPc' \in {"count", "next"}
    /\ UNCHANGED <<shared, cRep, cLen, cOut, minerVars, serverVars>>

\* Connecting to the next peer succeeds, or fails and the loop goes on.
ClientConnect ==
    /\ cPc = "next" /\ cLeft > 0
    /\ cLeft' = cLeft - 1
    /\ cPc' \in {"count", "next"}
    /\ UNCHANGED <<shared, cRep, cLen, cOut, minerVars, serverVars>>

ClientFinish ==
    /\ cPc = "next" /\ cLeft = 0
    /\ cPc' = "done"
    /\ UNCHANGED <<shared, cLeft, cRep, cLen, cOut, minerVars, serverVars>>

ClientCount ==
    /\ cPc = "count" /\ Lock("client")
    /\ cOut' = [count |-> Published.len, body |-> 0]
    /\ cPc' = "body"
    /\ UNCHANGED <<heap, freed, syncPtr, version, stop, exitReady,
                   cLeft, cRep, cLen, minerVars, serverVars>>

\* Mutant: traverses the blocks first and counts them afterwards.
ClientBodyCountLast ==
    /\ cPc = "body"
    /\ cOut' = [count |-> Published.len, body |-> cOut.count]
    /\ Unlock
    /\ cPc' = "reply"
    /\ UNCHANGED <<heap, freed, syncPtr, version, stop, exitReady,
                   cLeft, cRep, cLen, minerVars, serverVars>>

ClientBody ==
    /\ cPc = "body"
    /\ cOut' = [cOut EXCEPT !.body = Published.len]
    /\ Unlock
    /\ cPc' = "reply"
    /\ UNCHANGED <<heap, freed, syncPtr, version, stop, exitReady,
                   cLeft, cRep, cLen, minerVars, serverVars>>

\* Without memory nothing is sent and the loop goes on to the next peer.
ClientSerializeFails ==
    /\ "nomem" \in Faults
    /\ cPc = "body"
    /\ cOut' = NoWire
    /\ Unlock
    /\ cPc' = "next"
    /\ UNCHANGED <<heap, freed, syncPtr, version, stop, exitReady,
                   cLeft, cRep, cLen, minerVars, serverVars>>

\* The peer's answer was received and deserialized; only a valid chain is
\* compared with ours.
ClientReceive ==
    /\ cPc = "reply"
    /\ \E c \in PeerChain : IF c.ok THEN cRep' = c /\ cPc' = "lock"
                                    ELSE cRep' = NoChain /\ cPc' = "next"
    /\ cOut' = NoWire
    /\ UNCHANGED <<shared, cLeft, cLen, minerVars, serverVars>>

ClientHang ==
    /\ "hangup" \in Faults
    /\ cPc \in {"reply", "spinning"}
    /\ cPc' = "spinning"
    /\ UNCHANGED <<shared, cLeft, cRep, cLen, cOut, minerVars, serverVars>>

\* "Read the pointer again just in case something changed."
ClientLock ==
    /\ cPc = "lock" /\ Lock("client")
    /\ cLen' = Published.len
    /\ cPc' = "compare"
    /\ UNCHANGED <<heap, freed, syncPtr, version, stop, exitReady,
                   cLeft, cRep, cOut, minerVars, serverVars>>

ClientCompare ==
    /\ cPc = "compare"
    /\ IF Acceptable(cRep, cLen) THEN Install(cRep) ELSE KeepPublished
    /\ Unlock
    /\ cRep' = NoChain /\ cLen' = 0
    /\ cPc' = "next"
    /\ UNCHANGED <<freed, stop, exitReady, cLeft, cOut, minerVars, serverVars>>

ClientLocks == ClientCount \/ ClientLock

Client ==
    \/ ClientLocks
    \/ ClientCopy \/ ClientConnect \/ ClientFinish \/ ClientBody
    \/ ClientSerializeFails \/ ClientReceive \/ ClientHang \/ ClientCompare

-----------------------------------------------------------------------------
\* The owner of a thread sets its should_stop flag.
RequestStop ==
    /\ \E t \in {"miner", "server"} \ stop : stop' = stop \cup {t}
    /\ UNCHANGED <<heap, freed, syncPtr, version, mutex, exitReady,
                   minerVars, serverVars, clientVars>>

MinerReturned == mPc \in {"done", "failed"}

\* A process whose threads have all ended, or that faulted, does nothing.
Terminated ==
    /\ \/ mPc = "crashed"
       \/ MinerReturned /\ sPc = "stopped" /\ cPc \in {"none", "done"}
    /\ UNCHANGED vars

Next ==
    \/ mPc # "crashed" /\ (Miner \/ Server \/ Client \/ RequestStop)
    \/ Terminated

Spec == Init /\ [][Next]_vars

(* Every thread keeps running while it can, peers answer in the end, and a *)
(* thread waiting for sync->mutex gets it in the end: between two critical *)
(* sections its competitors go through network input.                      *)
Fairness ==
    /\ WF_vars(mPc # "crashed" /\ Miner)
    /\ WF_vars(mPc # "crashed" /\ Server)
    /\ WF_vars(mPc # "crashed" /\ Client)
    /\ SF_vars(mPc # "crashed" /\ MinerLocks)
    /\ SF_vars(mPc # "crashed" /\ ServerLock)
    /\ SF_vars(mPc # "crashed" /\ ClientLocks)

FairSpec == Spec /\ Fairness

-----------------------------------------------------------------------------
(* Correctness.                                                            *)

ServerCritical == {"compare", "count", "body"}
ClientCritical == {"body", "compare"}

TypeOK ==
    /\ heap \in Seq(Chain)
    /\ freed \subseteq Nat
    /\ syncPtr \in DOMAIN heap
    /\ version \in Nat
    /\ mutex \in {"free", "server", "client"}
    /\ stop \subseteq {"miner", "server"}
    /\ exitReady \subseteq {"miner", "server"}
    /\ mPc \in {"start", "check", "reread", "destroy", "store", "prepare",
                "mineLock", "mine", "append", "join", "spawn", "exitJoin",
                "exit", "done", "failed", "crashed"}
    /\ minerPtr \in DOMAIN heap
    /\ oldPtr \in Nat
    /\ mined \in Nat
    /\ block \in Block
    /\ handle \in {"uninit", "live"}
    /\ sPc \in {"check", "poll", "lock", "send", "stopped", "spinning"} \cup ServerCritical
    /\ sReq \in Chain /\ sLen \in Nat /\ sOut \in Wire
    /\ cPc \in {"none", "copy", "next", "count", "reply", "lock", "done", "spinning"}
               \cup ClientCritical
    /\ cLeft \in Nat /\ cRep \in Chain /\ cLen \in Nat /\ cOut \in Wire

(* mining_thread.c:78 frees the chain the miner leaves.  No thread still    *)
(* holds a pointer to it: not sync->blockchain, not the miner's own.        *)
NoUseAfterFree == {syncPtr, minerPtr, oldPtr} \cap freed = {}

(* The unlocked append of mining_thread.c:184 always extends the chain whose *)
(* last block it hashed, and only chains that passed blockchain_verify with *)
(* our difficulty are installed: every chain object stays valid, so         *)
(* mine_blocks never stops with FAILURE_INVALID_BLOCKCHAIN.                 *)
ChainsStayValid == \A p \in DOMAIN heap : heap[p].ok /\ heap[p].zeros = OurZeros

(* blockchain_serialize counts the blocks before it traverses them, so a    *)
(* block appended in between never leaves the count larger than the body:   *)
(* the receiver can deserialize what it was sent.                           *)
WireComplete ==
    /\ sPc = "send" => sOut.count <= sOut.body
    /\ cPc = "reply" => cOut.count <= cOut.body

(* "Receives one send blockchain command and sends the new longest chain"   *)
(* (consensus_peer_server_thread.h): the reply to an acceptable request is   *)
(* at least as long as the request, whatever the other threads did.         *)
ReplyIsLongest ==
    sPc = "send" /\ sReq.ok /\ sReq.zeros = OurZeros => sOut.count >= sReq.len

(* The published chain, seen through sync->blockchain, behaves as            *)
(* PublishedChain says although the miner appends without the mutex: a      *)
(* switch decided on a stale length never makes it shorter, because the     *)
(* miner cannot start on a second block without the mutex.                  *)
Promise == INSTANCE PublishedChain WITH
               Zeros <- OurZeros, id <- version, chain <- Published
PublishedRefines == Promise!Spec

(* mine_blocks_args and what it points to belong to the caller, and the     *)
(* broadcast thread uses them: once exit_ready tells the caller to go on,    *)
(* that thread has ended, whatever it was doing when the stop came.         *)
ExitMeansQuiet == "miner" \in exitReady => cPc = "none"

(* recv_all loops when a peer closes in the middle of an exchange: the      *)
(* broadcast thread never ends, and the miner's next pthread_join with it.  *)
MinerLost == mPc = "crashed" \/ cPc = "spinning"

(* A switch is noticed in the end: sync_version_currently_mined reaches the *)
(* version, also when the switch comes while the miner is in the            *)
(* proof-of-work loop, and when it comes from the broadcast thread the      *)
(* miner is about to join.  That the miner then mines the published chain   *)
(* is MinesPublishedChain, which does not hold.                             *)
MinerCatchesUp ==
    mined # version ~> mined = version \/ "miner" \in stop \/ MinerLost

(* A stop request ends mine_blocks, which raises exit_ready, even when the   *)
(* broadcast thread it has to join is waiting for the mutex or for a peer:  *)
(* only a peer that hung up keeps it.                                       *)
MinerStops == "miner" \in stop ~> "miner" \in exitReady \/ MinerLost

(* A stop request ends the consensus server between two requests, also when *)
(* the other threads are stuck; only a peer that hung up on it keeps it.    *)
ServerStops ==
    "server" \in stop ~> "server" \in exitReady \/ mPc = "crashed" \/ sPc = "spinning"

-----------------------------------------------------------------------------
(* What the documentation says and the code does not guarantee.            *)

(* mining_thread.h: sync_version_currently_mined "contains the version       *)
(* number of the synchronized blockchain that mine_blocks is currently      *)
(* mining": when it equals sync->version, the miner mines sync->blockchain. *)
MinesPublishedChain ==
    mPc \in {"mineLock", "mine"} /\ mined = version => minerPtr = syncPtr
=============================================================================
