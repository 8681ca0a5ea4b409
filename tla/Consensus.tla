------------------------------ MODULE Consensus ------------------------------
(***************************************************************************)
(* Several LeoCoin nodes exchanging whole chains until they agree on the    *)
(* longest.  Each node runs the three threads of MinerNode; here their      *)
(* steps are coarse and the nodes are many.                                 *)
(*                                                                         *)
(* A chain is the sequence of its blocks.  A block is the pair of its       *)
(* miner and that miner's life (the number of restarts before): a miner     *)
(* never extends the same chain twice within a life, so the pair and the    *)
(* blocks before it identify it.  Every node starts from a genesis block    *)
(* of its own, because no chain file is ever read back (miner.c).           *)
(*                                                                         *)
(* Granularity.  A critical section of sync->mutex is one step, except that *)
(* the miner's append takes no lock and may fall between the read of our    *)
(* length and the switch decided on it: Exchange has a disjunct for that.   *)
(* All chains are valid and of one difficulty (ChainsStayValid of           *)
(* MinerNode).  An exchange may fail at every call either side makes, and   *)
(* nobody repeats it; only poll and accept of a running server succeed.     *)
(***************************************************************************)
EXTENDS Integers, Sequences

CONSTANTS
    Nodes,        \* the nodes' addresses
    Lists,        \* the peer lists discovery may have left at a node
    MaxLen,       \* bound: the longest chain that is mined
    MaxFaults     \* bound: how often a process ends or a call fails

ASSUME ConstantsAssumption ==
    /\ Lists \subseteq SUBSET Nodes
    /\ MaxLen \in Nat \ {0}
    /\ MaxFaults \in Nat

VARIABLES
    up,        \* the nodes that are running
    life,      \* how often a node was restarted
    faults,    \* how many processes ended and calls failed so far
    chain,     \* sync->blockchain
    lag,       \* the miner extends another chain than the published one
    pending,   \* a block was appended and its broadcast not yet started
    client,    \* the broadcast thread
    orphan,    \* requests whose sender no longer waits for a reply
    wedged,    \* the nodes whose server stays in recv_all or send_all
    answered   \* history: who has answered each node's latest broadcast

vars == <<up, life, faults, chain, lag, pending, client, orphan, wedged, answered>>

-----------------------------------------------------------------------------
Block == Nodes \X Nat
Chain == Seq(Block)

\* The broadcast thread: where it is, the peers still to be visited, the peer
\* of the exchange, and the chain last sent between them.
Client == [pc : {"none", "next", "sent", "replied", "lost", "spinning"},
           todo : SUBSET Nodes, peer : Nodes, msg : Chain]

Genesis(n, k) == << <<n, k>> >>

\* Between two exchanges nothing is under way.
Between(n, pc, todo) == [pc |-> pc, todo |-> todo, peer |-> n, msg |-> <<>>]
NoClient(n) == Between(n, "none", {})

Init ==
    /\ up = Nodes /\ life = [n \in Nodes |-> 0] /\ faults = 0
    /\ chain = [n \in Nodes |-> Genesis(n, 0)]
    /\ lag = [n \in Nodes |-> FALSE]
    /\ pending = [n \in Nodes |-> FALSE]
    /\ client = [n \in Nodes |-> NoClient(n)]
    /\ orphan = {} /\ wedged = {}
    /\ answered = [n \in Nodes |-> {}]

-----------------------------------------------------------------------------
(* Mining.                                                                 *)

CanAppend(n) == ~pending[n] /\ ~lag[n] /\ Len(chain[n]) < MaxLen
Grown(n) == Append(chain[n], <<n, life[n]>>)

MineBlock(n) ==
    /\ n \in up /\ CanAppend(n)
    /\ chain' = [chain EXCEPT ![n] = Grown(n)]
    /\ pending' = [pending EXCEPT ![n] = TRUE]
    /\ UNCHANGED <<up, life, faults, lag, client, orphan, wedged, answered>>

\* The block goes to a chain that was replaced while it was mined; what is
\* broadcast afterwards is the published chain.
MineStaleBlock(n) ==
    /\ n \in up /\ ~pending[n] /\ lag[n]
    /\ pending' = [pending EXCEPT ![n] = TRUE]
    /\ UNCHANGED <<up, life, faults, chain, lag, client, orphan, wedged, answered>>

\* The miner notices the new version and reads the pointer again.
Reread(n) ==
    /\ n \in up /\ ~pending[n] /\ lag[n]
    /\ lag' = [lag EXCEPT ![n] = FALSE]
    /\ UNCHANGED <<up, life, faults, chain, pending, client, orphan, wedged, answered>>

\* Mutant: a block found during a broadcast is not broadcast itself.
StartBroadcastSkipped(n) ==
    /\ n \in up /\ pending[n]
    /\ pending' = [pending EXCEPT ![n] = FALSE]
    /\ \/ /\ client[n].pc = "none"
          /\ answered' = [answered EXCEPT ![n] = {}]
          /\ \E list \in Lists :
                client' = [client EXCEPT ![n] = Between(n, "next", list)]
       \/ client[n].pc # "none" /\ UNCHANGED <<client, answered>>
    /\ UNCHANGED <<up, life, faults, chain, lag, orphan, wedged>>

\* pthread_join waits for the previous broadcast; the new one copies the list.
StartBroadcast(n) ==
    /\ n \in up /\ pending[n] /\ client[n].pc = "none"
    /\ pending' = [pending EXCEPT ![n] = FALSE]
    /\ answered' = [answered EXCEPT ![n] = {}]
    /\ \E list \in Lists :
          client' = [client EXCEPT ![n] = Between(n, "next", list)]
    /\ UNCHANGED <<up, life, faults, chain, lag, orphan, wedged>>

\* A call fails.
Fault == faults < MaxFaults /\ faults' = faults + 1

\* pthread_create fails, or the thread cannot copy the list: nobody is visited,
\* and the miner goes on to its next block.
BroadcastFails(n) ==
    /\ n \in up /\ pending[n] /\ client[n].pc = "none" /\ Fault
    /\ pending' = [pending EXCEPT ![n] = FALSE]
    /\ answered' = [answered EXCEPT ![n] = {}]
    /\ UNCHANGED <<up, life, chain, lag, client, orphan, wedged>>

-----------------------------------------------------------------------------
(* The exchange of chains.                                                 *)

\* Mutant: a chain as long as ours counts as longer.
PreferOrEqual(theirs, seen, ours) == IF Len(theirs) >= seen THEN theirs ELSE ours

\* seen is our length as it was read before the decision.
Prefer(theirs, seen, ours) == IF Len(theirs) > seen THEN theirs ELSE ours

KeepLonger(n, theirs, ours) ==
    /\ chain' = [chain EXCEPT ![n] = Prefer(theirs, Len(chain[n]), ours)]
    /\ lag' = [lag EXCEPT ![n] = @ \/ Len(theirs) > Len(chain[n])]

(* Node n compares a received chain with its own under the mutex and keeps  *)
(* the longer one.  In the second disjunct the miner's unlocked append      *)
(* comes after our length was read and before the switch.                   *)
Exchange(n, theirs) ==
    \/ KeepLonger(n, theirs, chain[n]) /\ UNCHANGED pending
    \/ /\ CanAppend(n)
       /\ KeepLonger(n, theirs, Grown(n))
       /\ pending' = [pending EXCEPT ![n] = TRUE]

\* The next peer accepts, and our chain as it is now is sent.
ClientSend(n, p) ==
    /\ n \in up /\ client[n].pc = "next" /\ p \in client[n].todo /\ p \in up
    /\ client' = [client EXCEPT ![n] = [pc |-> "sent", todo |-> @.todo \ {p},
                                        peer |-> p, msg |-> chain[n]]]
    /\ UNCHANGED <<up, life, faults, chain, lag, pending, orphan, wedged, answered>>

\* Nobody listens at the next peer's address: the loop goes on.
ClientRefused(n, p) ==
    /\ n \in up /\ client[n].pc = "next" /\ p \in client[n].todo \ up
    /\ client' = [client EXCEPT ![n].todo = @ \ {p}]
    /\ UNCHANGED <<up, life, faults, chain, lag, pending, orphan, wedged, answered>>

(* The exchange fails before the request is sent, and the loop goes on to   *)
(* the next peer.  The socket is not closed: a peer that accepted it waits  *)
(* for the rest, which is what an orphan without blocks stands for.         *)
ClientSendFails(n, p) ==
    /\ n \in up /\ client[n].pc = "next" /\ p \in client[n].todo /\ p \in up
    /\ Fault
    /\ client' = [client EXCEPT ![n].todo = @ \ {p}]
    /\ \E part \in SUBSET {[to |-> p, msg |-> <<>>]} : orphan' = orphan \cup part
    /\ UNCHANGED <<up, life, chain, lag, pending, wedged, answered>>

\* Mutant: the server answers with the longest chain but keeps its own.
ServeOnly(s, c) ==
    /\ s \in up \ wedged /\ client[c].pc = "sent" /\ client[c].peer = s
    /\ client' = [client EXCEPT ![c].pc = "replied",
                                ![c].msg = Prefer(@, Len(chain[s]), chain[s])]
    /\ answered' = [answered EXCEPT ![c] = @ \cup {s}]
    /\ UNCHANGED <<up, life, faults, chain, lag, pending, orphan, wedged>>

\* handle_one_consensus_request: compare, switch, and reply with the chain
\* published after that.
Serve(s, c) ==
    /\ s \in up \ wedged /\ client[c].pc = "sent" /\ client[c].peer = s
    /\ Exchange(s, client[c].msg)
    /\ client' = [client EXCEPT ![c] = [pc |-> "replied", todo |-> @.todo,
                                        peer |-> s, msg |-> chain'[s]]]
    /\ answered' = [answered EXCEPT ![c] = @ \cup {s}]
    /\ UNCHANGED <<up, life, faults, orphan, wedged>>

\* The handler gives up before the comparison or after it, and the connection
\* is closed without a reply.
ServeFails(s, c) ==
    /\ s \in up \ wedged /\ client[c].pc = "sent" /\ client[c].peer = s
    /\ Fault
    /\ Exchange(s, client[c].msg) \/ UNCHANGED <<chain, lag, pending>>
    /\ client' = [client EXCEPT ![c].pc = "lost"]
    /\ UNCHANGED <<up, life, orphan, wedged, answered>>

ClientReceive(n) ==
    /\ n \in up /\ client[n].pc = "replied"
    /\ Exchange(n, client[n].msg)
    /\ client' = [client EXCEPT ![n] = Between(n, "next", client[n].todo)]
    /\ UNCHANGED <<up, life, faults, orphan, wedged, answered>>

\* The request of n that its peer has not handled yet.
InFlight(n) == IF client[n].pc = "sent"
               THEN {[to |-> client[n].peer, msg |-> client[n].msg]} ELSE {}

\* The exchange fails after the request was sent.  The loop goes on, and the
\* peer may still read the request.
ClientReceiveFails(n) ==
    /\ n \in up /\ client[n].pc \in {"sent", "replied"} /\ Fault
    /\ client' = [client EXCEPT ![n] = Between(n, "next", client[n].todo)]
    /\ orphan' = orphan \cup InFlight(n)
    /\ UNCHANGED <<up, life, chain, lag, pending, wedged, answered>>

\* Mutant: ends without being there to be joined.
ClientFinishDetached(n) ==
    /\ n \in up /\ client[n].pc = "next" /\ client[n].todo = {}
    /\ client' = [client EXCEPT ![n].pc = "detached"]
    /\ UNCHANGED <<up, life, faults, chain, lag, pending, orphan, wedged, answered>>

ClientFinish(n) ==
    /\ n \in up /\ client[n].pc = "next" /\ client[n].todo = {}
    /\ client' = [client EXCEPT ![n] = NoClient(n)]
    /\ UNCHANGED <<up, life, faults, chain, lag, pending, orphan, wedged, answered>>

-----------------------------------------------------------------------------
(* A process ends and is started again.                                    *)

(* Its memory is gone, the chain with it.  A peer waiting for its reply     *)
(* loses the connection; a request it had sent may still be read.           *)
Crash(n) ==
    /\ n \in up /\ Fault
    /\ up' = up \ {n}
    /\ life' = [life EXCEPT ![n] = @ + 1]
    /\ chain' = [chain EXCEPT ![n] = Genesis(n, life[n] + 1)]
    /\ lag' = [lag EXCEPT ![n] = FALSE]
    /\ pending' = [pending EXCEPT ![n] = FALSE]
    /\ client' = [m \in Nodes |->
                    IF m = n THEN NoClient(n)
                    ELSE IF client[m].pc = "sent" /\ client[m].peer = n
                         THEN [client[m] EXCEPT !.pc = "lost"] ELSE client[m]]
    /\ orphan' = {o \in orphan \cup InFlight(n) : o.to # n}
    /\ wedged' = wedged \ {n}
    /\ answered' = [m \in Nodes |-> IF m = n THEN {} ELSE answered[m] \ {n}]

Restart(n) ==
    /\ n \notin up
    /\ up' = up \cup {n}
    /\ UNCHANGED <<life, faults, chain, lag, pending, client, orphan, wedged, answered>>

\* recv fails, or returns 0 for ever.
ClientLost(n) ==
    /\ n \in up /\ client[n].pc = "lost"
    /\ \E next \in {"next", "spinning"} :
          client' = [client EXCEPT ![n] = Between(n, next, client[n].todo)]
    /\ UNCHANGED <<up, life, faults, chain, lag, pending, orphan, wedged, answered>>

(* The server reads a request nobody awaits the answer of: all of it         *)
(* arrived; recv or a later call fails; or the server waits for ever, for    *)
(* the rest of the request or for room to send its reply.                   *)
ServeOrphan(s) ==
    /\ s \in up \ wedged
    /\ \E o \in orphan :
          /\ o.to = s
          /\ orphan' = orphan \ {o}
          /\ \/ Exchange(s, o.msg) /\ UNCHANGED wedged
             \/ UNCHANGED <<chain, lag, pending, wedged>>
             \/ wedged' = wedged \cup {s} /\ UNCHANGED <<chain, lag, pending>>
    /\ UNCHANGED <<up, life, faults, client, answered>>

-----------------------------------------------------------------------------
ClientStep(n) ==
    \/ \E p \in Nodes : ClientSend(n, p) \/ ClientRefused(n, p)
    \/ ClientReceive(n) \/ ClientFinish(n) \/ ClientLost(n)

Next ==
    \E n \in Nodes :
        \/ MineBlock(n) \/ MineStaleBlock(n) \/ Reread(n) \/ StartBroadcast(n)
        \/ ClientStep(n)
        \/ \E c \in Nodes : Serve(n, c)
        \/ ServeOrphan(n)
        \/ BroadcastFails(n) \/ ClientReceiveFails(n)
        \/ \E p \in Nodes : ClientSendFails(n, p) \/ ServeFails(n, p)
        \/ Crash(n) \/ Restart(n)

Spec == Init /\ [][Next]_vars

\* What a broadcast of n's goes through when nothing fails.  At most one of
\* these steps is possible at a time.
BroadcastStep(n) ==
    StartBroadcast(n) \/ ClientStep(n) \/ \E s \in Nodes : Serve(s, n)

(* Threads keep running, and a server takes connections in the order in     *)
(* which they were made, so every accepted request has its turn.  Nothing   *)
(* is assumed of mining, of a miner that notices a switch, of restarts, or  *)
(* of a call that may fail.                                                 *)
Fairness == \A n \in Nodes : WF_vars(BroadcastStep(n))

FairSpec == Spec /\ Fairness

-----------------------------------------------------------------------------
(* Correctness.                                                            *)

TypeOK ==
    /\ up \subseteq Nodes
    /\ life \in [Nodes -> Nat]
    /\ faults \in Nat
    /\ chain \in [Nodes -> Chain]
    /\ lag \in [Nodes -> BOOLEAN]
    /\ pending \in [Nodes -> BOOLEAN]
    /\ client \in [Nodes -> Client]
    /\ orphan \subseteq [to : Nodes, msg : Chain]
    /\ wedged \subseteq up
    /\ answered \in [Nodes -> SUBSET Nodes]

(* A switch is only made to a longer chain, and a tie lost to the miner's    *)
(* unlocked append happens before anyone else saw the block.  So the miner  *)
(* of the last block of any node's chain still holds that very chain, or a  *)
(* longer one, until it is restarted: a fork of two equally long chains has *)
(* its own miners on both sides.                                            *)
TipHolders ==
    \A n \in Nodes :
        LET tip == chain[n][Len(chain[n])] miner == tip[1] IN
        life[miner] = tip[2] =>
            Len(chain[miner]) > Len(chain[n]) \/ chain[miner] = chain[n]

(* "Peers will exchange blockchains, and the longest blockchain will be the  *)
(* agreed upon view" (README.md).  Nobody forwards a chain it adopted and   *)
(* nobody repeats a failed exchange, so this rests on each miner's own       *)
(* broadcast: a peer that has answered the latest broadcast of a miner has   *)
(* a chain as long as any that ends in a block of this miner, wherever that  *)
(* chain has gone meanwhile, until the miner has a new block to broadcast.  *)
AnsweredHaveIt ==
    \A m, p \in Nodes :
        LET tip == chain[m][Len(chain[m])] miner == tip[1] IN
        life[miner] = tip[2] /\ ~pending[miner] /\ p \in answered[miner] =>
            Len(chain[p]) >= Len(chain[m])

\* Somebody waits in recv_all or send_all for ever.
Stuck == wedged # {} \/ \E n \in Nodes : client[n].pc = "spinning"

(* Once the faults are over, the broadcast of one more block makes up for    *)
(* all that failed before: every node comes to have a chain as long as the  *)
(* one this block was put on, although a node serves one peer at a time and *)
(* waits for the one it asked, which may be waiting for it.  Only a thread   *)
(* that an earlier fault left waiting for ever keeps a node behind.         *)
AllCatchUp ==
    \A k \in 2..MaxLen :
        (faults = MaxFaults /\ up = Nodes /\ \E n \in Nodes : pending[n] /\ Len(chain[n]) >= k)
            ~> (Stuck \/ \A m \in Nodes : Len(chain[m]) >= k)
=============================================================================
