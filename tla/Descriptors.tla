----------------------------- MODULE Descriptors -----------------------------
(***************************************************************************)
(* The descriptor table of a miner process, shared by its four threads.     *)
(*                                                                         *)
(*   server     run_consensus_peer_server: a listening socket, and one      *)
(*              connection at a time, closed whatever became of it;         *)
(*   client     run_consensus_peer_client over the peer list: one socket    *)
(*              per peer, closed only when the exchange succeeded;          *)
(*   discovery  discover_peers: the same, once per interval;                *)
(*   miner      mine_blocks, which opens the outfile after each block.      *)
(*                                                                         *)
(* A descriptor is the lowest free number of the table, as POSIX says; the  *)
(* three that a process starts with are left out, and so is whatever name   *)
(* resolution opens.  bind and listen succeed, and accept fails only for    *)
(* want of a descriptor.  What is exchanged is in MinerNode and             *)
(* PeerDiscovery.                                                           *)
(***************************************************************************)
EXTENDS Integers

CONSTANTS
    Limit,      \* the size of the descriptor table
    MaxPeers    \* bound: the longest peer list

ASSUME ConstantsAssumption == Limit \in Nat /\ MaxPeers \in Nat

VARIABLES
    table,                   \* the descriptors that are open
    sPc, listenFd, connFd,   \* the consensus server
    cPc, cLeft, cFd,         \* the broadcast thread and its peers to visit
    dPc, dFd,                \* the discovery thread
    mPc, fileFd,             \* the miner
    failures,                \* exchanges that failed after socket()
    missed                   \* a chain could not be saved

server == <<sPc, listenFd, connFd>>
client == <<cPc, cLeft, cFd>>
discovery == <<dPc, dFd>>
miner == <<mPc, fileFd>>
vars == <<table, server, client, discovery, miner, failures, missed>>

-----------------------------------------------------------------------------
None == 0
Descriptor == 1..Limit
Full == table = Descriptor

\* socket, accept and fopen take the lowest free descriptor.
Lowest == CHOOSE d \in Descriptor \ table : \A e \in Descriptor \ table : d <= e
Take == ~Full /\ table' = table \cup {Lowest}
Close(fd) == table' = table \ {fd}

Init ==
    /\ table = {}
    /\ sPc = "start" /\ listenFd = None /\ connFd = None
    /\ cPc = "none" /\ cLeft = 0 /\ cFd = None
    /\ dPc = "idle" /\ dFd = None
    /\ mPc = "mine" /\ fileFd = None
    /\ failures = 0 /\ missed = FALSE

-----------------------------------------------------------------------------
(* The consensus server.                                                   *)

ServerListen ==
    /\ sPc = "start"
    /\ \/ Take /\ listenFd' = Lowest /\ sPc' = "poll"
       \/ Full /\ sPc' = "ended" /\ UNCHANGED <<table, listenFd>>
    /\ UNCHANGED <<connFd, client, discovery, miner, failures, missed>>

\* A peer connects.  When accept fails, the thread ends and its listening
\* socket stays open.
ServerAccept ==
    /\ sPc = "poll"
    /\ \/ Take /\ connFd' = Lowest /\ sPc' = "serve"
       \/ Full /\ sPc' = "ended" /\ UNCHANGED <<table, connFd>>
    /\ UNCHANGED <<listenFd, client, discovery, miner, failures, missed>>

\* Mutant: a request that could not be handled returns before close.
ServerCloseOnSuccess ==
    /\ sPc = "serve"
    /\ Close(connFd) \/ UNCHANGED table
    /\ connFd' = None /\ sPc' = "poll"
    /\ UNCHANGED <<listenFd, client, discovery, miner, failures, missed>>

\* The request was handled, or failed; should_stop is never set by main.
ServerClose ==
    /\ sPc = "serve"
    /\ Close(connFd) /\ connFd' = None /\ sPc' = "poll"
    /\ UNCHANGED <<listenFd, client, discovery, miner, failures, missed>>

-----------------------------------------------------------------------------
(* The broadcast thread.                                                   *)

\* Mutant: the result of socket is not checked.
ClientSocketNoCheck ==
    /\ cPc = "next" /\ cLeft > 0
    /\ cLeft' = cLeft - 1 /\ cPc' = "exchange"
    /\ \/ Take /\ cFd' = Lowest
       \/ Full /\ cFd' = -1 /\ UNCHANGED table
    /\ UNCHANGED <<server, discovery, miner, failures, missed>>

ClientSocket ==
    /\ cPc = "next" /\ cLeft > 0
    /\ cLeft' = cLeft - 1
    /\ \/ Take /\ cFd' = Lowest /\ cPc' = "exchange"
       \/ Full /\ UNCHANGED <<table, cFd, cPc>>
    /\ UNCHANGED <<server, discovery, miner, failures, missed>>

\* Mutant: the socket may be closed a second time.
ClientCloseTwice ==
    /\ cPc = "exchange"
    /\ Close(cFd)
    /\ \/ cFd' = None /\ cPc' = "next"
       \/ UNCHANGED <<cFd, cPc>>
    /\ UNCHANGED <<cLeft, server, discovery, miner, failures, missed>>

ClientClose ==
    /\ cPc = "exchange"
    /\ Close(cFd) /\ cFd' = None /\ cPc' = "next"
    /\ UNCHANGED <<cLeft, server, discovery, miner, failures, missed>>

\* Connecting, sending, receiving or decoding failed: goto end, without close.
ClientFail ==
    /\ cPc = "exchange"
    /\ cFd' = None /\ cPc' = "next" /\ failures' = failures + 1
    /\ UNCHANGED <<table, cLeft, server, discovery, miner, missed>>

ClientFinish ==
    /\ cPc = "next" /\ cLeft = 0
    /\ cPc' = "none"
    /\ UNCHANGED <<table, cLeft, cFd, server, discovery, miner, failures, missed>>

-----------------------------------------------------------------------------
(* The discovery thread.                                                   *)

\* When socket fails the thread sleeps and tries again: nothing changes.
DiscoverySocket ==
    /\ dPc = "idle"
    /\ Take /\ dFd' = Lowest /\ dPc' = "exchange"
    /\ UNCHANGED <<server, client, miner, failures, missed>>

DiscoveryClose ==
    /\ dPc = "exchange"
    /\ Close(dFd) /\ dFd' = None /\ dPc' = "idle"
    /\ UNCHANGED <<server, client, miner, failures, missed>>

DiscoveryFail ==
    /\ dPc = "exchange"
    /\ dFd' = None /\ dPc' = "idle" /\ failures' = failures + 1
    /\ UNCHANGED <<table, server, client, miner, missed>>

-----------------------------------------------------------------------------
(* The miner.                                                              *)

\* A block was appended and the chain is saved.  mine_blocks does not look at
\* the return code of blockchain_write_to_file.
SaveOpen ==
    /\ mPc = "mine"
    /\ \/ Take /\ fileFd' = Lowest /\ mPc' = "write" /\ UNCHANGED missed
       \/ Full /\ mPc' = "join" /\ missed' = TRUE /\ UNCHANGED <<table, fileFd>>
    /\ UNCHANGED <<server, client, discovery, failures>>

SaveClose ==
    /\ mPc = "write"
    /\ Close(fileFd) /\ fileFd' = None /\ mPc' = "join"
    /\ UNCHANGED <<server, client, discovery, failures, missed>>

\* The previous broadcast is joined and the next one copies the peer list.
MinerBroadcast ==
    /\ mPc = "join" /\ cPc = "none"
    /\ cLeft' \in 0..MaxPeers /\ cPc' = "next"
    /\ mPc' = "mine"
    /\ UNCHANGED <<table, cFd, fileFd, server, discovery, failures, missed>>

-----------------------------------------------------------------------------
Server == ServerListen \/ ServerAccept \/ ServerClose
Client == ClientSocket \/ ClientClose \/ ClientFail \/ ClientFinish
Discovery == DiscoverySocket \/ DiscoveryClose \/ DiscoveryFail
Miner == SaveOpen \/ SaveClose \/ MinerBroadcast

Next == Server \/ Client \/ Discovery \/ Miner

Spec == Init /\ [][Next]_vars

-----------------------------------------------------------------------------
(* Correctness.                                                            *)

Fd == Descriptor \cup {None}

TypeOK ==
    /\ table \subseteq Descriptor
    /\ sPc \in {"start", "poll", "serve", "ended"} /\ listenFd \in Fd /\ connFd \in Fd
    /\ cPc \in {"none", "next", "exchange"} /\ cLeft \in 0..MaxPeers /\ cFd \in Fd
    /\ dPc \in {"idle", "exchange"} /\ dFd \in Fd
    /\ mPc \in {"mine", "write", "join"} /\ fileFd \in Fd
    /\ failures \in Nat
    /\ missed \in BOOLEAN

Held == <<listenFd, connFd, cFd, dFd, fileFd>>

(* A number that close gave back may be another thread's descriptor the next *)
(* moment.  No close reaches a descriptor of another thread: the numbers the *)
(* threads hold are open and all different.                                  *)
NoSharedDescriptor ==
    \A i \in DOMAIN Held :
        Held[i] # None =>
            Held[i] \in table /\ \A j \in DOMAIN Held \ {i} : Held[j] # Held[i]

\* What the threads hold together at most.
Needed == 5

(* Sockets of failed exchanges stay open, accept then fails and the server's *)
(* thread ends, and fopen fails and the chain is not saved.  That is the     *)
(* only way either happens: while the failures leave room for what the      *)
(* threads hold themselves, the server runs "until interrupted"             *)
(* (consensus_peer_server_thread.h) and every chain is saved.               *)
FailuresAloneExhaust ==
    sPc = "ended" \/ missed => failures + Needed > Limit
=============================================================================
