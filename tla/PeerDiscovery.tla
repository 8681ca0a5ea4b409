---------------------------- MODULE PeerDiscovery ----------------------------
(***************************************************************************)
(* The discovery threads of the peers (peer_discovery_thread.c) and the     *)
(* bootstrap server (peer_discovery_bootstrap_server_thread.c) they keep   *)
(* registering with.                                                       *)
(*                                                                         *)
(* Time is counted in the whole seconds of time(): instead of the date in   *)
(* last_connected an entry has its age, which Tick raises.  The server's    *)
(* prune loop compares with one reading of the clock (line 154), so what    *)
(* passes inside the loop cannot change its outcome and Tick waits for it.  *)
(* Tick also waits for steps that are due: a peer sleeps Interval, and a    *)
(* request is answered within Delay, unless the server no longer works.    *)
(***************************************************************************)
EXTENDS Integers, Sequences

CONSTANTS
    Peers,       \* the peers, named by their listen addresses
    Keepalive,   \* peer_keepalive_microseconds, in seconds
    Interval,    \* communication_interval_microseconds, in seconds
    Delay,       \* the longest time from connect to the end of an exchange
    MaxMisses,   \* connection attempts of a peer that fail in a row
    Backlog,     \* connections the listening socket queues (LISTEN_BACKLOG)
    Faults       \* "resolver": getnameinfo may fail; "cut": a peer may
                 \* die between connect and send_all

ASSUME DiscoveryAssumption ==
    /\ Keepalive \in Nat /\ Interval \in Nat \ {0} /\ Delay \in Nat
    /\ MaxMisses \in Nat /\ Backlog \in Nat \ {0}
    /\ Faults \subseteq {"resolver", "cut"}

(* The keepalive time covers MaxMisses lost attempts and two slow exchanges. *)
(* DEFAULT_COMMUNICATION_INTERVAL_SECONDS and DEFAULT_PEER_KEEPALIVE_SECONDS *)
(* (20 and 60) give it for one lost attempt and a Delay of 10 seconds.       *)
ASSUME KeepaliveAssumption ==
    2 * Delay + (MaxMisses + 1) * Interval <= Keepalive

VARIABLES
    list,    \* args->peer_info_list of the server; freed: the peer_info_t was
    pc,      \* where the server is in its handler
    prev,    \* the prune loop's prev, an index into list, 0 for NULL
    node,    \* the prune loop's node, Len(list) + 1 for NULL
    queue,   \* connections to the server, the first being served
    st,      \* what each peer's discover_peers is doing
    timer,   \* seconds until a sleeping peer wakes, an exchange is late or
             \* a peer may be started again
    miss,    \* failed attempts since the last complete exchange
    answer,  \* the list sent to a peer and not read by it yet
    known    \* *args->peer_info_list of each peer

serverVars == <<list, pc, prev, node>>
peerVars == <<st, timer, miss, answer, known>>
vars == <<list, pc, prev, node, queue, st, timer, miss, answer, known>>

Entry == [addr : Peers, age : 0..(Keepalive + 1), freed : BOOLEAN]
Connection == [from : Peers, sent : BOOLEAN, open : BOOLEAN]

Working == pc \in {"idle", "received", "registered", "prune"}

Addrs(l) == {l[k].addr : k \in 1..Len(l)}

Init ==
    /\ list = <<>> /\ pc = "idle" /\ prev = 0 /\ node = 1
    /\ queue = <<>>
    /\ st = [p \in Peers |-> "sleep"]
    /\ timer = [p \in Peers |-> 0]
    /\ miss = [p \in Peers |-> 0]
    /\ answer = [p \in Peers |-> {}]
    /\ known = [p \in Peers |-> {}]

-----------------------------------------------------------------------------
(* The peer's side.                                                        *)

\* connect and send_all.  The reply is awaited in recv_all.
Connect(p) ==
    /\ st[p] = "sleep" /\ timer[p] = 0
    /\ pc # "stopped" /\ Len(queue) < Backlog
    /\ queue' = Append(queue, [from |-> p, sent |-> TRUE, open |-> TRUE])
    /\ st' = [st EXCEPT ![p] = "waiting"]
    /\ timer' = [timer EXCEPT ![p] = Delay]
    /\ UNCHANGED <<serverVars, miss, answer, known>>

\* connect fails: the error is reported and discover_peers sleeps.
ConnectFails(p) ==
    /\ st[p] = "sleep" /\ timer[p] = 0
    /\ miss[p] < MaxMisses \/ pc = "stopped"
    /\ timer' = [timer EXCEPT ![p] = Interval]
    /\ miss' = [miss EXCEPT ![p] = IF @ < MaxMisses THEN @ + 1 ELSE @]
    /\ UNCHANGED <<serverVars, queue, st, answer, known>>

\* Mutant: the new list is thrown away.
ReceiveKeepsList(p) ==
    /\ st[p] = "answered"
    /\ answer' = [answer EXCEPT ![p] = {}]
    /\ st' = [st EXCEPT ![p] = "sleep"]
    /\ timer' = [timer EXCEPT ![p] = Interval]
    /\ miss' = [miss EXCEPT ![p] = 0]
    /\ UNCHANGED <<serverVars, queue, known>>

\* The reply replaces the list under the mutex, then the thread sleeps.
Receive(p) ==
    /\ st[p] = "answered"
    /\ known' = [known EXCEPT ![p] = answer[p]]
    /\ answer' = [answer EXCEPT ![p] = {}]
    /\ st' = [st EXCEPT ![p] = "sleep"]
    /\ timer' = [timer EXCEPT ![p] = Interval]
    /\ miss' = [miss EXCEPT ![p] = 0]
    /\ UNCHANGED <<serverVars, queue>>

\* The server process has ended and recv fails: the attempt counts as lost.
Reset(p) ==
    /\ st[p] = "waiting" /\ pc = "stopped"
    /\ st' = [st EXCEPT ![p] = "sleep"]
    /\ timer' = [timer EXCEPT ![p] = Interval]
    /\ UNCHANGED <<serverVars, queue, miss, answer, known>>

Closed(p) ==
    [k \in 1..Len(queue) |-> IF queue[k].from = p
                               THEN [queue[k] EXCEPT !.open = FALSE]
                               ELSE queue[k]]

\* The peer's process ends: its list is lost, what it sent is not.
Crash(p) ==
    /\ st[p] # "down"
    /\ st' = [st EXCEPT ![p] = "down"]
    /\ timer' = [timer EXCEPT ![p] = 1]
    /\ miss' = [miss EXCEPT ![p] = 0]
    /\ answer' = [answer EXCEPT ![p] = {}]
    /\ known' = [known EXCEPT ![p] = {}]
    /\ queue' = Closed(p)
    /\ UNCHANGED serverVars

\* The same, after connect and before send_all.
CrashConnected(p) ==
    /\ "cut" \in Faults
    /\ st[p] = "sleep" /\ timer[p] = 0
    /\ pc # "stopped" /\ Len(queue) < Backlog
    /\ queue' = Append(queue, [from |-> p, sent |-> FALSE, open |-> FALSE])
    /\ st' = [st EXCEPT ![p] = "down"]
    /\ timer' = [timer EXCEPT ![p] = 1]
    /\ miss' = [miss EXCEPT ![p] = 0]
    /\ known' = [known EXCEPT ![p] = {}]
    /\ UNCHANGED <<serverVars, answer>>

\* A new process takes a second or more to get here.
Restart(p) ==
    /\ st[p] = "down" /\ timer[p] = 0
    /\ st' = [st EXCEPT ![p] = "sleep"]
    /\ UNCHANGED <<serverVars, queue, timer, miss, answer, known>>

-----------------------------------------------------------------------------
(* The server's side.  Request is the connection being served.             *)

Request == Head(queue)

Resolves == {TRUE} \cup (IF "resolver" \in Faults THEN {FALSE} ELSE {})

\* close(conn_fd) without an answer: recv_all of the peer sees the end of the
\* stream, which it takes for 0 more bytes, and calls recv for ever.
CloseUnanswered ==
    /\ queue' = Tail(queue)
    /\ pc' = "idle"
    /\ st' = IF Request.open THEN [st EXCEPT ![Request.from] = "hung"] ELSE st
    /\ UNCHANGED <<timer, miss, answer, known>>

\* accept, the name of the client for the log, and the request.  A name that
\* cannot be resolved ends the server, a peer that sent nothing hangs it.
BootAccept ==
    /\ pc = "idle" /\ queue # <<>>
    /\ \E named \in Resolves :
         IF ~named THEN pc' = "stopped" /\ queue' = <<>>
         ELSE /\ pc' = IF Request.sent THEN "received" ELSE "hung"
              /\ UNCHANGED queue
    /\ UNCHANGED <<list, prev, node, peerVars>>

IsFirstEntry(k, p) ==
    list[k].addr = p /\ \A l \in 1..(k - 1) : list[l].addr # p

\* linked_list_find compares with an entry that was freed: undefined.
BootFindFreed ==
    /\ pc = "received"
    /\ \E k \in 1..Len(list) : list[k].freed
    /\ pc' = "broken"
    /\ UNCHANGED <<list, prev, node, queue, peerVars>>

\* A peer that is not listed is prepended.  When its name cannot be resolved
\* the new peer_info_t is freed and stays in the list.
BootPrepend ==
    /\ pc = "received"
    /\ \A k \in 1..Len(list) : ~list[k].freed /\ list[k].addr # Request.from
    /\ \E named \in Resolves :
         /\ list' = <<[addr |-> Request.from, age |-> 0, freed |-> ~named]>> \o list
         /\ IF named THEN pc' = "registered" /\ UNCHANGED <<queue, peerVars>>
            ELSE CloseUnanswered
    /\ UNCHANGED <<prev, node>>

\* Mutant: a registration does not refresh last_connected.
BootUpdateNoRefresh ==
    /\ pc = "received"
    /\ \A k \in 1..Len(list) : ~list[k].freed
    /\ \E k \in 1..Len(list), named \in Resolves :
         /\ IsFirstEntry(k, Request.from)
         /\ IF named THEN pc' = "registered" /\ UNCHANGED <<queue, peerVars>>
            ELSE CloseUnanswered
    /\ UNCHANGED <<list, prev, node>>

\* A listed peer gets the time of this request.
BootUpdate ==
    /\ pc = "received"
    /\ \A k \in 1..Len(list) : ~list[k].freed
    /\ \E k \in 1..Len(list), named \in Resolves :
         /\ IsFirstEntry(k, Request.from)
         /\ list' = [list EXCEPT ![k].age = 0]
         /\ IF named THEN pc' = "registered" /\ UNCHANGED <<queue, peerVars>>
            ELSE CloseUnanswered
    /\ UNCHANGED <<prev, node>>

BootPruneStart ==
    /\ pc = "registered"
    /\ pc' = "prune" /\ prev' = 0 /\ node' = 1
    /\ UNCHANGED <<list, queue, peerVars>>

\* Mutant: one second too late, which the capped age never reaches.
ExpiredLate(e) == e.age > Keepalive + 1

Expired(e) == e.age > Keepalive

Without(l, k) ==
    [n \in 1..(Len(l) - 1) |-> IF n < k THEN l[n] ELSE l[n + 1]]

BootKeep ==
    /\ pc = "prune" /\ node <= Len(list) /\ ~Expired(list[node])
    /\ prev' = node /\ node' = node + 1
    /\ UNCHANGED <<list, pc, queue, peerVars>>

\* Mutant: moves on as if the removed node had been kept.
BootRemoveSkips ==
    /\ pc = "prune" /\ node <= Len(list) /\ Expired(list[node])
    /\ list' = Without(list, node)
    /\ \E named \in Resolves :
         IF named THEN /\ prev' = node /\ node' = node + 1
                       /\ UNCHANGED <<pc, queue, peerVars>>
         ELSE UNCHANGED <<prev, node>> /\ CloseUnanswered

\* An expired entry is unlinked.  The loop then goes back to prev and on to
\* the entry after it, or to the head.
BootRemove ==
    /\ pc = "prune" /\ node <= Len(list) /\ Expired(list[node])
    /\ list' = Without(list, node)
    /\ \E named \in Resolves :
         IF named
           THEN node' = prev + 1 /\ UNCHANGED <<pc, prev, queue, peerVars>>
           ELSE UNCHANGED <<prev, node>> /\ CloseUnanswered

Replying == pc = "prune" /\ node > Len(list)

\* Mutant: goes through the list again after it was sent.
BootReplyAgain ==
    /\ Replying
    /\ queue' = Tail(queue) /\ pc' = "registered"
    /\ UNCHANGED <<list, prev, node, peerVars>>

\* The whole list is sent, the requesting peer included.
BootReply ==
    /\ Replying
    /\ queue' = Tail(queue) /\ pc' = "idle"
    /\ IF Request.open
         THEN /\ st' = [st EXCEPT ![Request.from] = "answered"]
              /\ answer' = [answer EXCEPT ![Request.from] = Addrs(list)]
         ELSE UNCHANGED <<st, answer>>
    /\ UNCHANGED <<list, prev, node, timer, miss, known>>

-----------------------------------------------------------------------------
Older(e) == [e EXCEPT !.age = IF @ <= Keepalive THEN @ + 1 ELSE @]

Due(p) ==
    \/ st[p] = "sleep" /\ timer[p] = 0
        /\ (Working \/ pc = "stopped" \/ Len(queue) < Backlog)
    \/ st[p] = "waiting" /\ timer[p] = 0 /\ Working
    \/ st[p] = "waiting" /\ pc = "stopped"
    \/ st[p] = "answered" /\ timer[p] = 0

Tick ==
    /\ pc # "prune" /\ \A p \in Peers : ~Due(p)
    /\ list' = [k \in 1..Len(list) |-> Older(list[k])]
    /\ timer' = [p \in Peers |-> IF timer[p] > 0 THEN timer[p] - 1 ELSE 0]
    /\ UNCHANGED <<pc, prev, node, queue, st, miss, answer, known>>

Peer(p) == Connect(p) \/ ConnectFails(p) \/ Receive(p) \/ Reset(p)

Boot ==
    \/ BootAccept \/ BootFindFreed \/ BootPrepend \/ BootUpdate
    \/ BootPruneStart \/ BootKeep \/ BootRemove \/ BootReply

Next ==
    \/ \E p \in Peers :
         \/ Connect(p) \/ ConnectFails(p) \/ Receive(p) \/ Reset(p)
         \/ Crash(p) \/ CrashConnected(p) \/ Restart(p)
    \/ BootAccept \/ BootFindFreed \/ BootPrepend \/ BootUpdate
    \/ BootPruneStart \/ BootKeep \/ BootRemove \/ BootReply
    \/ Tick

Spec == Init /\ [][Next]_vars

\* The threads keep running and the clock keeps counting.  A peer is not
\* required to restart.
FairSpec ==
    /\ Spec
    /\ WF_vars(Boot) /\ WF_vars(Tick)
    /\ \A p \in Peers : WF_vars(Peer(p))

-----------------------------------------------------------------------------
TypeOK ==
    /\ list \in Seq(Entry)
    /\ pc \in {"idle", "received", "registered", "prune",
               "hung", "broken", "stopped"}
    /\ prev \in Nat /\ node \in Nat \ {0}
    /\ queue \in Seq(Connection) /\ Len(queue) <= Backlog
    /\ pc \in {"received", "registered", "prune"} => queue # <<>>
    /\ st \in [Peers -> {"sleep", "waiting", "answered", "hung", "down"}]
    /\ timer \in [Peers -> Nat]
    /\ miss \in [Peers -> 0..MaxMisses]
    /\ answer \in [Peers -> SUBSET Peers]
    /\ known \in [Peers -> SUBSET Peers]

(* What is sent to a peer has no expired entry, although entries are removed *)
(* from the list while it is walked, and names no peer twice.               *)
ReplyFresh ==
    Replying => \A k, l \in 1..Len(list) :
                    /\ list[k].age <= Keepalive
                    /\ list[k].addr = list[l].addr => k = l

Live(p) == st[p] \in {"sleep", "waiting", "answered"}

(* A peer that has been answered and keeps running is in every list the      *)
(* server sends, whatever MaxMisses attempts it loses in a row.             *)
LivePeersListed ==
    Replying => \A p \in Peers :
        Live(p) /\ known[p] # {} => p \in Addrs(list)

(* Two peers that keep running find each other and stay in touch, although   *)
(* attempts are lost, other processes come and go, and a lookup that fails   *)
(* takes a request's answer away, as long as neither hangs in recv_all and   *)
(* the server goes on serving.                                              *)
PeersMeet ==
    \A p, q \in Peers :
        <>[](Live(p) /\ Live(q) /\ Working) => <>[](q \in known[p])

(* A peer that has ended for good is dropped from the list of every peer     *)
(* that runs, also when it ended in the middle of a request, as long as the  *)
(* server goes on serving.                                                  *)
DeadForgotten ==
    \A p, q \in Peers :
        <>[](Live(p) /\ st[q] = "down" /\ Working) => <>[](q \notin known[p])
=============================================================================
