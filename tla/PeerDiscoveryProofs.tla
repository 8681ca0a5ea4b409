------------------------ MODULE PeerDiscoveryProofs ------------------------
(***************************************************************************)
(* A running peer never leaves the bootstrap server's list, for any number *)
(* of peers and any timing that satisfies KeepaliveAssumption.             *)
(*                                                                         *)
(* The argument is a budget of seconds.  Limit(p) bounds the age that p's   *)
(* entry may have: at most Delay while the exchange that registered p is    *)
(* not over, then one Interval more for the sleep and one for every attempt *)
(* p loses, and Delay for the next exchange.  Whatever Tick adds to the age *)
(* it takes from the timer in the limit, every other step only keeps or     *)
(* raises the limit, or registers p anew.  No limit exceeds Keepalive, so   *)
(* the prune loop does not remove the entry.                               *)
(***************************************************************************)
EXTENDS PeerDiscovery, TLAPS

\* p is listed, with an age of at most lim.
InTime(l, p, lim) == \E k \in 1..Len(l) : l[k].addr = p /\ l[k].age <= lim

\* The request being served is p's, and it has been registered.
Served(p) ==
    /\ pc \in {"registered", "prune"}
    /\ Request.open /\ Request.from = p

Sleeps == (MaxMisses + 1) * Interval

Unused(p) == (MaxMisses - miss[p]) * Interval

Limit(p) ==
    IF st[p] = "sleep" THEN Delay + Sleeps - Unused(p) - timer[p]
    ELSE IF st[p] = "waiting" /\ ~Served(p) THEN 2 * Delay + Sleeps - timer[p]
    ELSE Delay - timer[p]

\* The peers whose entries must be in time.
Counted(p) ==
    \/ st[p] = "answered"
    \/ st[p] = "waiting" /\ (known[p] # {} \/ Served(p))
    \/ st[p] = "sleep" /\ known[p] # {}

TimeInv ==
    Working => \A p \in Peers : Counted(p) => InTime(list, p, Limit(p))

\* What holds of one peer: its timer, and that a peer that is down knows nobody.
PeerOK(p) ==
    /\ st[p] = "down" => known[p] = {}
    /\ st[p] = "sleep" => timer[p] <= Interval
    /\ st[p] \in {"waiting", "answered"} => timer[p] <= Delay

PeerInv == \A p \in Peers : PeerOK(p)

\* A connection that is open is the one its peer waits on.
QueueInv ==
    /\ \A k \in 1..Len(queue) : queue[k].open => st[queue[k].from] = "waiting"
    /\ \A k, l \in 1..Len(queue) :
         queue[k].open /\ queue[l].open /\ queue[k].from = queue[l].from => k = l
    /\ pc = "stopped" => queue = <<>>

LoopInv ==
    pc = "prune" => /\ node = prev + 1 /\ node <= Len(list) + 1
                    /\ \A k \in 1..prev : list[k].age <= Keepalive

NoDuplicates ==
    \A k, l \in 1..Len(list) : list[k].addr = list[l].addr => k = l

Inv == TypeOK /\ PeerInv /\ QueueInv /\ LoopInv /\ NoDuplicates /\ TimeInv

-----------------------------------------------------------------------------
(* Sequences: the list and the queue after each operation on them.         *)

\* What the type of the list says of one entry.
LEMMA EntryFields ==
    ASSUME NEW l \in Seq(Entry), NEW k \in 1..Len(l)
    PROVE  /\ l[k] \in Entry /\ l[k].addr \in Peers
           /\ l[k].age \in Nat /\ l[k].age <= Keepalive + 1
<1>1. l[k] \in Entry
  OBVIOUS
<1>2. QED
  BY <1>1, DiscoveryAssumption DEF Entry

\* The peer_info_t made for a request is an entry.
LEMMA NewEntry ==
    ASSUME NEW p \in Peers, NEW b \in BOOLEAN
    PROVE  [addr |-> p, age |-> 0, freed |-> b] \in Entry
BY DiscoveryAssumption DEF Entry

\* linked_list_prepend
LEMMA PrependList ==
    ASSUME NEW l \in Seq(Entry), NEW e \in Entry
    PROVE  /\ <<e>> \o l \in Seq(Entry)
           /\ Len(<<e>> \o l) = Len(l) + 1
           /\ (<<e>> \o l)[1] = e
           /\ \A k \in 1..Len(l) : (<<e>> \o l)[k + 1] = l[k]
OBVIOUS

\* An entry whose age is set.
LEMMA SetAge ==
    ASSUME NEW l \in Seq(Entry), NEW k \in 1..Len(l)
    PROVE  LET m == [l EXCEPT ![k].age = 0] IN
           /\ m \in Seq(Entry) /\ Len(m) = Len(l)
           /\ m[k].age = 0
           /\ \A n \in 1..Len(l) : m[n].addr = l[n].addr /\ (n # k => m[n] = l[n])
<1> DEFINE m == [l EXCEPT ![k].age = 0]
<1>1. l[k] \in Entry
  OBVIOUS
<1>2. /\ [l[k] EXCEPT !.age = 0] \in Entry
      /\ [l[k] EXCEPT !.age = 0].age = 0
      /\ [l[k] EXCEPT !.age = 0].addr = l[k].addr
  BY <1>1, DiscoveryAssumption, SMTT(30) DEF Entry
<1>3. m = [l EXCEPT ![k] = [l[k] EXCEPT !.age = 0]]
  OBVIOUS
<1> HIDE DEF m
<1>4. /\ m \in Seq(Entry) /\ Len(m) = Len(l) /\ m[k] = [l[k] EXCEPT !.age = 0]
      /\ \A n \in 1..Len(l) : n # k => m[n] = l[n]
  BY <1>2, <1>3
<1>5. QED
  BY <1>2, <1>4 DEF m

\* The prune loop's unlinking.
LEMMA WithoutList ==
    ASSUME NEW l \in Seq(Entry), NEW k \in 1..Len(l)
    PROVE  /\ Without(l, k) \in Seq(Entry)
           /\ Len(Without(l, k)) = Len(l) - 1
           /\ \A n \in 1..(Len(l) - 1) :
                Without(l, k)[n] = IF n < k THEN l[n] ELSE l[n + 1]
<1>1. Len(l) - 1 \in Nat
  OBVIOUS
<1>2. \A n \in 1..(Len(l) - 1) : (IF n < k THEN l[n] ELSE l[n + 1]) \in Entry
  OBVIOUS
<1>3. QED
  BY <1>1, <1>2 DEF Without

\* A second passes.
LEMMA OlderEntry ==
    ASSUME NEW e \in Entry
    PROVE  /\ Older(e) \in Entry /\ Older(e).addr = e.addr
           /\ Older(e).age <= e.age + 1
           /\ e.age \in Nat /\ Older(e).age \in Nat
BY DiscoveryAssumption DEF Entry, Older

\* The whole list when a second passes.
LEMMA OlderList ==
    ASSUME NEW l \in Seq(Entry)
    PROVE  LET m == [k \in 1..Len(l) |-> Older(l[k])] IN
           /\ m \in Seq(Entry) /\ Len(m) = Len(l)
           /\ \A k \in 1..Len(l) : m[k] = Older(l[k])
<1>1. \A k \in 1..Len(l) : Older(l[k]) \in Entry
  BY OlderEntry
<1>2. QED
  BY <1>1

\* The connections that peers make are connections.
LEMMA NewConnection ==
    ASSUME NEW p \in Peers, NEW b \in BOOLEAN, NEW c \in BOOLEAN
    PROVE  [from |-> p, sent |-> b, open |-> c] \in Connection
BY DEF Connection

\* What the type of the queue says of one connection.
LEMMA ConnectionFields ==
    ASSUME NEW q \in Seq(Connection), NEW k \in 1..Len(q)
    PROVE  q[k] \in Connection /\ q[k].from \in Peers /\ q[k].open \in BOOLEAN
<1>1. q[k] \in Connection
  OBVIOUS
<1>2. QED
  BY <1>1 DEF Connection

\* The connections of a peer that has ended.
LEMMA ClosedQueue ==
    ASSUME NEW p \in Peers, queue \in Seq(Connection)
    PROVE  /\ Closed(p) \in Seq(Connection) /\ Len(Closed(p)) = Len(queue)
           /\ \A k \in 1..Len(queue) :
                /\ Closed(p)[k].from = queue[k].from
                /\ Closed(p)[k].open = (queue[k].open /\ queue[k].from # p)
<1>1. ASSUME NEW c \in Connection
      PROVE  /\ [c EXCEPT !.open = FALSE] \in Connection
             /\ [c EXCEPT !.open = FALSE].from = c.from
             /\ [c EXCEPT !.open = FALSE].open = FALSE
             /\ c.open \in BOOLEAN
  BY DEF Connection
<1>2. \A k \in 1..Len(queue) : queue[k] \in Connection
  OBVIOUS
<1> DEFINE F(k) == IF queue[k].from = p THEN [queue[k] EXCEPT !.open = FALSE]
                                        ELSE queue[k]
<1>3. \A k \in 1..Len(queue) :
        /\ F(k) \in Connection /\ F(k).from = queue[k].from
        /\ F(k).open = (queue[k].open /\ queue[k].from # p)
  <2> TAKE k \in 1..Len(queue)
  <2>1. CASE queue[k].from = p
    BY <1>1, <1>2, <2>1
  <2>2. CASE queue[k].from # p
    BY <1>1, <1>2, <2>2
  <2>3. QED
    BY <2>1, <2>2
<1>4. Closed(p) = [k \in 1..Len(queue) |-> F(k)]
  BY DEF Closed
<1> HIDE DEF F
<1>5. QED
  BY <1>3, <1>4

\* The connection being served, and the queue without it.
LEMMA TailQueue ==
    ASSUME queue \in Seq(Connection), queue # <<>>
    PROVE  /\ Request \in Connection /\ Request = queue[1]
           /\ Request.from \in Peers /\ Request.open \in BOOLEAN
           /\ 1 \in 1..Len(queue)
           /\ Tail(queue) \in Seq(Connection) /\ Len(Tail(queue)) = Len(queue) - 1
           /\ \A k \in 1..(Len(queue) - 1) : Tail(queue)[k] = queue[k + 1]
<1>1. 1 \in 1..Len(queue) /\ Request = queue[1]
  BY DEF Request
<1>2. QED
  BY <1>1, ConnectionFields

-----------------------------------------------------------------------------
(* Types.                                                                  *)

\* getnameinfo succeeds or fails.
LEMMA Outcome == Resolves \subseteq BOOLEAN
BY DEF Resolves

\* The peers after a request was closed without an answer.
LEMMA CloseTypes ==
    ASSUME TypeOK, queue # <<>>, CloseUnanswered
    PROVE  /\ queue' \in Seq(Connection) /\ Len(queue') <= Backlog
           /\ st' \in [Peers -> {"sleep", "waiting", "answered", "hung", "down"}]
           /\ timer' = timer /\ miss' = miss /\ answer' = answer /\ known' = known
           /\ pc' = "idle"
<1>1. /\ Request.from \in Peers /\ Tail(queue) \in Seq(Connection)
      /\ Len(Tail(queue)) = Len(queue) - 1
  BY TailQueue DEF TypeOK
<1>2. QED
  BY <1>1, DiscoveryAssumption DEF TypeOK, CloseUnanswered

\* Types hold at the start.
LEMMA InitTypes == Init => TypeOK
<1>1. <<>> \in Seq(Entry) /\ <<>> \in Seq(Connection) /\ Len(<<>>) = 0
  OBVIOUS
<1>2. QED
  BY <1>1, DiscoveryAssumption DEF Init, TypeOK

\* Every step preserves the types.
LEMMA TypeStep == TypeOK /\ [Next]_vars => TypeOK'
<1> SUFFICES ASSUME TypeOK, [Next]_vars PROVE TypeOK'
  OBVIOUS
<1>a. /\ queue \in Seq(Connection) /\ list \in Seq(Entry)
      /\ Len(queue) \in Nat /\ Len(list) \in Nat
  BY DEF TypeOK
<1>1. ASSUME NEW p \in Peers, Connect(p) PROVE TypeOK'
  <2>1. [from |-> p, sent |-> TRUE, open |-> TRUE] \in Connection
    BY NewConnection
  <2>2. queue' \in Seq(Connection) /\ Len(queue') = Len(queue) + 1 /\ queue' # <<>>
    BY <1>a, <1>1, <2>1 DEF Connect
  <2>3. QED
    BY <1>1, <1>a, <2>2, DiscoveryAssumption DEF Connect, TypeOK, serverVars
<1>2. ASSUME NEW p \in Peers, ConnectFails(p) PROVE TypeOK'
  BY <1>2, DiscoveryAssumption DEF ConnectFails, TypeOK, serverVars
<1>3. ASSUME NEW p \in Peers, Receive(p) PROVE TypeOK'
  BY <1>3, DiscoveryAssumption DEF Receive, TypeOK, serverVars
<1>4. ASSUME NEW p \in Peers, Reset(p) PROVE TypeOK'
  BY <1>4, DiscoveryAssumption DEF Reset, TypeOK, serverVars
<1>5. ASSUME NEW p \in Peers, Crash(p) PROVE TypeOK'
  <2>1. Closed(p) \in Seq(Connection) /\ Len(Closed(p)) = Len(queue)
    BY <1>a, ClosedQueue
  <2>2. queue' # <<>> \/ queue = <<>>
    BY <1>5, <1>a, <2>1 DEF Crash
  <2>3. QED
    BY <1>5, <2>1, <2>2, DiscoveryAssumption DEF Crash, TypeOK, serverVars
<1>6. ASSUME NEW p \in Peers, CrashConnected(p) PROVE TypeOK'
  <2>1. [from |-> p, sent |-> FALSE, open |-> FALSE] \in Connection
    BY NewConnection
  <2>2. queue' \in Seq(Connection) /\ Len(queue') = Len(queue) + 1 /\ queue' # <<>>
    <3> DEFINE c == [from |-> p, sent |-> FALSE, open |-> FALSE]
    <3>1. queue' = Append(queue, c) /\ c \in Connection
      BY <1>6, <2>1 DEF CrashConnected
    <3> HIDE DEF c
    <3>2. QED
      BY <1>a, <3>1
  <2>3. QED
    BY <1>6, <1>a, <2>2, DiscoveryAssumption DEF CrashConnected, TypeOK, serverVars
<1>7. ASSUME NEW p \in Peers, Restart(p) PROVE TypeOK'
  BY <1>7 DEF Restart, TypeOK, serverVars
<1>8. CASE BootAccept
  <2>1. \/ pc' = "stopped" /\ queue' = <<>>
        \/ pc' \in {"received", "hung"} /\ queue' = queue /\ queue # <<>>
    BY <1>8 DEF BootAccept
  <2>2. queue' \in Seq(Connection) /\ Len(queue') <= Backlog
    <3>1. <<>> \in Seq(Connection) /\ Len(<<>>) = 0
      OBVIOUS
    <3>2. 0 <= Backlog
      BY DiscoveryAssumption
    <3>3. Len(queue) <= Backlog /\ queue \in Seq(Connection)
      BY DEF TypeOK
    <3>4. QED
      BY <2>1, <3>1, <3>2, <3>3
  <2>3. QED
    BY <1>8, <2>1, <2>2 DEF BootAccept, TypeOK, peerVars
<1>9. CASE BootFindFreed
  BY <1>9 DEF BootFindFreed, TypeOK, peerVars
<1>10. CASE BootPrepend
  <2>1. queue # <<>> /\ Request.from \in Peers
    BY <1>10, TailQueue DEF BootPrepend, TypeOK
  <2>2. PICK named \in Resolves :
          /\ list' = <<[addr |-> Request.from, age |-> 0, freed |-> ~named]>> \o list
          /\ IF named THEN pc' = "registered" /\ UNCHANGED <<queue, peerVars>>
             ELSE CloseUnanswered
    BY <1>10 DEF BootPrepend
  <2>3. list' \in Seq(Entry)
    <3>1. [addr |-> Request.from, age |-> 0, freed |-> ~named] \in Entry
      BY <2>1, NewEntry
    <3>2. QED
      BY <1>a, <2>2, <3>1, PrependList
  <2>4. CASE named
    BY <1>10, <2>1, <2>2, <2>3, <2>4 DEF BootPrepend, TypeOK, peerVars
  <2>5. CASE ~named
    BY <1>10, <2>1, <2>2, <2>3, <2>5, CloseTypes DEF BootPrepend, TypeOK
  <2>6. QED
    BY <2>4, <2>5
<1>11. CASE BootUpdate
  <2>1. queue # <<>>
    BY <1>11 DEF BootUpdate, TypeOK
  <2>2. PICK k \in 1..Len(list), named \in Resolves :
          /\ list' = [list EXCEPT ![k].age = 0]
          /\ IF named THEN pc' = "registered" /\ UNCHANGED <<queue, peerVars>>
             ELSE CloseUnanswered
    BY <1>11 DEF BootUpdate
  <2>3. list' \in Seq(Entry)
    BY <1>a, <2>2, SetAge
  <2>4. CASE named
    BY <1>11, <2>1, <2>2, <2>3, <2>4 DEF BootUpdate, TypeOK, peerVars
  <2>5. CASE ~named
    BY <1>11, <2>1, <2>2, <2>3, <2>5, CloseTypes DEF BootUpdate, TypeOK
  <2>6. QED
    BY <2>4, <2>5
<1>12. CASE BootPruneStart
  BY <1>12 DEF BootPruneStart, TypeOK, peerVars
<1>13. CASE BootKeep
  BY <1>13 DEF BootKeep, TypeOK, peerVars
<1>14. CASE BootRemove
  <2>1. queue # <<>> /\ node \in 1..Len(list)
    BY <1>14, <1>a DEF BootRemove, TypeOK
  <2>2. PICK named \in Resolves :
          IF named
            THEN node' = prev + 1 /\ UNCHANGED <<pc, prev, queue, peerVars>>
            ELSE UNCHANGED <<prev, node>> /\ CloseUnanswered
    BY <1>14 DEF BootRemove
  <2>3. list' \in Seq(Entry)
    BY <1>14, <1>a, <2>1, WithoutList DEF BootRemove
  <2>4. CASE named
    BY <2>1, <2>2, <2>3, <2>4 DEF TypeOK, peerVars
  <2>5. CASE ~named
    BY <2>1, <2>2, <2>3, <2>5, CloseTypes DEF TypeOK
  <2>6. QED
    BY <2>4, <2>5
<1>15. CASE BootReply
  <2>1. /\ queue # <<>> /\ Request.from \in Peers
        /\ Tail(queue) \in Seq(Connection) /\ Len(Tail(queue)) = Len(queue) - 1
    BY <1>15, <1>a, TailQueue DEF BootReply, Replying, TypeOK
  <2>2. Addrs(list) \in SUBSET Peers
    BY <1>a, EntryFields DEF Addrs
  <2>3. /\ st' \in [Peers -> {"sleep", "waiting", "answered", "hung", "down"}]
        /\ answer' \in [Peers -> SUBSET Peers]
    BY <1>15, <2>1, <2>2, ZenonT(60) DEF BootReply, TypeOK
  <2>4. queue' \in Seq(Connection) /\ Len(queue') <= Backlog
    BY <1>15, <1>a, <2>1, DiscoveryAssumption DEF BootReply, TypeOK
  <2>5. QED
    BY <1>15, <2>3, <2>4 DEF BootReply, TypeOK
<1>16. CASE Tick
  <2>1. list' \in Seq(Entry)
    BY <1>16, <1>a, OlderList DEF Tick
  <2>2. timer' \in [Peers -> Nat]
    BY <1>16 DEF Tick, TypeOK
  <2>3. QED
    BY <1>16, <2>1, <2>2 DEF Tick, TypeOK
<1>17. CASE UNCHANGED vars
  BY <1>17 DEF vars, TypeOK
<1>18. QED
  BY <1>1, <1>2, <1>3, <1>4, <1>5, <1>6, <1>7, <1>8, <1>9, <1>10, <1>11, <1>12,
     <1>13, <1>14, <1>15, <1>16, <1>17 DEF Next

\* Every reachable state of the peers and the bootstrap server is well typed:
\* a request is at hand in every step of the handler.
THEOREM DiscoveryTypeCorrect == Spec => []TypeOK
BY InitTypes, TypeStep, PTL DEF Spec

-----------------------------------------------------------------------------
(* Connections.                                                            *)

\* The served connection is closed, and its peer is told so if it is there.
LEMMA CloseFirst ==
    ASSUME TypeOK, QueueInv, queue # <<>>, NEW x,
           queue' = Tail(queue), pc' # "stopped",
           st' = IF Request.open THEN [st EXCEPT ![Request.from] = x] ELSE st
    PROVE  QueueInv'
<1>1. /\ Request = queue[1] /\ Request.from \in Peers /\ 1 \in 1..Len(queue)
      /\ Len(queue') = Len(queue) - 1
      /\ \A k \in 1..Len(queue') : queue'[k] = queue[k + 1]
      /\ Len(queue) \in Nat /\ queue \in Seq(Connection)
  BY TailQueue DEF TypeOK
<1>2. ASSUME NEW k \in 1..Len(queue'), queue'[k].open
      PROVE  st'[queue'[k].from] = "waiting"
  <2>1. k + 1 \in 1..Len(queue) /\ k + 1 # 1 /\ queue'[k] = queue[k + 1]
    BY <1>1
  <2>2. st[queue[k + 1].from] = "waiting" /\ queue[k + 1].from \in Peers
    BY <1>1, <1>2, <2>1, ConnectionFields DEF QueueInv
  <2>3. CASE Request.open
    <3>1. queue[k + 1].from # Request.from
      BY <1>1, <1>2, <2>1, <2>3 DEF QueueInv
    <3>2. QED
      BY <1>1, <2>1, <2>2, <2>3, <3>1 DEF TypeOK
  <2>4. CASE ~Request.open
    BY <2>1, <2>2, <2>4
  <2>5. QED
    BY <2>3, <2>4
<1>3. ASSUME NEW k \in 1..Len(queue'), NEW l \in 1..Len(queue'),
             queue'[k].open, queue'[l].open, queue'[k].from = queue'[l].from
      PROVE  k = l
  <2>1. /\ k + 1 \in 1..Len(queue) /\ queue'[k] = queue[k + 1]
        /\ l + 1 \in 1..Len(queue) /\ queue'[l] = queue[l + 1]
    BY <1>1
  <2>2. k + 1 = l + 1
    BY <1>3, <2>1 DEF QueueInv
  <2>3. QED
    BY <1>1, <2>2
<1>4. QED
  BY <1>2, <1>3 DEF QueueInv

\* A peer that does not wait changes what it does: no connection is its own.
LEMMA OtherPeerStep ==
    ASSUME TypeOK, QueueInv, NEW p \in Peers, st[p] # "waiting",
           NEW x, st' = [st EXCEPT ![p] = x], queue' = queue, pc' = pc
    PROVE  QueueInv'
<1>1. \A k \in 1..Len(queue) : queue[k].from \in Peers
  BY ConnectionFields DEF TypeOK
<1>2. \A k \in 1..Len(queue) : queue[k].open => st'[queue[k].from] = "waiting"
  BY <1>1 DEF QueueInv, TypeOK
<1>3. QED
  BY <1>2 DEF QueueInv

\* Every step preserves QueueInv.
LEMMA QueueStep == TypeOK /\ QueueInv /\ [Next]_vars => QueueInv'
<1> SUFFICES ASSUME TypeOK, QueueInv, [Next]_vars PROVE QueueInv'
  OBVIOUS
<1>a. queue \in Seq(Connection) /\ Len(queue) \in Nat
  BY DEF TypeOK
<1>b. \A k \in 1..Len(queue) : queue[k].from \in Peers
  BY <1>a, ConnectionFields
<1>c. ASSUME NEW c, queue' = Append(queue, c)
      PROVE  /\ Len(queue') = Len(queue) + 1 /\ queue'[Len(queue) + 1] = c
             /\ \A k \in 1..Len(queue) : queue'[k] = queue[k]
  BY <1>a, <1>c
<1>1. ASSUME NEW p \in Peers, Connect(p) PROVE QueueInv'
  <2> DEFINE c == [from |-> p, sent |-> TRUE, open |-> TRUE]
  <2>1. /\ c.from = p /\ queue' = Append(queue, c)
        /\ st[p] = "sleep" /\ st' = [st EXCEPT ![p] = "waiting"]
        /\ pc' = pc /\ pc # "stopped"
    BY <1>1 DEF Connect, serverVars
  <2> HIDE DEF c
  <2>2. \A k \in 1..Len(queue) :
          queue[k].open => queue[k].from # p /\ st'[queue[k].from] = "waiting"
    BY <1>b, <2>1 DEF QueueInv, TypeOK
  <2>3. st'[p] = "waiting"
    BY <2>1 DEF TypeOK
  <2>4. QED
    BY <1>a, <1>c, <2>1, <2>2, <2>3 DEF QueueInv
<1>2. ASSUME NEW p \in Peers, ConnectFails(p) PROVE QueueInv'
  BY <1>2 DEF ConnectFails, QueueInv, serverVars
<1>3. ASSUME NEW p \in Peers, Receive(p) PROVE QueueInv'
  BY <1>3, OtherPeerStep DEF Receive, serverVars
<1>4. ASSUME NEW p \in Peers, Reset(p) PROVE QueueInv'
  <2>1. queue = <<>> /\ queue' = <<>>
    BY <1>4 DEF Reset, QueueInv
  <2>2. QED
    BY <2>1 DEF QueueInv
<1>5. ASSUME NEW p \in Peers, Crash(p) PROVE QueueInv'
  <2>1. /\ Len(queue') = Len(queue)
        /\ \A k \in 1..Len(queue) :
             /\ queue'[k].from = queue[k].from
             /\ queue'[k].open = (queue[k].open /\ queue[k].from # p)
        /\ pc' = pc /\ st' = [st EXCEPT ![p] = "down"]
        /\ queue' \in Seq(Connection)
    BY <1>5, <1>a, ClosedQueue DEF Crash, serverVars
  <2>2. \A k \in 1..Len(queue') : queue'[k].open => st'[queue'[k].from] = "waiting"
    BY <1>b, <2>1 DEF QueueInv, TypeOK
  <2>3. pc' = "stopped" => queue' = <<>>
    <3>1. pc = "stopped" => Len(queue) = 0
      BY DEF QueueInv
    <3> DEFINE r == queue'
    <3>2. r \in Seq(Connection) /\ (pc = "stopped" => Len(r) = 0)
      BY <2>1, <3>1
    <3> HIDE DEF r
    <3>3. pc = "stopped" => r = <<>>
      BY <3>2
    <3>4. QED
      BY <2>1, <3>3 DEF r
  <2>4. \A k, l \in 1..Len(queue') :
          queue'[k].open /\ queue'[l].open /\ queue'[k].from = queue'[l].from => k = l
    <3>1. \A k, l \in 1..Len(queue) :
            queue[k].open /\ queue[l].open /\ queue[k].from = queue[l].from => k = l
      BY DEF QueueInv
    <3>2. QED
      BY <2>1, <3>1
  <2>5. QED
    BY <2>2, <2>3, <2>4 DEF QueueInv
<1>6. ASSUME NEW p \in Peers, CrashConnected(p) PROVE QueueInv'
  <2> DEFINE c == [from |-> p, sent |-> FALSE, open |-> FALSE]
  <2>1. /\ c.open = FALSE /\ queue' = Append(queue, c)
        /\ st[p] = "sleep" /\ st' = [st EXCEPT ![p] = "down"]
        /\ pc' = pc /\ pc # "stopped"
    BY <1>6 DEF CrashConnected, serverVars
  <2> HIDE DEF c
  <2>2. \A k \in 1..Len(queue) : queue[k].open => st'[queue[k].from] = "waiting"
    BY <1>b, <2>1 DEF QueueInv, TypeOK
  <2>3. QED
    BY <1>a, <1>c, <2>1, <2>2 DEF QueueInv
<1>7. ASSUME NEW p \in Peers, Restart(p) PROVE QueueInv'
  BY <1>7, OtherPeerStep DEF Restart, serverVars
<1>8. CASE BootAccept
  <2>1. /\ \/ pc' = "stopped" /\ queue' = <<>>
           \/ pc' # "stopped" /\ queue' = queue
        /\ st' = st
    BY <1>8 DEF BootAccept, peerVars
  <2>2. QED
    BY <2>1 DEF QueueInv
<1>9. CASE BootFindFreed
  BY <1>9 DEF BootFindFreed, QueueInv, peerVars
<1>10. CASE BootPrepend
  <2>1. queue # <<>>
    BY <1>10 DEF BootPrepend, TypeOK
  <2>2. \/ CloseUnanswered
        \/ pc' = "registered" /\ queue' = queue /\ st' = st
    BY <1>10 DEF BootPrepend, peerVars
  <2>3. CASE CloseUnanswered
    BY <2>1, <2>3, CloseFirst DEF CloseUnanswered
  <2>4. QED
    BY <2>2, <2>3 DEF QueueInv
<1>11. CASE BootUpdate
  <2>1. queue # <<>>
    BY <1>11 DEF BootUpdate, TypeOK
  <2>2. \/ CloseUnanswered
        \/ pc' = "registered" /\ queue' = queue /\ st' = st
    BY <1>11 DEF BootUpdate, peerVars
  <2>3. CASE CloseUnanswered
    BY <2>1, <2>3, CloseFirst DEF CloseUnanswered
  <2>4. QED
    BY <2>2, <2>3 DEF QueueInv
<1>12. CASE BootPruneStart
  BY <1>12 DEF BootPruneStart, QueueInv, peerVars
<1>13. CASE BootKeep
  BY <1>13 DEF BootKeep, QueueInv, peerVars
<1>14. CASE BootRemove
  <2>1. queue # <<>>
    BY <1>14 DEF BootRemove, TypeOK
  <2>2. \/ CloseUnanswered
        \/ pc' = pc /\ queue' = queue /\ st' = st
    BY <1>14 DEF BootRemove, peerVars
  <2>3. CASE CloseUnanswered
    BY <2>1, <2>3, CloseFirst DEF CloseUnanswered
  <2>4. QED
    BY <2>2, <2>3 DEF QueueInv
<1>15. CASE BootReply
  <2>1. /\ queue # <<>> /\ queue' = Tail(queue) /\ pc' = "idle"
        /\ st' = IF Request.open THEN [st EXCEPT ![Request.from] = "answered"] ELSE st
    BY <1>15 DEF BootReply, Replying, TypeOK
  <2>2. QED
    BY <2>1, CloseFirst
<1>16. CASE Tick
  BY <1>16 DEF Tick, QueueInv
<1>17. CASE UNCHANGED vars
  BY <1>17 DEF vars, QueueInv
<1>18. QED
  BY <1>1, <1>2, <1>3, <1>4, <1>5, <1>6, <1>7, <1>8, <1>9, <1>10, <1>11, <1>12,
     <1>13, <1>14, <1>15, <1>16, <1>17 DEF Next

-----------------------------------------------------------------------------
(* Peers.                                                                  *)

\* Every step preserves PeerInv.
LEMMA PeerStep == TypeOK /\ PeerInv /\ QueueInv /\ [Next]_vars => PeerInv'
<1> SUFFICES ASSUME TypeOK, PeerInv, QueueInv, [Next]_vars, NEW q \in Peers
             PROVE  PeerOK(q)'
  BY DEF PeerInv
<1>a. /\ timer[q] \in Nat /\ Interval \in Nat /\ Delay \in Nat
      /\ PeerOK(q)
      /\ st \in [Peers -> {"sleep", "waiting", "answered", "hung", "down"}]
      /\ timer \in [Peers -> Nat] /\ known \in [Peers -> SUBSET Peers]
  BY DiscoveryAssumption DEF TypeOK, PeerInv
<1>b. ASSUME CloseUnanswered
      PROVE  timer' = timer /\ known' = known /\ (st'[q] = st[q] \/ st'[q] = "hung")
  BY <1>a, <1>b DEF CloseUnanswered
<1>1. ASSUME NEW p \in Peers, Connect(p)
      PROVE  PeerOK(q)'
  BY <1>a, <1>1 DEF Connect, PeerOK
<1>2. ASSUME NEW p \in Peers, ConnectFails(p)
      PROVE  PeerOK(q)'
  BY <1>a, <1>2 DEF ConnectFails, PeerOK
<1>3. ASSUME NEW p \in Peers, Receive(p)
      PROVE  PeerOK(q)'
  BY <1>a, <1>3 DEF Receive, PeerOK
<1>4. ASSUME NEW p \in Peers, Reset(p)
      PROVE  PeerOK(q)'
  BY <1>a, <1>4 DEF Reset, PeerOK
<1>5. ASSUME NEW p \in Peers, Crash(p) \/ CrashConnected(p) \/ Restart(p)
      PROVE  PeerOK(q)'
  <2>1. CASE p = q
    BY <1>a, <1>5, <2>1 DEF Crash, CrashConnected, Restart, PeerOK
  <2>2. CASE p # q
    BY <1>a, <1>5, <2>2 DEF Crash, CrashConnected, Restart, PeerOK
  <2>3. QED
    BY <2>1, <2>2
<1>6. CASE \/ BootAccept \/ BootFindFreed \/ BootPruneStart \/ BootKeep
  <2>1. timer' = timer /\ st' = st /\ known' = known
    BY <1>6 DEF BootAccept, BootFindFreed, BootPruneStart, BootKeep, peerVars
  <2>2. QED
    BY <1>a, <2>1 DEF PeerOK
<1>7. CASE BootPrepend \/ BootUpdate \/ BootRemove
  <2>1. CloseUnanswered \/ (timer' = timer /\ st' = st /\ known' = known)
    BY <1>7 DEF BootPrepend, BootUpdate, BootRemove, peerVars
  <2>2. QED
    BY <1>a, <1>b, <2>1 DEF PeerOK
<1>8. CASE BootReply
  <2>1. /\ queue # <<>> /\ queue \in Seq(Connection)
    BY <1>8 DEF BootReply, Replying, TypeOK
  <2>2. Request.open => st[Request.from] = "waiting" /\ Request.from \in Peers
    BY <2>1, TailQueue DEF QueueInv
  <2>3. /\ timer' = timer /\ known' = known
        /\ st'[q] = st[q] \/ (st[q] = "waiting" /\ st'[q] = "answered")
    BY <1>a, <1>8, <2>2 DEF BootReply
  <2>4. QED
    BY <1>a, <2>3 DEF PeerOK
<1>9. CASE Tick
  BY <1>a, <1>9 DEF Tick, PeerOK
<1>10. CASE UNCHANGED vars
  BY <1>a, <1>10 DEF vars, PeerOK
<1>11. QED
  BY <1>1, <1>2, <1>3, <1>4, <1>5, <1>6, <1>7, <1>8, <1>9, <1>10 DEF Next

-----------------------------------------------------------------------------
(* The server's list.                                                      *)

\* Every step preserves the loop invariant and keeps addresses distinct.
LEMMA ListStep ==
    TypeOK /\ LoopInv /\ NoDuplicates /\ [Next]_vars => LoopInv' /\ NoDuplicates'
<1> SUFFICES ASSUME TypeOK, LoopInv, NoDuplicates, [Next]_vars
             PROVE  LoopInv' /\ NoDuplicates'
  OBVIOUS
<1>a. /\ list \in Seq(Entry) /\ Len(list) \in Nat
      /\ prev \in Nat /\ node \in Nat \ {0}
  BY DEF TypeOK
<1>1. ASSUME NEW p \in Peers,
             \/ Connect(p) \/ ConnectFails(p) \/ Receive(p) \/ Reset(p)
             \/ Crash(p) \/ CrashConnected(p) \/ Restart(p)
      PROVE  LoopInv' /\ NoDuplicates'
  <2>1. UNCHANGED serverVars
    BY <1>1 DEF Connect, ConnectFails, Receive, Reset, Crash, CrashConnected, Restart
  <2>2. QED
    BY <2>1 DEF serverVars, LoopInv, NoDuplicates
<1>2. CASE BootAccept \/ BootFindFreed
  <2>1. list' = list /\ pc' # "prune"
    BY <1>2 DEF BootAccept, BootFindFreed
  <2>2. QED
    BY <2>1 DEF LoopInv, NoDuplicates
<1>3. CASE BootPrepend
  <2>1. Request.from \in Peers
    BY <1>3, TailQueue DEF BootPrepend, TypeOK
  <2>2. PICK named \in Resolves :
          /\ list' = <<[addr |-> Request.from, age |-> 0, freed |-> ~named]>> \o list
          /\ pc' # "prune"
    BY <1>3 DEF BootPrepend, CloseUnanswered
  <2> DEFINE e == [addr |-> Request.from, age |-> 0, freed |-> ~named]
  <2>3. e \in Entry /\ e.addr = Request.from /\ list' = <<e>> \o list
    BY <2>1, <2>2, NewEntry
  <2> HIDE DEF e
  <2>4. /\ Len(list') = Len(list) + 1 /\ list'[1] = e
        /\ \A k \in 1..Len(list) : list'[k + 1] = list[k]
    BY <1>a, <2>3, PrependList
  <2>5. \A k \in 2..Len(list') : k - 1 \in 1..Len(list) /\ list'[k] = list[k - 1]
    <3>1. ASSUME NEW k \in 2..Len(list')
          PROVE  k - 1 \in 1..Len(list) /\ list'[k] = list[k - 1]
      <4>1. k - 1 \in 1..Len(list) /\ (k - 1) + 1 = k
        BY <1>a, <2>4
      <4>2. QED
        BY <2>4, <4>1
    <3>2. QED
      BY <3>1
  <2>6. \A k \in 1..Len(list) : list[k].addr # e.addr
    BY <1>3, <2>3 DEF BootPrepend
  <2>7. NoDuplicates'
    <3>1. SUFFICES ASSUME NEW k \in 1..Len(list'), NEW l \in 1..Len(list'),
                          list'[k].addr = list'[l].addr
                   PROVE  k = l
      BY DEF NoDuplicates
    <3>2. CASE k = 1 /\ l # 1
      <4>1. l \in 2..Len(list')
        BY <1>a, <2>4, <3>1, <3>2
      <4>2. l - 1 \in 1..Len(list) /\ list'[l] = list[l - 1]
        BY <2>5, <4>1
      <4>3. QED
        BY <2>4, <2>6, <3>1, <3>2, <4>2
    <3>3. CASE k # 1 /\ l = 1
      <4>1. k \in 2..Len(list')
        BY <1>a, <2>4, <3>1, <3>3
      <4>2. k - 1 \in 1..Len(list) /\ list'[k] = list[k - 1]
        BY <2>5, <4>1
      <4>3. QED
        BY <2>4, <2>6, <3>1, <3>3, <4>2
    <3>4. CASE k # 1 /\ l # 1
      <4>1. k \in 2..Len(list') /\ l \in 2..Len(list')
        BY <1>a, <2>4, <3>1, <3>4
      <4>2. k - 1 = l - 1
        BY <2>5, <3>1, <4>1 DEF NoDuplicates
      <4>3. QED
        BY <4>1, <4>2, <1>a, <2>4
    <3>5. QED
      BY <3>2, <3>3, <3>4
  <2>8. QED
    BY <2>2, <2>7 DEF LoopInv
<1>4. CASE BootUpdate
  <2>1. PICK k \in 1..Len(list) : list' = [list EXCEPT ![k].age = 0]
    BY <1>4 DEF BootUpdate
  <2>2. pc' # "prune"
    BY <1>4 DEF BootUpdate, CloseUnanswered
  <2>3. /\ Len(list') = Len(list)
        /\ \A n \in 1..Len(list) : list'[n].addr = list[n].addr
    BY <1>a, <2>1, SetAge
  <2>4. QED
    BY <2>2, <2>3 DEF LoopInv, NoDuplicates
<1>5. CASE BootPruneStart
  BY <1>5, <1>a DEF BootPruneStart, LoopInv, NoDuplicates
<1>6. CASE BootKeep
  <2>1. /\ pc = "prune" /\ pc' = pc /\ list' = list /\ node <= Len(list)
        /\ prev' = node /\ node' = node + 1 /\ ~(list[node].age > Keepalive)
    BY <1>6 DEF BootKeep, Expired
  <2>2. list[node].age \in Nat /\ Keepalive \in Nat
    BY <1>a, <2>1, EntryFields, DiscoveryAssumption
  <2>3. \A k \in 1..node : list[k].age <= Keepalive
    BY <1>a, <2>1, <2>2 DEF LoopInv
  <2>4. QED
    BY <1>a, <2>1, <2>3 DEF LoopInv, NoDuplicates
<1>7. CASE BootRemove
  <2>1. /\ pc = "prune" /\ node \in 1..Len(list) /\ list' = Without(list, node)
        /\ \/ pc' # "prune"
           \/ prev' = prev /\ node' = prev + 1
    BY <1>7, <1>a DEF BootRemove, CloseUnanswered
  <2>2. /\ Len(list') = Len(list) - 1
        /\ \A n \in 1..Len(list') :
             list'[n] = IF n < node THEN list[n] ELSE list[n + 1]
    BY <1>a, <2>1, WithoutList
  <2>3. LoopInv'
    BY <1>a, <2>1, <2>2 DEF LoopInv
  <2>4. NoDuplicates'
    <3>1. SUFFICES ASSUME NEW k \in 1..Len(list'), NEW l \in 1..Len(list'),
                          list'[k].addr = list'[l].addr
                   PROVE  k = l
      BY DEF NoDuplicates
    <3> DEFINE f(n) == IF n < node THEN n ELSE n + 1
    <3>2. f(k) \in 1..Len(list) /\ f(l) \in 1..Len(list)
      BY <1>a, <2>1, <2>2
    <3>3. list[f(k)].addr = list[f(l)].addr
      BY <2>2, <3>1
    <3>4. f(k) = f(l)
      BY <3>2, <3>3 DEF NoDuplicates
    <3>5. QED
      BY <1>a, <2>1, <2>2, <3>4
  <2>5. QED
    BY <2>3, <2>4
<1>8. CASE BootReply
  BY <1>8 DEF BootReply, LoopInv, NoDuplicates
<1>9. CASE Tick
  <2>1. pc' # "prune" /\ list' = [k \in 1..Len(list) |-> Older(list[k])]
    BY <1>9 DEF Tick
  <2>2. /\ Len(list') = Len(list)
        /\ \A k \in 1..Len(list) : list'[k].addr = list[k].addr
    BY <1>a, <2>1, OlderList, OlderEntry
  <2>3. QED
    BY <2>1, <2>2 DEF LoopInv, NoDuplicates
<1>10. CASE UNCHANGED vars
  BY <1>10 DEF vars, LoopInv, NoDuplicates
<1>11. QED
  BY <1>1, <1>2, <1>3, <1>4, <1>5, <1>6, <1>7, <1>8, <1>9, <1>10 DEF Next

-----------------------------------------------------------------------------
(* The budget of seconds.                                                  *)

\* A failed attempt uses up one Interval, a complete exchange restores all.
LEMMA Budget ==
    ASSUME NEW m \in 0..MaxMisses
    PROVE  /\ Sleeps \in Nat /\ (MaxMisses - m) * Interval \in Nat
           /\ (MaxMisses - m) * Interval + Interval <= Sleeps
           /\ m < MaxMisses => (MaxMisses - (m + 1)) * Interval
                                 = (MaxMisses - m) * Interval - Interval
           /\ (MaxMisses - 0) * Interval + Interval = Sleeps
<1>0. MaxMisses \in Nat /\ Interval \in Nat /\ m \in Nat /\ MaxMisses - m \in Nat
  BY DiscoveryAssumption
<1>1. \A a, b \in Nat : a * b \in Nat
  OBVIOUS
<1>2. \A a, b \in Nat : (a + 1) * b = a * b + b
  OBVIOUS
<1>3. (MaxMisses - m) * Interval + m * Interval = MaxMisses * Interval
  <2>1. \A a, b, c \in Nat : a * c + b * c = (a + b) * c
    OBVIOUS
  <2>2. (MaxMisses - m) + m = MaxMisses
    BY <1>0
  <2>3. QED
    BY <1>0, <2>1, <2>2
<1>4. Sleeps = MaxMisses * Interval + Interval
  BY <1>0, <1>2 DEF Sleeps
<1>5. (MaxMisses - m) * Interval \in Nat /\ m * Interval \in Nat
      /\ MaxMisses * Interval \in Nat
  BY <1>0, <1>1
<1>6. m < MaxMisses => (MaxMisses - (m + 1)) * Interval
                         = (MaxMisses - m) * Interval - Interval
  <2>1. SUFFICES ASSUME m < MaxMisses
                 PROVE  (MaxMisses - (m + 1)) * Interval
                          = (MaxMisses - m) * Interval - Interval
    OBVIOUS
  <2>2. /\ MaxMisses - (m + 1) \in Nat
        /\ (MaxMisses - (m + 1)) + 1 = MaxMisses - m
    BY <1>0, <2>1
  <2>3. (MaxMisses - m) * Interval = (MaxMisses - (m + 1)) * Interval + Interval
    BY <1>0, <1>2, <2>2
  <2>4. (MaxMisses - (m + 1)) * Interval \in Nat
    BY <1>0, <1>1, <2>2
  <2>5. QED
    BY <1>0, <1>5, <2>3, <2>4
<1>7. MaxMisses - 0 = MaxMisses
  BY <1>0
<1>8. QED
  BY <1>0, <1>3, <1>4, <1>5, <1>6, <1>7

\* A live peer's limit is between 0 and Keepalive.
LEMMA LimitRange ==
    ASSUME TypeOK, PeerInv, NEW p \in Peers, Live(p)
    PROVE  /\ Limit(p) \in Nat /\ Limit(p) <= Keepalive
           /\ timer[p] \in Nat /\ Sleeps \in Nat
<1>1. /\ Delay \in Nat /\ Interval \in Nat /\ Keepalive \in Nat
      /\ timer[p] \in Nat /\ miss[p] \in 0..MaxMisses
  BY DiscoveryAssumption DEF TypeOK
<1>2. Sleeps \in Nat /\ Unused(p) \in Nat /\ Unused(p) + Interval <= Sleeps
  BY <1>1, Budget DEF Unused
<1>3. 2 * Delay + Sleeps <= Keepalive
  BY KeepaliveAssumption DEF Sleeps
<1>4. PeerOK(p)
  BY DEF PeerInv
<1>5. CASE st[p] = "sleep"
  BY <1>1, <1>2, <1>3, <1>4, <1>5 DEF Limit, PeerOK
<1>6. CASE st[p] = "waiting"
  BY <1>1, <1>2, <1>3, <1>4, <1>6 DEF Limit, PeerOK
<1>7. CASE st[p] = "answered"
  BY <1>1, <1>2, <1>3, <1>4, <1>7 DEF Limit, PeerOK
<1>8. QED
  BY <1>5, <1>6, <1>7 DEF Live

\* Raising the limit.
LEMMA InTimeLater ==
    ASSUME NEW l \in Seq(Entry), NEW p, NEW a \in Int, NEW b \in Int,
           a <= b, InTime(l, p, a)
    PROVE  InTime(l, p, b)
<1>1. PICK k \in 1..Len(l) : l[k].addr = p /\ l[k].age <= a
  BY DEF InTime
<1>2. l[k].age <= b
  BY <1>1, EntryFields
<1>3. QED
  BY <1>1, <1>2 DEF InTime

\* A new entry in front: nobody else is lost, and the new peer is in time.
LEMMA InTimePrepend ==
    ASSUME NEW l \in Seq(Entry), NEW e \in Entry, NEW p, NEW a \in Nat
    PROVE  /\ InTime(l, p, a) => InTime(<<e>> \o l, p, a)
           /\ e.age = 0 => InTime(<<e>> \o l, e.addr, a)
<1> DEFINE m == <<e>> \o l
<1>1. /\ Len(m) = Len(l) + 1 /\ m[1] = e /\ Len(l) \in Nat
      /\ \A k \in 1..Len(l) : m[k + 1] = l[k]
  BY PrependList
<1> HIDE DEF m
<1>2. ASSUME NEW k \in 1..Len(l), l[k].addr = p, l[k].age <= a
      PROVE  InTime(m, p, a)
  <2>1. k + 1 \in 1..Len(m) /\ m[k + 1].addr = p /\ m[k + 1].age <= a
    BY <1>1, <1>2
  <2>2. QED
    BY <2>1 DEF InTime
<1>3. ASSUME e.age = 0 PROVE InTime(m, e.addr, a)
  <2>1. 1 \in 1..Len(m) /\ m[1].addr = e.addr /\ m[1].age <= a
    BY <1>1, <1>3
  <2>2. QED
    BY <2>1 DEF InTime
<1>4. InTime(l, p, a) => InTime(m, p, a)
  BY <1>2 DEF InTime
<1>5. QED
  BY <1>3, <1>4 DEF m

\* A refreshed entry: nobody else is lost, and its peer is in time.
LEMMA InTimeSetAge ==
    ASSUME NEW l \in Seq(Entry), NEW k \in 1..Len(l), NEW p, NEW a \in Nat
    PROVE  /\ InTime(l, p, a) => InTime([l EXCEPT ![k].age = 0], p, a)
           /\ InTime([l EXCEPT ![k].age = 0], l[k].addr, a)
<1> DEFINE m == [l EXCEPT ![k].age = 0]
<1>1. /\ Len(m) = Len(l) /\ m[k].age = 0
      /\ \A n \in 1..Len(l) : m[n].addr = l[n].addr /\ (n # k => m[n] = l[n])
  BY SetAge
<1> HIDE DEF m
<1>2. InTime(m, l[k].addr, a)
  <2>1. k \in 1..Len(m) /\ m[k].addr = l[k].addr /\ m[k].age <= a
    BY <1>1
  <2>2. QED
    BY <2>1 DEF InTime
<1>3. ASSUME NEW n \in 1..Len(l), l[n].addr = p, l[n].age <= a
      PROVE  InTime(m, p, a)
  <2>1. n \in 1..Len(m) /\ m[n].addr = p /\ m[n].age <= a
    BY <1>1, <1>3
  <2>2. QED
    BY <2>1 DEF InTime
<1>4. InTime(l, p, a) => InTime(m, p, a)
  BY <1>3 DEF InTime
<1>5. QED
  BY <1>2, <1>4 DEF m

\* The prune loop removes nobody who is in time.
LEMMA InTimeWithout ==
    ASSUME NEW l \in Seq(Entry), NEW k \in 1..Len(l), Expired(l[k]),
           NEW p, NEW a \in Nat, a <= Keepalive, InTime(l, p, a)
    PROVE  InTime(Without(l, k), p, a)
<1> DEFINE m == Without(l, k)
<1>0. Len(l) \in Nat
  OBVIOUS
<1>1. /\ Len(m) = Len(l) - 1 /\ Len(l) \in Nat
      /\ \A n \in 1..(Len(l) - 1) : m[n] = IF n < k THEN l[n] ELSE l[n + 1]
  BY <1>0, WithoutList, Zenon
<1> HIDE DEF m
<1>2. PICK n \in 1..Len(l) : l[n].addr = p /\ l[n].age <= a
  BY DEF InTime
<1>3. n # k
  BY <1>2, EntryFields, DiscoveryAssumption DEF Expired
<1>4. CASE n < k
  <2>1. n \in 1..Len(m) /\ m[n] = l[n]
    BY <1>1, <1>4
  <2>2. QED
    BY <1>2, <2>1 DEF InTime, m
<1>5. CASE n > k
  <2>1. n - 1 \in 1..(Len(l) - 1) /\ ~(n - 1 < k) /\ (n - 1) + 1 = n
    BY <1>1, <1>5
  <2>2. n - 1 \in 1..Len(m) /\ m[n - 1] = l[n]
    BY <1>1, <2>1
  <2>3. QED
    BY <1>2, <2>2 DEF InTime, m
<1>6. QED
  BY <1>3, <1>4, <1>5

\* A second passes, and limits grow by one.
LEMMA InTimeOlder ==
    ASSUME NEW l \in Seq(Entry), NEW p, NEW a \in Nat, InTime(l, p, a)
    PROVE  InTime([k \in 1..Len(l) |-> Older(l[k])], p, a + 1)
<1> DEFINE m == [k \in 1..Len(l) |-> Older(l[k])]
<1>1. Len(m) = Len(l) /\ \A k \in 1..Len(l) : m[k] = Older(l[k])
  BY OlderList
<1> HIDE DEF m
<1>2. PICK n \in 1..Len(l) : l[n].addr = p /\ l[n].age <= a
  BY DEF InTime
<1>3. l[n] \in Entry
  BY EntryFields
<1>4. n \in 1..Len(m) /\ m[n].addr = p /\ m[n].age <= a + 1
  BY <1>1, <1>2, <1>3, OlderEntry
<1>5. QED
  BY <1>4 DEF InTime, m

\* A peer of which nothing changes keeps its limit.
LEMMA SameLimit ==
    ASSUME NEW q \in Peers, st'[q] = st[q], timer'[q] = timer[q],
           miss'[q] = miss[q], known'[q] = known[q], Served(q)' = Served(q)
    PROVE  Limit(q)' = Limit(q) /\ Counted(q)' = Counted(q)
BY DEF Limit, Counted, Unused

\* Nobody is served when the server is not past the registration.
LEMMA NotServed ==
    ASSUME NEW q, pc \notin {"registered", "prune"}
    PROVE  Served(q) = FALSE
BY DEF Served

\* The same after a step.
LEMMA NotServedNext ==
    ASSUME NEW q, pc' \notin {"registered", "prune"}
    PROVE  Served(q)' = FALSE
BY DEF Served

\* A peer whose connection is not the one being served, or that is gone.
LEMMA OnlyRequestServed ==
    ASSUME NEW q, ~(Request.open /\ Request.from = q)
    PROVE  Served(q) = FALSE
BY DEF Served

\* A new connection does not come first when a request is being served.
LEMMA AppendServed ==
    ASSUME TypeOK, NEW q \in Peers, NEW c, queue' = Append(queue, c), pc' = pc
    PROVE  Served(q)' = Served(q)
<1>1. CASE pc \in {"registered", "prune"}
  <2>1. queue # <<>> /\ queue \in Seq(Connection)
    BY <1>1 DEF TypeOK
  <2>2. Head(queue') = Head(queue)
    BY <2>1
  <2>3. QED
    BY <2>2 DEF Served, Request
<1>2. CASE pc \notin {"registered", "prune"}
  BY <1>2 DEF Served
<1>3. QED
  BY <1>1, <1>2

\* Only a waiting peer is served.
LEMMA ServedWaits ==
    ASSUME TypeOK, QueueInv, pc \in {"received", "registered", "prune"}
    PROVE  /\ queue # <<>> /\ queue \in Seq(Connection) /\ Request.from \in Peers
           /\ Request.open \in BOOLEAN
           /\ Request.open => st[Request.from] = "waiting"
<1>1. queue # <<>> /\ queue \in Seq(Connection)
  BY DEF TypeOK
<1>2. /\ Request = queue[1] /\ 1 \in 1..Len(queue) /\ Request.from \in Peers
      /\ Request.open \in BOOLEAN
  BY <1>1, TailQueue
<1>3. QED
  BY <1>1, <1>2 DEF QueueInv

\* TimeInv for one peer.
LEMMA InTimeOf ==
    ASSUME TimeInv, Working, NEW q \in Peers, Counted(q)
    PROVE  InTime(list, q, Limit(q)) /\ Live(q)
BY DEF TimeInv, Counted, Live

\* The peer's own steps.
LEMMA TimePeerStep ==
    ASSUME TypeOK, PeerInv, QueueInv, TimeInv, NEW p \in Peers,
           \/ Connect(p) \/ ConnectFails(p) \/ Receive(p) \/ Reset(p)
           \/ Crash(p) \/ CrashConnected(p) \/ Restart(p)
    PROVE  TimeInv'
<1> SUFFICES ASSUME Working', NEW q \in Peers, Counted(q)'
             PROVE  InTime(list', q, Limit(q)')
  BY DEF TimeInv
<1>a. list' = list /\ pc' = pc /\ list \in Seq(Entry)
  BY DEF Connect, ConnectFails, Receive, Reset, Crash, CrashConnected, Restart,
         serverVars, TypeOK
<1>b. Working
  BY <1>a DEF Working
<1>c. /\ st \in [Peers -> {"sleep", "waiting", "answered", "hung", "down"}]
      /\ timer \in [Peers -> Nat] /\ miss \in [Peers -> 0..MaxMisses]
      /\ known \in [Peers -> SUBSET Peers]
      /\ Delay \in Nat /\ Interval \in Nat /\ Delay - 0 = Delay
  BY DiscoveryAssumption DEF TypeOK
<1>d. /\ Sleeps \in Nat /\ Unused(p) \in Nat /\ Unused(p) + Interval <= Sleeps
      /\ miss[p] \in Nat /\ timer[p] \in Nat
      /\ miss[p] < MaxMisses => (MaxMisses - (miss[p] + 1)) * Interval
                                  = Unused(p) - Interval
      /\ (MaxMisses - 0) * Interval + Interval = Sleeps
      /\ (MaxMisses - 0) * Interval \in Nat
  <2>1. 0 \in 0..MaxMisses
    BY DiscoveryAssumption
  <2>2. QED
    BY <1>c, <2>1, Budget DEF Unused
<1>e. ASSUME st'[q] = st[q], timer'[q] = timer[q], miss'[q] = miss[q],
             known'[q] = known[q], Served(q)' = Served(q)
      PROVE  InTime(list', q, Limit(q)')
  BY <1>a, <1>b, <1>e, SameLimit, InTimeOf
<1>f. st[p] # "waiting" => Served(p) = FALSE
  BY ServedWaits DEF Served
<1>1. CASE Connect(p)
  <2>1. Served(q)' = Served(q)
    BY <1>1, <1>a, AppendServed DEF Connect
  <2>2. CASE q # p
    BY <1>1, <1>c, <1>e, <2>1, <2>2 DEF Connect
  <2>3. CASE q = p
    <3>1. /\ st[p] = "sleep" /\ timer[p] = 0 /\ known'[p] = known[p]
          /\ st'[p] = "waiting" /\ timer'[p] = Delay
      BY <1>1, <1>c DEF Connect
    <3>2. Served(p)' = FALSE
      BY <1>f, <2>1, <2>3, <3>1
    <3>3. Counted(p)
      BY <2>3, <3>1, <3>2 DEF Counted
    <3>4. InTime(list, p, Delay + Sleeps - Unused(p) - 0)
      BY <1>b, <3>1, <3>3, InTimeOf DEF Limit
    <3>5. Limit(p)' = 2 * Delay + Sleeps - Delay
      BY <3>1, <3>2 DEF Limit
    <3>6. QED
      BY <1>a, <1>c, <1>d, <2>3, <3>4, <3>5, InTimeLater
  <2>4. QED
    BY <2>2, <2>3
<1>2. CASE ConnectFails(p)
  <2>1. Served(q)' = Served(q)
    BY <1>2, <1>a DEF ConnectFails, Served, Request
  <2>2. CASE q # p
    BY <1>2, <1>c, <1>e, <2>1, <2>2 DEF ConnectFails
  <2>3. CASE q = p
    <3>1. /\ st[p] = "sleep" /\ timer[p] = 0 /\ known'[p] = known[p]
          /\ st'[p] = "sleep" /\ timer'[p] = Interval /\ miss[p] < MaxMisses
          /\ miss'[p] = miss[p] + 1
      BY <1>2, <1>b, <1>c DEF ConnectFails, Working
    <3>2. Counted(p)
      BY <2>3, <3>1 DEF Counted
    <3>3. InTime(list, p, Delay + Sleeps - Unused(p) - 0)
      BY <1>b, <3>1, <3>2, InTimeOf DEF Limit
    <3>4. Unused(p)' = Unused(p) - Interval
      BY <1>d, <3>1 DEF Unused
    <3>5. Limit(p)' = Delay + Sleeps - Unused(p)' - Interval
      BY <3>1 DEF Limit
    <3>6. Limit(p)' = Delay + Sleeps - Unused(p) - 0
      BY <1>c, <1>d, <3>4, <3>5
    <3>7. QED
      BY <1>a, <2>3, <3>3, <3>6
  <2>4. QED
    BY <2>2, <2>3
<1>3. CASE Receive(p)
  <2>1. Served(q)' = Served(q)
    BY <1>3, <1>a DEF Receive, Served, Request
  <2>2. CASE q # p
    BY <1>3, <1>c, <1>e, <2>1, <2>2 DEF Receive
  <2>3. CASE q = p
    <3>1. /\ st[p] = "answered" /\ st'[p] = "sleep" /\ timer'[p] = Interval
          /\ miss'[p] = 0
      BY <1>3, <1>c DEF Receive
    <3>2. InTime(list, p, Delay - timer[p])
      BY <1>b, <3>1, InTimeOf DEF Limit, Counted
    <3>3. Unused(p)' = (MaxMisses - 0) * Interval
      BY <3>1 DEF Unused
    <3>4. Limit(p)' = Delay + Sleeps - Unused(p)' - Interval
      BY <3>1 DEF Limit
    <3>5. Limit(p)' = Delay
      BY <1>c, <1>d, <3>3, <3>4
    <3>6. QED
      BY <1>a, <1>c, <1>d, <2>3, <3>2, <3>5, InTimeLater
  <2>4. QED
    BY <2>2, <2>3
<1>4. CASE Reset(p)
  BY <1>4, <1>b DEF Reset, Working
<1>5. CASE Crash(p)
  <2>1. CASE q = p
    BY <1>5, <1>c, <2>1 DEF Crash, Counted
  <2>2. CASE q # p
    <3>1. Served(q)' = Served(q)
      <4>1. CASE pc \in {"registered", "prune"}
        <5>1. queue # <<>> /\ queue \in Seq(Connection) /\ 1 \in 1..Len(queue)
          BY <4>1 DEF TypeOK
        <5>2. /\ Len(queue') = Len(queue) /\ queue' \in Seq(Connection)
              /\ queue'[1].from = queue[1].from
              /\ queue'[1].open = (queue[1].open /\ queue[1].from # p)
          BY <1>5, <5>1, ClosedQueue DEF Crash
        <5>3. Head(queue') = queue'[1] /\ Head(queue) = queue[1]
          BY <5>1, <5>2
        <5>4. queue[1].open \in BOOLEAN
          BY <5>1, ConnectionFields
        <5>5. QED
          BY <1>a, <2>2, <5>2, <5>3, <5>4 DEF Served, Request
      <4>2. CASE pc \notin {"registered", "prune"}
        BY <1>a, <4>2 DEF Served
      <4>3. QED
        BY <4>1, <4>2
    <3>2. QED
      BY <1>5, <1>c, <1>e, <2>2, <3>1 DEF Crash
  <2>3. QED
    BY <2>1, <2>2
<1>6. CASE CrashConnected(p)
  <2>1. CASE q = p
    BY <1>6, <1>c, <2>1 DEF CrashConnected, Counted
  <2>2. CASE q # p
    <3>1. Served(q)' = Served(q)
      BY <1>6, <1>a, AppendServed DEF CrashConnected
    <3>2. QED
      BY <1>6, <1>c, <1>e, <2>2, <3>1 DEF CrashConnected
  <2>3. QED
    BY <2>1, <2>2
<1>7. CASE Restart(p)
  <2>1. CASE q = p
    <3>1. st[p] = "down" /\ st'[p] = "sleep" /\ known'[p] = known[p]
      BY <1>7, <1>c DEF Restart
    <3>2. known[p] = {}
      BY <3>1 DEF PeerInv, PeerOK
    <3>3. QED
      BY <2>1, <3>1, <3>2 DEF Counted
  <2>2. CASE q # p
    <3>1. Served(q)' = Served(q)
      BY <1>7, <1>a DEF Restart, Served, Request
    <3>2. QED
      BY <1>7, <1>c, <1>e, <2>2, <3>1 DEF Restart
  <2>3. QED
    BY <2>1, <2>2
<1>8. QED
  BY <1>1, <1>2, <1>3, <1>4, <1>5, <1>6, <1>7

\* A request that is closed without an answer: its peer no longer counts.
LEMMA TimeClose ==
    ASSUME TypeOK, PeerInv, QueueInv, TimeInv, queue # <<>>,
           Working, pc \in {"received", "registered", "prune"}, CloseUnanswered,
           \A q \in Peers : \A a \in Nat :
               a <= Keepalive /\ InTime(list, q, a) => InTime(list', q, a)
    PROVE  TimeInv'
<1> SUFFICES ASSUME NEW q \in Peers, Counted(q)'
             PROVE  InTime(list', q, Limit(q)')
  BY DEF TimeInv
<1>1. /\ pc' = "idle" /\ timer' = timer /\ miss' = miss /\ known' = known
      /\ st' = IF Request.open THEN [st EXCEPT ![Request.from] = "hung"] ELSE st
      /\ st \in [Peers -> {"sleep", "waiting", "answered", "hung", "down"}]
  BY DEF CloseUnanswered, TypeOK
<1>2. ~(Request.open /\ Request.from = q)
  BY <1>1 DEF Counted
<1>3. st'[q] = st[q]
  BY <1>1, <1>2
<1>4. Served(q)' = FALSE /\ Served(q) = FALSE
  BY <1>1, <1>2, NotServedNext, OnlyRequestServed
<1>5. Limit(q)' = Limit(q) /\ Counted(q)
  BY <1>1, <1>3, <1>4, SameLimit
<1>6. InTime(list, q, Limit(q)) /\ Limit(q) \in Nat /\ Limit(q) <= Keepalive
  BY <1>5, InTimeOf, LimitRange
<1>7. QED
  BY <1>5, <1>6

\* A request that was registered: its peer gets a new age.
LEMMA TimeRegister ==
    ASSUME TypeOK, PeerInv, QueueInv, TimeInv,
           pc = "received", pc' = "registered", queue' = queue, UNCHANGED peerVars,
           \A q \in Peers : \A a \in Nat :
               a <= Keepalive /\ InTime(list, q, a) => InTime(list', q, a),
           \A a \in Nat : InTime(list', Request.from, a)
    PROVE  TimeInv'
<1> SUFFICES ASSUME NEW q \in Peers, Counted(q)'
             PROVE  InTime(list', q, Limit(q)')
  BY DEF TimeInv
<1>1. timer' = timer /\ miss' = miss /\ known' = known /\ st' = st
  BY DEF peerVars
<1>2. Request.open => st[Request.from] = "waiting"
  BY ServedWaits
<1>3. CASE Request.open /\ Request.from = q
  <2>1. Limit(q)' = Delay - timer[q]
    BY <1>1, <1>2, <1>3 DEF Limit, Served, Request
  <2>2. PeerOK(q) /\ Delay \in Nat /\ timer[q] \in Nat
    BY DiscoveryAssumption DEF TypeOK, PeerInv
  <2>3. Delay - timer[q] \in Nat
    BY <1>2, <1>3, <2>2 DEF PeerOK
  <2>4. QED
    BY <1>3, <2>1, <2>3
<1>4. CASE ~(Request.open /\ Request.from = q)
  <2>1. Served(q)' = FALSE /\ Served(q) = FALSE
    BY <1>4 DEF Served, Request
  <2>2. Limit(q)' = Limit(q) /\ Counted(q)
    BY <1>1, <2>1, SameLimit
  <2>3. InTime(list, q, Limit(q)) /\ Limit(q) \in Nat /\ Limit(q) <= Keepalive
    BY <2>2, InTimeOf, LimitRange DEF Working
  <2>4. QED
    BY <2>2, <2>3
<1>5. QED
  BY <1>3, <1>4

\* Steps that leave the list and the peers alone.
LEMMA TimeQuiet ==
    ASSUME TimeInv, Working, list' = list, UNCHANGED peerVars,
           \A q \in Peers : Served(q)' = Served(q)
    PROVE  TimeInv'
<1> SUFFICES ASSUME NEW q \in Peers, Counted(q)'
             PROVE  InTime(list', q, Limit(q)')
  BY DEF TimeInv
<1>1. timer' = timer /\ miss' = miss /\ known' = known /\ st' = st
  BY DEF peerVars
<1>2. Limit(q)' = Limit(q) /\ Counted(q)
  BY <1>1, SameLimit
<1>3. QED
  BY <1>2, InTimeOf

\* The steps of the server.
LEMMA TimeServerStep ==
    ASSUME TypeOK, PeerInv, QueueInv, TimeInv, Boot
    PROVE  TimeInv'
<1>a. list \in Seq(Entry) /\ Len(list) \in Nat
  BY DEF TypeOK
<1>1. CASE BootAccept
  <2>1. /\ pc = "idle" /\ pc' \in {"stopped", "received", "hung"}
        /\ list' = list /\ UNCHANGED peerVars
    BY <1>1 DEF BootAccept
  <2>2. \A q \in Peers : Served(q)' = Served(q)
    BY <2>1, NotServed, NotServedNext
  <2>3. QED
    BY <2>1, <2>2, TimeQuiet DEF Working
<1>2. CASE BootFindFreed
  BY <1>2 DEF BootFindFreed, TimeInv, Working
<1>3. CASE BootPrepend
  <2>1. pc = "received" /\ queue # <<>> /\ Request.from \in Peers
    BY <1>3, ServedWaits DEF BootPrepend
  <2>2. PICK named \in Resolves :
          /\ list' = <<[addr |-> Request.from, age |-> 0, freed |-> ~named]>> \o list
          /\ IF named THEN pc' = "registered" /\ UNCHANGED <<queue, peerVars>>
             ELSE CloseUnanswered
    BY <1>3 DEF BootPrepend
  <2> DEFINE e == [addr |-> Request.from, age |-> 0, freed |-> ~named]
  <2>3. /\ e \in Entry /\ e.addr = Request.from /\ e.age = 0
        /\ list' = <<e>> \o list
    BY <2>1, <2>2, NewEntry
  <2> HIDE DEF e
  <2>4. \A q \in Peers : \A a \in Nat :
          a <= Keepalive /\ InTime(list, q, a) => InTime(list', q, a)
    BY <1>a, <2>3, InTimePrepend
  <2>5. \A a \in Nat : InTime(list', Request.from, a)
    BY <1>a, <2>3, InTimePrepend
  <2>6. CASE named
    BY <2>1, <2>2, <2>4, <2>5, <2>6, TimeRegister
  <2>7. CASE ~named
    BY <2>1, <2>2, <2>4, <2>7, TimeClose DEF Working
  <2>8. QED
    BY <2>6, <2>7
<1>4. CASE BootUpdate
  <2>1. pc = "received" /\ queue # <<>> /\ Request.from \in Peers
    BY <1>4, ServedWaits DEF BootUpdate
  <2>2. PICK k \in 1..Len(list), named \in Resolves :
          /\ list[k].addr = Request.from
          /\ list' = [list EXCEPT ![k].age = 0]
          /\ IF named THEN pc' = "registered" /\ UNCHANGED <<queue, peerVars>>
             ELSE CloseUnanswered
    BY <1>4 DEF BootUpdate, IsFirstEntry
  <2>3. \A q \in Peers : \A a \in Nat :
          a <= Keepalive /\ InTime(list, q, a) => InTime(list', q, a)
    BY <1>a, <2>2, InTimeSetAge
  <2>4. \A a \in Nat : InTime(list', Request.from, a)
    BY <1>a, <2>2, InTimeSetAge
  <2>5. CASE named
    BY <2>1, <2>2, <2>3, <2>4, <2>5, TimeRegister
  <2>6. CASE ~named
    BY <2>1, <2>2, <2>3, <2>6, TimeClose DEF Working
  <2>7. QED
    BY <2>5, <2>6
<1>5. CASE BootPruneStart \/ BootKeep
  <2>1. /\ pc \in {"registered", "prune"} /\ pc' \in {"registered", "prune"}
        /\ list' = list /\ queue' = queue /\ UNCHANGED peerVars
    BY <1>5 DEF BootPruneStart, BootKeep
  <2>2. \A q \in Peers : Served(q)' = Served(q)
    BY <2>1 DEF Served, Request
  <2>3. QED
    BY <2>1, <2>2, TimeQuiet DEF Working
<1>6. CASE BootRemove
  <2>1. /\ pc = "prune" /\ node \in 1..Len(list) /\ Expired(list[node])
        /\ list' = Without(list, node) /\ queue # <<>>
    BY <1>6, <1>a DEF BootRemove, TypeOK
  <2>2. PICK named \in Resolves :
          IF named
            THEN node' = prev + 1 /\ UNCHANGED <<pc, prev, queue, peerVars>>
            ELSE UNCHANGED <<prev, node>> /\ CloseUnanswered
    BY <1>6 DEF BootRemove
  <2>3. \A q \in Peers : \A a \in Nat :
          a <= Keepalive /\ InTime(list, q, a) => InTime(list', q, a)
    BY <1>a, <2>1, InTimeWithout
  <2>4. CASE named
    <3> SUFFICES ASSUME NEW q \in Peers, Counted(q)'
                 PROVE  InTime(list', q, Limit(q)')
      BY DEF TimeInv
    <3>1. /\ timer' = timer /\ miss' = miss /\ known' = known /\ st' = st
          /\ pc' = pc /\ queue' = queue
      BY <2>2, <2>4 DEF peerVars
    <3>2. Served(q)' = Served(q)
      BY <3>1 DEF Served, Request
    <3>3. Limit(q)' = Limit(q) /\ Counted(q)
      BY <3>1, <3>2, SameLimit
    <3>4. InTime(list, q, Limit(q)) /\ Limit(q) \in Nat /\ Limit(q) <= Keepalive
      BY <2>1, <3>3, InTimeOf, LimitRange DEF Working
    <3>5. QED
      BY <2>3, <3>3, <3>4
  <2>5. CASE ~named
    BY <2>1, <2>2, <2>3, <2>5, TimeClose DEF Working
  <2>6. QED
    BY <2>4, <2>5
<1>7. CASE BootReply
  <2>1. /\ pc = "prune" /\ pc' = "idle" /\ list' = list
        /\ st' = IF Request.open THEN [st EXCEPT ![Request.from] = "answered"] ELSE st
        /\ timer' = timer /\ miss' = miss /\ known' = known
        /\ st \in [Peers -> {"sleep", "waiting", "answered", "hung", "down"}]
    BY <1>7 DEF BootReply, Replying, TypeOK
  <2>2. Request.from \in Peers /\ (Request.open => st[Request.from] = "waiting")
    BY <2>1, ServedWaits
  <2>3. Working
    BY <2>1 DEF Working
  <2>4. SUFFICES ASSUME NEW q \in Peers, Counted(q)'
                 PROVE  InTime(list', q, Limit(q)')
    BY DEF TimeInv
  <2>5. Served(q)' = FALSE
    BY <2>1, NotServedNext
  <2>6. CASE Request.open /\ Request.from = q
    <3>1. Served(q) /\ Counted(q) /\ st[q] = "waiting" /\ st'[q] = "answered"
      BY <2>1, <2>2, <2>6 DEF Served, Counted
    <3>2. Limit(q)' = Delay - timer[q] /\ Limit(q) = Delay - timer[q]
      BY <2>1, <3>1 DEF Limit
    <3>3. QED
      BY <2>1, <2>3, <3>1, <3>2, InTimeOf
  <2>7. CASE ~(Request.open /\ Request.from = q)
    <3>1. Served(q) = FALSE /\ st'[q] = st[q]
      BY <2>1, <2>7, OnlyRequestServed
    <3>2. Limit(q)' = Limit(q) /\ Counted(q)
      BY <2>1, <2>4, <2>5, <3>1, SameLimit
    <3>3. QED
      BY <2>1, <2>3, <3>2, InTimeOf
  <2>8. QED
    BY <2>6, <2>7
<1>8. QED
  BY <1>1, <1>2, <1>3, <1>4, <1>5, <1>6, <1>7 DEF Boot

\* A second passes: what it adds to the age it takes from the timer.
LEMMA TimeTick ==
    ASSUME TypeOK, PeerInv, TimeInv, Tick
    PROVE  TimeInv'
<1> SUFFICES ASSUME Working', NEW q \in Peers, Counted(q)'
             PROVE  InTime(list', q, Limit(q)')
  BY DEF TimeInv
<1>1. /\ pc' = pc /\ queue' = queue /\ st' = st /\ miss' = miss /\ known' = known
      /\ list' = [k \in 1..Len(list) |-> Older(list[k])]
      /\ timer'[q] = (IF timer[q] > 0 THEN timer[q] - 1 ELSE 0)
      /\ ~Due(q) /\ list \in Seq(Entry)
  BY DEF Tick, TypeOK
<1>2. Working /\ Counted(q)
  BY <1>1 DEF Working, Counted, Served, Request
<1>3. /\ InTime(list, q, Limit(q)) /\ Live(q)
      /\ Limit(q) \in Nat /\ timer[q] \in Nat /\ Sleeps \in Nat
  BY <1>2, InTimeOf, LimitRange
<1>4. timer[q] # 0
  BY <1>1, <1>2, <1>3 DEF Due, Live
<1>5. timer'[q] = timer[q] - 1
  BY <1>1, <1>3, <1>4
<1>6. Unused(q) \in Nat /\ Unused(q)' = Unused(q) /\ Delay \in Nat
  <2>1. miss[q] \in 0..MaxMisses
    BY DEF TypeOK
  <2>2. QED
    BY <1>1, <2>1, Budget, DiscoveryAssumption DEF Unused
<1>7. Served(q)' = Served(q)
  BY <1>1 DEF Served, Request
<1>8. Limit(q)' = Limit(q) + 1
  <2>1. CASE st[q] = "sleep"
    <3>1. /\ Limit(q) = Delay + Sleeps - Unused(q) - timer[q]
          /\ Limit(q)' = Delay + Sleeps - Unused(q) - (timer[q] - 1)
      BY <1>1, <1>5, <1>6, <2>1 DEF Limit
    <3>2. QED
      BY <1>3, <1>6, <3>1
  <2>2. CASE st[q] = "waiting" /\ ~Served(q)
    <3>1. /\ Limit(q) = 2 * Delay + Sleeps - timer[q]
          /\ Limit(q)' = 2 * Delay + Sleeps - (timer[q] - 1)
      BY <1>1, <1>5, <1>7, <2>2 DEF Limit
    <3>2. QED
      BY <1>3, <1>6, <3>1
  <2>3. CASE st[q] # "sleep" /\ ~(st[q] = "waiting" /\ ~Served(q))
    <3>1. Limit(q) = Delay - timer[q] /\ Limit(q)' = Delay - (timer[q] - 1)
      BY <1>1, <1>5, <1>7, <2>3 DEF Limit
    <3>2. QED
      BY <1>3, <1>6, <3>1
  <2>4. QED
    BY <2>1, <2>2, <2>3
<1>9. QED
  BY <1>1, <1>3, <1>8, InTimeOlder

-----------------------------------------------------------------------------
(* The theorems.                                                           *)

\* The invariant holds at the start.
LEMMA InitInv == Init => Inv
<1> SUFFICES ASSUME Init PROVE Inv
  OBVIOUS
<1>1. TypeOK
  BY InitTypes
<1>2. /\ list = <<>> /\ queue = <<>> /\ pc = "idle"
      /\ \A p \in Peers : st[p] = "sleep" /\ timer[p] = 0 /\ known[p] = {}
  BY DEF Init
<1>3. PeerInv
  <2>1. 0 <= Interval /\ 0 <= Delay
    BY DiscoveryAssumption
  <2>2. QED
    BY <1>2, <2>1 DEF PeerInv, PeerOK
<1>4. QueueInv /\ NoDuplicates /\ LoopInv
  BY <1>2 DEF QueueInv, NoDuplicates, LoopInv
<1>5. TimeInv
  BY <1>2 DEF TimeInv, Counted
<1>6. QED
  BY <1>1, <1>3, <1>4, <1>5 DEF Inv

\* Every step preserves the invariant.
LEMMA NextInv == Inv /\ [Next]_vars => Inv'
<1> SUFFICES ASSUME Inv, [Next]_vars PROVE Inv'
  OBVIOUS
<1>1. TypeOK' /\ QueueInv' /\ PeerInv' /\ LoopInv' /\ NoDuplicates'
  BY TypeStep, QueueStep, PeerStep, ListStep DEF Inv
<1>2. CASE \E p \in Peers :
             \/ Connect(p) \/ ConnectFails(p) \/ Receive(p) \/ Reset(p)
             \/ Crash(p) \/ CrashConnected(p) \/ Restart(p)
  BY <1>1, <1>2, TimePeerStep DEF Inv
<1>3. CASE Boot
  BY <1>1, <1>3, TimeServerStep DEF Inv
<1>4. CASE Tick
  BY <1>1, <1>4, TimeTick DEF Inv
<1>5. CASE UNCHANGED vars
  <2>1. TimeInv'
    BY <1>5 DEF Inv, vars, TimeInv, Working, Counted, Served, Request, Limit, Unused
  <2>2. QED
    BY <1>1, <2>1 DEF Inv
<1>6. QED
  BY <1>2, <1>3, <1>4, <1>5 DEF Next, Boot

\* The invariant holds of every behaviour.
LEMMA InvHolds == Spec => []Inv
BY InitInv, NextInv, PTL DEF Spec

\* The prune loop of the bootstrap server (lines 154-207), which unlinks nodes
\* of the list it walks, leaves neither an expired entry nor a duplicate, for
\* lists of any length.
THEOREM RepliesFresh == Spec => []ReplyFresh
<1>1. ASSUME Inv PROVE ReplyFresh
  <2>1. SUFFICES ASSUME Replying, NEW k \in 1..Len(list), NEW l \in 1..Len(list)
                 PROVE  /\ list[k].age <= Keepalive
                        /\ list[k].addr = list[l].addr => k = l
    BY DEF ReplyFresh
  <2>2. /\ node = prev + 1 /\ node > Len(list) /\ prev \in Nat /\ Len(list) \in Nat
        /\ \A n \in 1..prev : list[n].age <= Keepalive
    BY <1>1, <2>1 DEF Inv, LoopInv, TypeOK, Replying
  <2>3. k \in 1..prev
    BY <2>2
  <2>4. QED
    BY <1>1, <2>2, <2>3 DEF Inv, NoDuplicates
<1>2. QED
  BY <1>1, InvHolds, PTL

\* A peer that was answered and keeps running is in every list the server
\* sends, for any number of peers, whenever the keepalive time covers the
\* attempts that may be lost in a row and two slow exchanges.
THEOREM LivePeersStayListed == Spec => []LivePeersListed
<1>1. ASSUME Inv PROVE LivePeersListed
  <2>1. SUFFICES ASSUME Replying, NEW p \in Peers, Live(p), known[p] # {}
                 PROVE  p \in Addrs(list)
    BY DEF LivePeersListed
  <2>2. Working /\ Counted(p)
    BY <2>1 DEF Replying, Working, Live, Counted
  <2>3. InTime(list, p, Limit(p))
    BY <1>1, <2>2 DEF Inv, TimeInv
  <2>4. QED
    BY <2>3 DEF InTime, Addrs
<1>2. QED
  BY <1>1, InvHolds, PTL
=============================================================================
