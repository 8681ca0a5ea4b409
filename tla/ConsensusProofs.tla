--------------------------- MODULE ConsensusProofs ---------------------------
(***************************************************************************)
(* For any number of nodes, chains of any length and any number of faults,  *)
(* the miner of the last block of a chain keeps that chain or a longer one, *)
(* and who answered its latest broadcast has a chain as long.               *)
(* Neither is inductive: a chain also travels in requests, in replies and   *)
(* in requests whose sender has given up, and is adopted from there.  The   *)
(* invariants therefore speak of every chain in circulation.                *)
(***************************************************************************)
EXTENDS Consensus, TLAPS

Tip(c) == c[Len(c)]

\* With the chains ch and the lives lf, c has blocks, its last one was mined in
\* the present life of its miner or an earlier one, and in the present life the
\* miner holds c or a longer chain.
Kept(c, ch, lf) ==
    /\ Len(c) > 0
    /\ Tip(c)[2] <= lf[Tip(c)[1]]
    /\ Tip(c)[2] = lf[Tip(c)[1]] =>
           Len(ch[Tip(c)[1]]) > Len(c) \/ ch[Tip(c)[1]] = c

\* All chains in circulation are kept.
KeptInv ==
    /\ \A n \in Nodes : Kept(chain[n], chain, life)
    /\ \A n \in Nodes : client[n].msg = <<>> \/ Kept(client[n].msg, chain, life)
    /\ \A o \in orphan : o.msg = <<>> \/ Kept(o.msg, chain, life)

\* The chains in circulation.
Circulating == {chain[n] : n \in Nodes} \cup {client[n].msg : n \in Nodes}
                   \cup {o.msg : o \in orphan}

\* When the miner of c's last block has nothing new to broadcast, who answered
\* its broadcast has a chain as long as c, and so will who is about to.
Covered(c) ==
    Len(c) > 0 /\ Tip(c)[2] = life[Tip(c)[1]] /\ ~pending[Tip(c)[1]] =>
        /\ \A p \in answered[Tip(c)[1]] : Len(chain[p]) >= Len(c)
        /\ client[Tip(c)[1]].pc = "sent" => Len(client[Tip(c)[1]].msg) >= Len(c)

CoverInv == \A c \in Circulating : Covered(c)

-----------------------------------------------------------------------------
(* Types.                                                                  *)

\* The tip of a chain with blocks is a block.
LEMMA TipTyped ==
    ASSUME NEW c \in Chain, Len(c) > 0
    PROVE  Tip(c)[1] \in Nodes /\ Tip(c)[2] \in Nat
BY DEF Chain, Block, Tip

\* A chain of one block.
LEMMA GenesisTyped ==
    ASSUME NEW n \in Nodes, NEW k \in Nat
    PROVE  /\ Genesis(n, k) \in Chain /\ Len(Genesis(n, k)) = 1
           /\ Tip(Genesis(n, k)) = <<n, k>>
BY DEF Genesis, Chain, Block, Tip

\* The chain with one more block of n's.
LEMMA GrownTyped ==
    ASSUME NEW n \in Nodes, chain[n] \in Chain, life[n] \in Nat
    PROVE  /\ Grown(n) \in Chain /\ Len(Grown(n)) = Len(chain[n]) + 1
           /\ Tip(Grown(n)) = <<n, life[n]>>
<1>1. chain[n] \in Seq(Block) /\ <<n, life[n]>> \in Block
  BY DEF Chain, Block
<1>2. QED
  BY <1>1 DEF Grown, Chain, Tip

\* The client's record between two exchanges and outside of a broadcast.
LEMMA BetweenTyped ==
    ASSUME NEW n \in Nodes, NEW todo \in SUBSET Nodes,
           NEW pc \in {"none", "next", "sent", "replied", "lost", "spinning"}
    PROVE  Between(n, pc, todo) \in Client /\ Between(n, pc, todo).msg = <<>>
BY DEF Between, Client, Chain

\* The record of a node that is not broadcasting.
LEMMA NoClientTyped ==
    ASSUME NEW n \in Nodes
    PROVE  NoClient(n) \in Client /\ NoClient(n).msg = <<>>
BY BetweenTyped DEF NoClient

\* What can be put into the client's record keeps its type.
LEMMA ClientTyped ==
    ASSUME NEW pc \in {"none", "next", "sent", "replied", "lost", "spinning"},
           NEW todo \in SUBSET Nodes, NEW peer \in Nodes, NEW msg \in Chain
    PROVE  [pc |-> pc, todo |-> todo, peer |-> peer, msg |-> msg] \in Client
BY DEF Client

\* A record of a client, field by field.
LEMMA ClientFields ==
    ASSUME NEW r \in Client
    PROVE  /\ r.todo \subseteq Nodes /\ r.peer \in Nodes /\ r.msg \in Chain
           /\ r.pc \in {"none", "next", "sent", "replied", "lost", "spinning"}
           /\ r = [pc |-> r.pc, todo |-> r.todo, peer |-> r.peer, msg |-> r.msg]
BY DEF Client

\* A peer is struck from the client's list, or its connection is lost.
LEMMA ClientLoses ==
    ASSUME NEW r \in Client, NEW p
    PROVE  [r EXCEPT !.todo = @ \ {p}] \in Client /\ [r EXCEPT !.pc = "lost"] \in Client
BY DEF Client

\* The longer of two chains is a chain.
LEMMA PreferTyped ==
    ASSUME NEW theirs \in Chain, NEW seen, NEW ours \in Chain
    PROVE  Prefer(theirs, seen, ours) \in Chain
BY DEF Prefer

\* An exchange changes the chain, the lag and the pending flag of its node only.
LEMMA ExchangeTyped ==
    ASSUME TypeOK, NEW n \in Nodes, NEW theirs \in Chain, Exchange(n, theirs)
    PROVE  /\ chain' \in [Nodes -> Chain]
           /\ lag' \in [Nodes -> BOOLEAN] /\ pending' \in [Nodes -> BOOLEAN]
<1>1. chain \in [Nodes -> Chain] /\ life[n] \in Nat
      /\ lag \in [Nodes -> BOOLEAN] /\ pending \in [Nodes -> BOOLEAN]
  BY DEF TypeOK
<1>2. Grown(n) \in Chain /\ chain[n] \in Chain
  BY <1>1, GrownTyped
<1>3. CASE KeepLonger(n, theirs, chain[n]) /\ UNCHANGED pending
  <2>1. Prefer(theirs, Len(chain[n]), chain[n]) \in Chain
    BY <1>2, PreferTyped
  <2>2. (lag[n] \/ Len(theirs) > Len(chain[n])) \in BOOLEAN
    OBVIOUS
  <2>3. QED
    BY <1>1, <1>3, <2>1, <2>2 DEF KeepLonger
<1>4. CASE KeepLonger(n, theirs, Grown(n)) /\ pending' = [pending EXCEPT ![n] = TRUE]
  <2>1. Prefer(theirs, Len(chain[n]), Grown(n)) \in Chain
    BY <1>2, PreferTyped
  <2>2. (lag[n] \/ Len(theirs) > Len(chain[n])) \in BOOLEAN
    OBVIOUS
  <2>3. QED
    BY <1>1, <1>4, <2>1, <2>2 DEF KeepLonger
<1>5. QED
  BY <1>3, <1>4 DEF Exchange

\* Every node starts with its genesis block and without a broadcast.
LEMMA InitTypeOK == Init => TypeOK
<1> SUFFICES ASSUME Init PROVE TypeOK
  OBVIOUS
<1>1. chain \in [Nodes -> Chain]
  BY GenesisTyped DEF Init
<1>2. client \in [Nodes -> Client]
  BY NoClientTyped DEF Init
<1>3. QED
  BY <1>1, <1>2 DEF Init, TypeOK

\* Every step of a node keeps the types.
LEMMA NextTypeOK == TypeOK /\ [Next]_vars => TypeOK'
<1> SUFFICES ASSUME TypeOK, [Next]_vars PROVE TypeOK'
  OBVIOUS
<1> USE DEF TypeOK
<1>a. ASSUME NEW n \in Nodes, MineBlock(n) PROVE TypeOK'
  BY <1>a, GrownTyped DEF MineBlock
<1>b. ASSUME NEW n \in Nodes, MineStaleBlock(n) PROVE TypeOK'
  BY <1>b DEF MineStaleBlock
<1>c. ASSUME NEW n \in Nodes, Reread(n) PROVE TypeOK'
  BY <1>c DEF Reread
<1>d. ASSUME NEW n \in Nodes, StartBroadcast(n) PROVE TypeOK'
  <2>1. PICK list \in Lists : client' = [client EXCEPT ![n] = Between(n, "next", list)]
    BY <1>d DEF StartBroadcast
  <2>2. Between(n, "next", list) \in Client
    BY ConstantsAssumption, BetweenTyped
  <2>3. QED
    BY <1>d, <2>1, <2>2 DEF StartBroadcast
<1>e. ASSUME NEW n \in Nodes, NEW p \in Nodes, ClientSend(n, p) PROVE TypeOK'
  <2>1. [pc |-> "sent", todo |-> client[n].todo \ {p}, peer |-> p, msg |-> chain[n]] \in Client
    BY ClientFields, ClientTyped
  <2>2. QED
    BY <1>e, <2>1 DEF ClientSend
<1>f. ASSUME NEW n \in Nodes, NEW p \in Nodes, ClientRefused(n, p) PROVE TypeOK'
  <2>1. [client[n] EXCEPT !.todo = @ \ {p}] \in Client
    BY ClientLoses
  <2>2. QED
    BY <1>f, <2>1 DEF ClientRefused
<1>g. ASSUME NEW n \in Nodes, ClientReceive(n) PROVE TypeOK'
  <2>1. Between(n, "next", client[n].todo) \in Client
    BY ClientFields, BetweenTyped
  <2>2. client[n].msg \in Chain
    BY ClientFields
  <2>3. QED
    BY <1>g, <2>1, <2>2, ExchangeTyped DEF ClientReceive
<1>h. ASSUME NEW n \in Nodes, ClientFinish(n) PROVE TypeOK'
  BY <1>h, NoClientTyped DEF ClientFinish
<1>i. ASSUME NEW n \in Nodes, ClientLost(n) PROVE TypeOK'
  <2>1. PICK next \in {"next", "spinning"} :
            client' = [client EXCEPT ![n] = Between(n, next, client[n].todo)]
    BY <1>i DEF ClientLost
  <2>2. Between(n, next, client[n].todo) \in Client
    BY ClientFields, BetweenTyped
  <2>3. QED
    BY <1>i, <2>1, <2>2 DEF ClientLost
<1>j. ASSUME NEW s \in Nodes, NEW c \in Nodes, Serve(s, c) PROVE TypeOK'
  <2>1. client[c].msg \in Chain
    BY ClientFields
  <2>2. /\ chain' \in [Nodes -> Chain]
        /\ lag' \in [Nodes -> BOOLEAN] /\ pending' \in [Nodes -> BOOLEAN]
    BY <1>j, <2>1, ExchangeTyped DEF Serve
  <2>3. [pc |-> "replied", todo |-> client[c].todo, peer |-> s, msg |-> chain'[s]] \in Client
    BY <2>2, ClientFields, ClientTyped
  <2>4. QED
    BY <1>j, <2>2, <2>3 DEF Serve
<1>k. ASSUME NEW s \in Nodes, ServeOrphan(s) PROVE TypeOK'
  <2>1. PICK o \in orphan :
            /\ orphan' = orphan \ {o}
            /\ \/ Exchange(s, o.msg) /\ UNCHANGED wedged
               \/ UNCHANGED <<chain, lag, pending, wedged>>
               \/ wedged' = wedged \cup {s} /\ UNCHANGED <<chain, lag, pending>>
    BY <1>k DEF ServeOrphan
  <2>2. o.msg \in Chain
    OBVIOUS
  <2>3. QED
    BY <1>k, <2>1, <2>2, ExchangeTyped DEF ServeOrphan
<1>l. ASSUME NEW n \in Nodes, Crash(n) PROVE TypeOK'
  <2>1. Genesis(n, life[n] + 1) \in Chain
    BY GenesisTyped
  <2>2. \A m \in Nodes : [client[m] EXCEPT !.pc = "lost"] \in Client
    BY ClientLoses
  <2>3. client' \in [Nodes -> Client]
    BY <1>l, <2>2, NoClientTyped DEF Crash
  <2>4. InFlight(n) \subseteq [to : Nodes, msg : Chain]
    BY ClientFields DEF InFlight
  <2>5. QED
    BY <1>l, <2>1, <2>3, <2>4 DEF Crash, Fault
<1>m. ASSUME NEW n \in Nodes, Restart(n) PROVE TypeOK'
  BY <1>m DEF Restart
<1>n. CASE UNCHANGED vars
  BY <1>n DEF vars
<1>p. ASSUME NEW n \in Nodes, BroadcastFails(n) PROVE TypeOK'
  BY <1>p DEF BroadcastFails, Fault
<1>q. ASSUME NEW n \in Nodes, NEW p \in Nodes, ClientSendFails(n, p) PROVE TypeOK'
  <2>1. [client[n] EXCEPT !.todo = @ \ {p}] \in Client
    BY ClientLoses
  <2>2. [to |-> p, msg |-> <<>>] \in [to : Nodes, msg : Chain]
    BY DEF Chain
  <2>3. QED
    BY <1>q, <2>1, <2>2 DEF ClientSendFails, Fault
<1>r. ASSUME NEW n \in Nodes, ClientReceiveFails(n) PROVE TypeOK'
  <2>1. Between(n, "next", client[n].todo) \in Client
    BY ClientFields, BetweenTyped
  <2>2. InFlight(n) \subseteq [to : Nodes, msg : Chain]
    BY ClientFields DEF InFlight
  <2>3. QED
    BY <1>r, <2>1, <2>2 DEF ClientReceiveFails, Fault
<1>s. ASSUME NEW s \in Nodes, NEW c \in Nodes, ServeFails(s, c) PROVE TypeOK'
  <2>1. client[c].msg \in Chain /\ [client[c] EXCEPT !.pc = "lost"] \in Client
    BY ClientFields, ClientLoses
  <2>2. /\ chain' \in [Nodes -> Chain]
        /\ lag' \in [Nodes -> BOOLEAN] /\ pending' \in [Nodes -> BOOLEAN]
    BY <1>s, <2>1, ExchangeTyped DEF ServeFails
  <2>3. client' \in [Nodes -> Client]
    BY <1>s, <2>1 DEF ServeFails
  <2>4. QED
    BY <1>s, <2>2, <2>3 DEF ServeFails, Fault
<1>o. QED
  BY <1>a, <1>b, <1>c, <1>d, <1>e, <1>f, <1>g, <1>h, <1>i, <1>j, <1>k, <1>l, <1>m, <1>n,
     <1>p, <1>q, <1>r, <1>s
  DEF Next, ClientStep

-----------------------------------------------------------------------------
(* The chains in circulation.                                              *)

\* Node n keeps its chain or goes on with a longer one, d.
Improves(n, d) ==
    /\ chain' = [chain EXCEPT ![n] = d]
    /\ Len(d) > Len(chain[n]) \/ d = chain[n]

\* When a node improves its chain, what was kept before is kept after it.
LEMMA ImproveKeeps ==
    ASSUME TypeOK, NEW n \in Nodes, NEW d \in Chain, Improves(n, d),
           NEW c \in Chain, Kept(c, chain, life)
    PROVE  Kept(c, chain', life)
<1> DEFINE m == Tip(c)[1]
<1>1. m \in Nodes /\ Len(c) \in Nat
  BY TipTyped DEF Kept, Chain
<1>2. Len(chain[m]) \in Nat /\ Len(d) \in Nat /\ chain \in [Nodes -> Chain]
  BY <1>1 DEF TypeOK, Chain
<1>3. Len(chain'[m]) > Len(chain[m]) \/ chain'[m] = chain[m]
  BY <1>1, <1>2 DEF Improves
<1>4. Len(chain'[m]) \in Nat
  BY <1>1, <1>2 DEF Improves
<1>5. Tip(c)[2] = life[m] => Len(chain'[m]) > Len(c) \/ chain'[m] = c
  <2>1. ASSUME Tip(c)[2] = life[m], Len(chain[m]) > Len(c)
        PROVE  Len(chain'[m]) > Len(c)
    BY <1>1, <1>2, <1>3, <1>4, <2>1
  <2>2. ASSUME Tip(c)[2] = life[m], chain[m] = c
        PROVE  Len(chain'[m]) > Len(c) \/ chain'[m] = c
    BY <1>3, <2>2
  <2>3. QED
    BY <2>1, <2>2 DEF Kept
<1>6. QED
  BY <1>5 DEF Kept

\* A block of n's own on top of its chain is held by n.
LEMMA GrownKept ==
    ASSUME TypeOK, NEW n \in Nodes, chain' = [chain EXCEPT ![n] = Grown(n)]
    PROVE  Grown(n) \in Chain /\ Improves(n, Grown(n)) /\ Kept(Grown(n), chain', life)
<1>1. chain \in [Nodes -> Chain] /\ chain[n] \in Chain /\ life[n] \in Nat
  BY DEF TypeOK
<1>2. /\ Grown(n) \in Chain /\ Len(Grown(n)) = Len(chain[n]) + 1
      /\ Tip(Grown(n)) = <<n, life[n]>>
  BY <1>1, GrownTyped
<1>3. Len(chain[n]) \in Nat
  BY <1>1 DEF Chain
<1>4. chain'[n] = Grown(n)
  BY <1>1
<1>5. Improves(n, Grown(n))
  BY <1>2, <1>3 DEF Improves
<1>6. Kept(Grown(n), chain', life)
  BY <1>1, <1>2, <1>3, <1>4 DEF Kept
<1>7. QED
  BY <1>2, <1>5, <1>6

\* A longer chain that was kept is not one whose last block n mined in this
\* life, so it is still kept when n adopts it.
LEMMA AdoptedKept ==
    ASSUME TypeOK, NEW n \in Nodes, NEW d \in Chain, Kept(d, chain, life),
           Len(d) > Len(chain[n]), chain' = [chain EXCEPT ![n] = d]
    PROVE  Improves(n, d) /\ Kept(d, chain', life)
<1>1. Improves(n, d)
  BY DEF Improves
<1>2. QED
  BY <1>1, ImproveKeeps

\* What an exchange leaves at its node.
LEMMA ExchangeKept ==
    ASSUME TypeOK, KeptInv, NEW n \in Nodes, NEW theirs \in Chain,
           theirs = <<>> \/ Kept(theirs, chain, life), Exchange(n, theirs)
    PROVE  \E d \in Chain : Improves(n, d) /\ Kept(d, chain', life)
<1>1. chain \in [Nodes -> Chain] /\ chain[n] \in Chain
  BY DEF TypeOK
<1>2. Len(chain[n]) \in Nat /\ Len(theirs) \in Nat
  BY <1>1 DEF Chain
<1>3. PICK ours \in {chain[n], Grown(n)} :
          chain' = [chain EXCEPT ![n] = Prefer(theirs, Len(chain[n]), ours)]
  BY DEF Exchange, KeepLonger
<1>4. CASE Len(theirs) > Len(chain[n])
  <2>1. chain' = [chain EXCEPT ![n] = theirs]
    BY <1>3, <1>4 DEF Prefer
  <2>2. theirs # <<>>
    BY <1>2, <1>4
  <2>3. QED
    BY <1>4, <2>1, <2>2, AdoptedKept
<1>5. CASE ~(Len(theirs) > Len(chain[n]))
  <2>1. chain' = [chain EXCEPT ![n] = ours]
    BY <1>3, <1>5 DEF Prefer
  <2>2. CASE ours = chain[n]
    <3>1. chain' = chain
      BY <1>1, <2>1, <2>2
    <3>2. Improves(n, chain[n])
      BY <2>1, <2>2 DEF Improves
    <3>3. Kept(chain[n], chain', life)
      BY <3>1 DEF KeptInv
    <3>4. QED
      BY <1>1, <3>2, <3>3
  <2>3. CASE ours = Grown(n)
    BY <2>1, <2>3, GrownKept
  <2>4. QED
    BY <2>2, <2>3
<1>6. QED
  BY <1>4, <1>5

\* After an improvement every node's chain is kept, and what was kept still is.
LEMMA ImprovedAll ==
    ASSUME TypeOK, KeptInv, NEW n \in Nodes, NEW d \in Chain,
           Improves(n, d), Kept(d, chain', life)
    PROVE  /\ \A m \in Nodes : Kept(chain'[m], chain', life)
           /\ \A m \in Nodes : client[m].msg = <<>> \/ Kept(client[m].msg, chain', life)
           /\ \A o \in orphan : o.msg = <<>> \/ Kept(o.msg, chain', life)
<1>1. /\ chain \in [Nodes -> Chain]
      /\ \A m \in Nodes : client[m].msg \in Chain
      /\ \A o \in orphan : o.msg \in Chain
  BY ClientFields DEF TypeOK
<1>2. ASSUME NEW m \in Nodes PROVE Kept(chain'[m], chain', life)
  <2>1. CASE m = n
    BY <1>1, <2>1 DEF Improves
  <2>2. CASE m # n
    <3>1. chain'[m] = chain[m] /\ chain[m] \in Chain /\ Kept(chain[m], chain, life)
      BY <1>1, <2>2 DEF Improves, KeptInv
    <3>2. QED
      BY <3>1, ImproveKeeps
  <2>3. QED
    BY <2>1, <2>2
<1>3. QED
  BY <1>1, <1>2, ImproveKeeps DEF KeptInv

\* A restart gives up all claims of the life before: what was kept is kept.
LEMMA CrashKeeps ==
    ASSUME TypeOK, NEW n \in Nodes, Crash(n), NEW c \in Chain, Kept(c, chain, life)
    PROVE  Kept(c, chain', life')
<1> DEFINE m == Tip(c)[1]
<1>1. m \in Nodes /\ Tip(c)[2] \in Nat
  BY TipTyped DEF Kept
<1>2. /\ life \in [Nodes -> Nat] /\ chain \in [Nodes -> Chain]
      /\ life' = [life EXCEPT ![n] = @ + 1]
      /\ chain' = [chain EXCEPT ![n] = Genesis(n, life[n] + 1)]
  BY DEF TypeOK, Crash
<1>3. CASE m = n
  <2>1. life'[m] = life[m] + 1 /\ life[m] \in Nat
    BY <1>1, <1>2, <1>3
  <2>2. Tip(c)[2] <= life[m] /\ Len(c) > 0
    BY DEF Kept
  <2>3. QED
    BY <1>1, <2>1, <2>2 DEF Kept
<1>4. CASE m # n
  <2>1. life'[m] = life[m] /\ chain'[m] = chain[m]
    BY <1>1, <1>2, <1>4
  <2>2. QED
    BY <2>1 DEF Kept
<1>5. QED
  BY <1>3, <1>4

\* The new genesis block is held by its node.
LEMMA CrashGenesisKept ==
    ASSUME TypeOK, NEW n \in Nodes, Crash(n)
    PROVE  Kept(chain'[n], chain', life')
<1>1. life \in [Nodes -> Nat] /\ chain \in [Nodes -> Chain] /\ life[n] + 1 \in Nat
  BY DEF TypeOK
<1>2. chain'[n] = Genesis(n, life[n] + 1) /\ life'[n] = life[n] + 1
  BY <1>1 DEF Crash
<1>3. Len(Genesis(n, life[n] + 1)) = 1 /\ Tip(Genesis(n, life[n] + 1)) = <<n, life[n] + 1>>
  BY <1>1, GenesisTyped
<1>4. Len(chain'[n]) = 1 /\ Tip(chain'[n]) = <<n, life'[n]>>
  BY <1>2, <1>3
<1>5. Tip(chain'[n])[1] = n /\ Tip(chain'[n])[2] = life'[n] /\ life'[n] \in Nat
  BY <1>1, <1>2, <1>4
<1>6. QED
  BY <1>4, <1>5 DEF Kept

\* Initially every node holds its own genesis block.
LEMMA InitKept == Init => KeptInv
<1> SUFFICES ASSUME Init PROVE KeptInv
  OBVIOUS
<1>1. ASSUME NEW n \in Nodes PROVE Kept(chain[n], chain, life)
  <2>1. chain[n] = Genesis(n, 0) /\ life[n] = 0
    BY DEF Init
  <2>2. Len(Genesis(n, 0)) = 1 /\ Tip(Genesis(n, 0)) = <<n, 0>>
    BY GenesisTyped
  <2>3. Len(chain[n]) = 1 /\ Tip(chain[n]) = <<n, life[n]>>
    BY <2>1, <2>2
  <2>4. Tip(chain[n])[1] = n /\ Tip(chain[n])[2] = life[n] /\ life[n] \in Nat
    BY <2>1, <2>3
  <2>5. QED
    BY <2>3, <2>4 DEF Kept
<1>2. \A n \in Nodes : client[n].msg = <<>>
  BY NoClientTyped DEF Init
<1>3. QED
  BY <1>1, <1>2 DEF Init, KeptInv

\* No step of any node lets a chain in circulation overtake its miner.
LEMMA NextKept == TypeOK /\ KeptInv /\ [Next]_vars => KeptInv'
<1> SUFFICES ASSUME TypeOK, KeptInv, [Next]_vars PROVE KeptInv'
  OBVIOUS
<1>t. /\ chain \in [Nodes -> Chain] /\ client \in [Nodes -> Client]
      /\ \A n \in Nodes : client[n].msg \in Chain
      /\ \A o \in orphan : o.msg \in Chain
  BY ClientFields DEF TypeOK
<1>a. ASSUME NEW n \in Nodes, MineBlock(n) PROVE KeptInv'
  BY <1>a, GrownKept, ImprovedAll DEF MineBlock, KeptInv
<1>b. ASSUME NEW n \in Nodes, MineStaleBlock(n) PROVE KeptInv'
  BY <1>b DEF MineStaleBlock, KeptInv
<1>c. ASSUME NEW n \in Nodes, Reread(n) PROVE KeptInv'
  BY <1>c DEF Reread, KeptInv
<1>d. ASSUME NEW n \in Nodes, StartBroadcast(n) PROVE KeptInv'
  <2>1. PICK list \in Lists : client' = [client EXCEPT ![n] = Between(n, "next", list)]
    BY <1>d DEF StartBroadcast
  <2>2. Between(n, "next", list).msg = <<>>
    BY DEF Between
  <2>3. QED
    BY <1>d, <1>t, <2>1, <2>2 DEF StartBroadcast, KeptInv
<1>e. ASSUME NEW n \in Nodes, NEW p \in Nodes, ClientSend(n, p) PROVE KeptInv'
  BY <1>e, <1>t DEF ClientSend, KeptInv
<1>f. ASSUME NEW n \in Nodes, NEW p \in Nodes, ClientRefused(n, p) PROVE KeptInv'
  <2>1. \A m \in Nodes : client'[m].msg = client[m].msg
    BY <1>f, <1>t DEF ClientRefused, Client
  <2>2. QED
    BY <1>f, <2>1 DEF ClientRefused, KeptInv
<1>g. ASSUME NEW n \in Nodes, ClientReceive(n) PROVE KeptInv'
  <2>1. PICK d \in Chain : Improves(n, d) /\ Kept(d, chain', life)
    BY <1>g, <1>t, ExchangeKept DEF ClientReceive, KeptInv
  <2>2. client' = [client EXCEPT ![n] = Between(n, "next", client[n].todo)]
        /\ UNCHANGED <<life, orphan>>
    BY <1>g DEF ClientReceive
  <2>3. \A m \in Nodes : client'[m].msg = <<>> \/ client'[m].msg = client[m].msg
    BY <1>t, <2>2 DEF Between
  <2>4. QED
    BY <2>1, <2>2, <2>3, ImprovedAll DEF KeptInv
<1>h. ASSUME NEW n \in Nodes, ClientFinish(n) PROVE KeptInv'
  BY <1>h, <1>t, NoClientTyped DEF ClientFinish, KeptInv
<1>i. ASSUME NEW n \in Nodes, ClientLost(n) PROVE KeptInv'
  <2>1. PICK next \in {"next", "spinning"} :
            client' = [client EXCEPT ![n] = Between(n, next, client[n].todo)]
    BY <1>i DEF ClientLost
  <2>2. Between(n, next, client[n].todo).msg = <<>>
    BY DEF Between
  <2>3. QED
    BY <1>i, <1>t, <2>1, <2>2 DEF ClientLost, KeptInv
<1>j. ASSUME NEW s \in Nodes, NEW c \in Nodes, Serve(s, c) PROVE KeptInv'
  <2>1. PICK d \in Chain : Improves(s, d) /\ Kept(d, chain', life)
    BY <1>j, <1>t, ExchangeKept DEF Serve, KeptInv
  <2>2. UNCHANGED <<life, orphan>>
    BY <1>j DEF Serve
  <2>3. \A m \in Nodes : client'[m].msg = chain'[s] \/ client'[m].msg = client[m].msg
    BY <1>j, <1>t DEF Serve
  <2>4. QED
    BY <2>1, <2>2, <2>3, ImprovedAll DEF KeptInv
<1>k. ASSUME NEW s \in Nodes, ServeOrphan(s) PROVE KeptInv'
  <2>1. PICK o \in orphan :
            /\ orphan' = orphan \ {o}
            /\ \/ Exchange(s, o.msg)
               \/ UNCHANGED chain
    BY <1>k DEF ServeOrphan
  <2>2. UNCHANGED <<life, client>>
    BY <1>k DEF ServeOrphan
  <2>3. CASE Exchange(s, o.msg)
    <3>1. PICK d \in Chain : Improves(s, d) /\ Kept(d, chain', life)
      BY <1>t, <2>3, ExchangeKept DEF KeptInv
    <3>2. QED
      BY <2>1, <2>2, <3>1, ImprovedAll DEF KeptInv
  <2>4. CASE UNCHANGED chain
    BY <2>1, <2>2, <2>4 DEF KeptInv
  <2>5. QED
    BY <2>1, <2>3, <2>4
<1>l. ASSUME NEW n \in Nodes, Crash(n) PROVE KeptInv'
  <2>1. ASSUME NEW m \in Nodes PROVE Kept(chain'[m], chain', life')
    <3>1. CASE m = n
      BY <1>l, <3>1, CrashGenesisKept
    <3>2. CASE m # n
      <4>1. chain'[m] = chain[m]
        BY <1>l, <1>t, <3>2 DEF Crash
      <4>2. QED
        BY <1>l, <1>t, <4>1, CrashKeeps DEF KeptInv
    <3>3. QED
      BY <3>1, <3>2
  <2>2. ASSUME NEW m \in Nodes
        PROVE  client'[m].msg = <<>> \/ Kept(client'[m].msg, chain', life')
    <3>1. client'[m].msg = <<>> \/ client'[m].msg = client[m].msg
      BY <1>l, <1>t, NoClientTyped DEF Crash, Client
    <3>2. QED
      BY <1>l, <1>t, <3>1, CrashKeeps DEF KeptInv
  <2>3. ASSUME NEW o \in orphan'
        PROVE  o.msg = <<>> \/ Kept(o.msg, chain', life')
    <3>1. o \in orphan \/ o.msg = client[n].msg
      BY <1>l, <2>3 DEF Crash, InFlight
    <3>2. QED
      BY <1>l, <1>t, <3>1, CrashKeeps DEF KeptInv
  <2>4. QED
    BY <2>1, <2>2, <2>3 DEF KeptInv
<1>m. ASSUME NEW n \in Nodes, Restart(n) PROVE KeptInv'
  BY <1>m DEF Restart, KeptInv
<1>n. CASE UNCHANGED vars
  BY <1>n DEF vars, KeptInv
<1>p. ASSUME NEW n \in Nodes, BroadcastFails(n) PROVE KeptInv'
  BY <1>p DEF BroadcastFails, KeptInv
<1>q. ASSUME NEW n \in Nodes, NEW p \in Nodes, ClientSendFails(n, p) PROVE KeptInv'
  <2>1. \A m \in Nodes : client'[m].msg = client[m].msg
    BY <1>q, <1>t DEF ClientSendFails, Client
  <2>2. \A o \in orphan' : o \in orphan \/ o.msg = <<>>
    BY <1>q DEF ClientSendFails
  <2>3. QED
    BY <1>q, <2>1, <2>2 DEF ClientSendFails, KeptInv
<1>r. ASSUME NEW n \in Nodes, ClientReceiveFails(n) PROVE KeptInv'
  <2>1. \A m \in Nodes : client'[m].msg = <<>> \/ client'[m].msg = client[m].msg
    BY <1>r, <1>t DEF ClientReceiveFails, Between
  <2>2. \A o \in orphan' : o \in orphan \/ o.msg = client[n].msg
    BY <1>r DEF ClientReceiveFails, InFlight
  <2>3. QED
    BY <1>r, <2>1, <2>2 DEF ClientReceiveFails, KeptInv
<1>s. ASSUME NEW s \in Nodes, NEW c \in Nodes, ServeFails(s, c) PROVE KeptInv'
  <2>1. \A m \in Nodes : client'[m].msg = client[m].msg
    BY <1>s, <1>t DEF ServeFails, Client
  <2>2. UNCHANGED <<life, orphan>>
    BY <1>s DEF ServeFails
  <2>3. CASE Exchange(s, client[c].msg)
    <3>1. PICK d \in Chain : Improves(s, d) /\ Kept(d, chain', life)
      BY <1>t, <2>3, ExchangeKept DEF KeptInv
    <3>2. QED
      BY <2>1, <2>2, <3>1, ImprovedAll DEF KeptInv
  <2>4. CASE UNCHANGED chain
    BY <2>1, <2>2, <2>4 DEF KeptInv
  <2>5. QED
    BY <1>s, <2>3, <2>4 DEF ServeFails
<1>o. QED
  BY <1>a, <1>b, <1>c, <1>d, <1>e, <1>f, <1>g, <1>h, <1>i, <1>j, <1>k, <1>l, <1>m, <1>n,
     <1>p, <1>q, <1>r, <1>s
  DEF Next, ClientStep

-----------------------------------------------------------------------------
(* Agreement.                                                              *)

\* What an exchange does to the lengths, and to the duty to broadcast.
LEMMA ExchangeLens ==
    ASSUME TypeOK, NEW n \in Nodes, NEW theirs \in Chain, Exchange(n, theirs)
    PROVE  /\ \A m \in Nodes : m # n => chain'[m] = chain[m]
           /\ \A m \in Nodes : Len(chain[m]) \in Nat /\ Len(chain'[m]) \in Nat
           /\ Len(theirs) \in Nat
           /\ Len(chain'[n]) >= Len(chain[n]) /\ Len(chain'[n]) >= Len(theirs)
           /\ \A m \in Nodes : pending[m] => pending'[m]
           /\ \/ chain'[n] = chain[n]
              \/ chain'[n] = theirs /\ Len(theirs) > Len(chain[n])
              \/ chain'[n] = Grown(n) /\ pending'[n] /\ Len(chain[n]) < MaxLen
<1>1. /\ chain \in [Nodes -> Chain] /\ chain[n] \in Chain /\ life[n] \in Nat
      /\ pending \in [Nodes -> BOOLEAN]
  BY DEF TypeOK
<1>2. /\ \A m \in Nodes : Len(chain[m]) \in Nat
      /\ Len(theirs) \in Nat
  BY <1>1 DEF Chain
<1>3. Grown(n) \in Chain /\ Len(Grown(n)) = Len(chain[n]) + 1
  BY <1>1, GrownTyped
<1>4. CASE KeepLonger(n, theirs, chain[n]) /\ UNCHANGED pending
  <2>1. \/ chain' = [chain EXCEPT ![n] = chain[n]] /\ Len(theirs) <= Len(chain[n])
        \/ chain' = [chain EXCEPT ![n] = theirs] /\ Len(theirs) > Len(chain[n])
    <3>1. chain' = [chain EXCEPT ![n] = Prefer(theirs, Len(chain[n]), chain[n])]
      BY <1>4 DEF KeepLonger
    <3>2. CASE Len(theirs) > Len(chain[n])
      BY <3>1, <3>2 DEF Prefer
    <3>3. CASE ~(Len(theirs) > Len(chain[n]))
      <4>1. Prefer(theirs, Len(chain[n]), chain[n]) = chain[n]
        BY <3>3 DEF Prefer
      <4>2. Len(theirs) <= Len(chain[n])
        BY <1>1, <1>2, <3>3
      <4>3. QED
        BY <3>1, <4>1, <4>2
    <3>4. QED
      BY <3>2, <3>3
  <2>2. QED
    BY <1>1, <1>2, <1>4, <2>1
<1>5. CASE /\ CanAppend(n) /\ KeepLonger(n, theirs, Grown(n))
           /\ pending' = [pending EXCEPT ![n] = TRUE]
  <2>1. \/ chain' = [chain EXCEPT ![n] = Grown(n)] /\ Len(theirs) <= Len(chain[n])
        \/ chain' = [chain EXCEPT ![n] = theirs] /\ Len(theirs) > Len(chain[n])
    <3>1. chain' = [chain EXCEPT ![n] = Prefer(theirs, Len(chain[n]), Grown(n))]
      BY <1>5 DEF KeepLonger
    <3>2. CASE Len(theirs) > Len(chain[n])
      BY <3>1, <3>2 DEF Prefer
    <3>3. CASE ~(Len(theirs) > Len(chain[n]))
      <4>1. Prefer(theirs, Len(chain[n]), Grown(n)) = Grown(n)
        BY <3>3 DEF Prefer
      <4>2. Len(theirs) <= Len(chain[n])
        BY <1>1, <1>2, <3>3
      <4>3. QED
        BY <3>1, <4>1, <4>2
    <3>4. QED
      BY <3>2, <3>3
  <2>2. /\ \A m \in Nodes : pending[m] => pending'[m]
        /\ pending'[n] /\ Len(chain[n]) < MaxLen
    BY <1>1, <1>5 DEF CanAppend
  <2>3. QED
    BY <1>1, <1>2, <1>3, <2>1, <2>2
<1>6. QED
  BY <1>4, <1>5 DEF Exchange

\* Every chain in circulation is a chain, before and after a step.
LEMMA CirculatingTyped ==
    /\ TypeOK => Circulating \subseteq Chain
    /\ TypeOK' => Circulating' \subseteq Chain
<1>1. ASSUME TypeOK PROVE Circulating \subseteq Chain
  <2>1. \A n \in Nodes : chain[n] \in Chain /\ client[n].msg \in Chain
    BY <1>1, ClientFields DEF TypeOK
  <2>2. \A o \in orphan : o.msg \in Chain
    BY <1>1 DEF TypeOK
  <2>3. QED
    BY <2>1, <2>2 DEF Circulating
<1>2. ASSUME TypeOK' PROVE Circulating' \subseteq Chain
  <2>1. \A n \in Nodes : chain'[n] \in Chain /\ client'[n].msg \in Chain
    BY <1>2, ClientFields DEF TypeOK
  <2>2. \A o \in orphan' : o.msg \in Chain
    BY <1>2 DEF TypeOK
  <2>3. QED
    BY <2>1, <2>2 DEF Circulating
<1>3. QED
  BY <1>1, <1>2

\* A chain after a step that is not new, or whose miner has to broadcast it.
Known(c) == c \in Circulating \/ c = <<>> \/ pending'[Tip(c)[1]]

\* A step that resets t's broadcast, or takes nothing from those who answered it
\* and sends no request for it.
Steady(t) ==
    \/ answered'[t] = {} /\ client'[t].pc # "sent"
    \/ /\ life'[t] = life[t] /\ (pending[t] => pending'[t])
       /\ answered'[t] \subseteq answered[t]
       /\ \A p \in answered'[t] : Len(chain'[p]) >= Len(chain[p])
       /\ client'[t].pc = "sent" => client'[t] = client[t]

\* The chains after a step are known, if the places where they are kept hold known ones.
LEMMA KnownAll ==
    ASSUME \A m \in Nodes : Known(chain'[m]) /\ Known(client'[m].msg),
           \A o \in orphan' : Known(o.msg),
           NEW c \in Circulating'
    PROVE  Known(c)
BY DEF Circulating

\* A known chain stays covered in a step that is steady for its miner.
LEMMA CoverSteady ==
    ASSUME TypeOK, TypeOK', CoverInv, NEW c \in Chain, Known(c), Steady(Tip(c)[1])
    PROVE  Covered(c)'
<1> DEFINE t == Tip(c)[1]
<1> SUFFICES ASSUME Len(c) > 0, Tip(c)[2] = life'[t], ~pending'[t]
             PROVE  /\ \A p \in answered'[t] : Len(chain'[p]) >= Len(c)
                    /\ client'[t].pc = "sent" => Len(client'[t].msg) >= Len(c)
  BY DEF Covered
<1>1. t \in Nodes /\ Len(c) \in Nat
  BY TipTyped DEF Chain
<1>2. c \in Circulating
  BY DEF Known
<1>3. CASE answered'[t] = {} /\ client'[t].pc # "sent"
  BY <1>3
<1>4. CASE /\ life'[t] = life[t] /\ (pending[t] => pending'[t])
           /\ answered'[t] \subseteq answered[t]
           /\ \A p \in answered'[t] : Len(chain'[p]) >= Len(chain[p])
           /\ client'[t].pc = "sent" => client'[t] = client[t]
  <2>1. /\ \A p \in answered[t] : Len(chain[p]) >= Len(c)
        /\ client[t].pc = "sent" => Len(client[t].msg) >= Len(c)
    BY <1>2, <1>4 DEF CoverInv, Covered
  <2>2. answered[t] \subseteq Nodes
    BY <1>1 DEF TypeOK
  <2>3. \A p \in Nodes : Len(chain[p]) \in Nat /\ Len(chain'[p]) \in Nat
    BY DEF TypeOK, Chain
  <2>4. \A p \in answered'[t] : Len(chain'[p]) >= Len(c)
    BY <1>1, <1>4, <2>1, <2>2, <2>3
  <2>5. QED
    BY <1>4, <2>1, <2>4
<1>5. QED
  BY <1>3, <1>4 DEF Steady

\* What an exchange leaves at the nodes is known.
LEMMA ExchangeKnown ==
    ASSUME TypeOK, NEW n \in Nodes, NEW theirs \in Chain,
           theirs \in Circulating, Exchange(n, theirs), NEW m \in Nodes
    PROVE  Known(chain'[m])
<1>1. /\ m # n => chain'[m] = chain[m]
      /\ \/ chain'[n] = chain[n]
         \/ chain'[n] = theirs
         \/ chain'[n] = Grown(n) /\ pending'[n]
  BY ExchangeLens
<1>2. Tip(Grown(n))[1] = n
  <2>1. chain[n] \in Chain /\ life[n] \in Nat
    BY DEF TypeOK
  <2>2. QED
    BY <2>1, GrownTyped
<1>3. chain[m] \in Circulating
  BY DEF Circulating
<1>4. QED
  BY <1>1, <1>2, <1>3 DEF Known

\* Initially nobody has answered anything.
LEMMA InitCover == Init => CoverInv
<1> SUFFICES ASSUME Init, NEW c \in Circulating PROVE Covered(c)
  BY DEF CoverInv
<1>1. CASE Len(c) > 0
  <2>1. TypeOK
    BY InitTypeOK
  <2>2. Tip(c)[1] \in Nodes
    BY <1>1, <2>1, CirculatingTyped, TipTyped
  <2>3. answered[Tip(c)[1]] = {} /\ client[Tip(c)[1]].pc = "none"
    BY <2>2 DEF Init, NoClient, Between
  <2>4. QED
    BY <2>3 DEF Covered
<1>2. QED
  BY <1>1 DEF Covered

\* No step leaves behind a node that has answered.
LEMMA NextCover == TypeOK /\ KeptInv /\ CoverInv /\ [Next]_vars => CoverInv'
<1> SUFFICES ASSUME TypeOK, KeptInv, CoverInv, [Next]_vars, NEW x \in Circulating'
             PROVE  Covered(x)'
  BY DEF CoverInv
<1>t. TypeOK' /\ x \in Chain
  BY NextTypeOK, CirculatingTyped
<1>u. /\ chain \in [Nodes -> Chain] /\ client \in [Nodes -> Client] /\ life \in [Nodes -> Nat]
      /\ pending \in [Nodes -> BOOLEAN] /\ answered \in [Nodes -> SUBSET Nodes]
      /\ \A m \in Nodes : Len(chain[m]) \in Nat
      /\ \A m \in Nodes : chain[m] \in Circulating /\ client[m].msg \in Circulating
      /\ \A o \in orphan : o.msg \in Circulating
      /\ \A m \in Nodes : Known(chain[m]) /\ Known(client[m].msg)
      /\ \A o \in orphan : Known(o.msg)
      /\ Known(<<>>)
  <2>1. /\ \A m \in Nodes : chain[m] \in Circulating /\ client[m].msg \in Circulating
        /\ \A o \in orphan : o.msg \in Circulating
    BY DEF Circulating
  <2>2. \A m \in Nodes : Len(chain[m]) \in Nat
    BY DEF TypeOK, Chain
  <2>3. /\ chain \in [Nodes -> Chain] /\ client \in [Nodes -> Client] /\ life \in [Nodes -> Nat]
        /\ pending \in [Nodes -> BOOLEAN] /\ answered \in [Nodes -> SUBSET Nodes]
    BY DEF TypeOK
  <2>4. QED
    BY <2>1, <2>2, <2>3 DEF Known
<1>v. ASSUME Known(x), \A t \in Nodes : Steady(t) PROVE Covered(x)'
  <2>1. CASE Len(x) > 0
    BY <1>t, <1>v, <2>1, TipTyped, CoverSteady
  <2>2. QED
    BY <2>1 DEF Covered
<1>w. ASSUME \A m \in Nodes : Known(chain'[m]) /\ Known(client'[m].msg),
             \A o \in orphan' : Known(o.msg)
      PROVE  Known(x)
  BY <1>w, KnownAll
<1>x. ASSUME NEW n \in Nodes, NEW theirs \in Circulating, Exchange(n, theirs)
      PROVE  /\ \A m \in Nodes : Known(chain'[m])
             /\ \A m \in Nodes : pending[m] => pending'[m]
             /\ \A m \in Nodes : Len(chain'[m]) >= Len(chain[m]) /\ Len(chain'[m]) \in Nat
             /\ Len(theirs) \in Nat /\ Len(chain'[n]) >= Len(theirs)
  <2>1. theirs \in Chain
    BY CirculatingTyped
  <2>2. /\ \A m \in Nodes : m # n => chain'[m] = chain[m]
        /\ \A m \in Nodes : Len(chain[m]) \in Nat /\ Len(chain'[m]) \in Nat
        /\ Len(theirs) \in Nat
        /\ Len(chain'[n]) >= Len(chain[n]) /\ Len(chain'[n]) >= Len(theirs)
        /\ \A m \in Nodes : pending[m] => pending'[m]
    BY <1>x, <2>1, ExchangeLens
  <2>3. \A m \in Nodes : Len(chain'[m]) >= Len(chain[m])
    BY <2>2
  <2>4. QED
    BY <1>x, <2>1, <2>2, <2>3, ExchangeKnown
<1>a. ASSUME NEW n \in Nodes, MineBlock(n) PROVE Covered(x)'
  <2>1. /\ chain' = [chain EXCEPT ![n] = Grown(n)] /\ pending' = [pending EXCEPT ![n] = TRUE]
        /\ UNCHANGED <<life, client, orphan, answered>>
    BY <1>a DEF MineBlock
  <2>2. Len(Grown(n)) = Len(chain[n]) + 1 /\ Tip(Grown(n))[1] = n
    BY <1>u, GrownTyped
  <2>3. pending'[n] /\ \A m \in Nodes : pending[m] => pending'[m]
    BY <1>u, <2>1
  <2>4. \A m \in Nodes : Known(chain'[m])
    <3>1. Known(Grown(n))
      BY <2>2, <2>3 DEF Known
    <3>2. \A m \in Nodes : chain'[m] = chain[m] \/ chain'[m] = Grown(n)
      BY <1>u, <2>1
    <3>3. QED
      BY <1>u, <3>1, <3>2
  <2>5. \A m \in Nodes : Len(chain'[m]) >= Len(chain[m])
    BY <1>u, <2>1, <2>2
  <2>6. \A t \in Nodes : Steady(t)
    BY <1>u, <2>1, <2>3, <2>5 DEF Steady
  <2>7. QED
    BY <1>u, <1>v, <1>w, <2>1, <2>4, <2>6
<1>b. ASSUME NEW n \in Nodes, MineStaleBlock(n) \/ Reread(n) \/ Restart(n) PROVE Covered(x)'
  <2>1. UNCHANGED <<life, chain, client, orphan, answered>>
        /\ \A m \in Nodes : pending[m] => pending'[m]
    BY <1>b, <1>u DEF MineStaleBlock, Reread, Restart
  <2>2. \A t \in Nodes : Steady(t)
    BY <1>u, <2>1 DEF Steady
  <2>3. QED
    BY <1>u, <1>v, <1>w, <2>1, <2>2
<1>d. ASSUME NEW n \in Nodes, StartBroadcast(n) PROVE Covered(x)'
  <2>1. PICK list \in Lists : client' = [client EXCEPT ![n] = Between(n, "next", list)]
    BY <1>d DEF StartBroadcast
  <2>2. /\ answered' = [answered EXCEPT ![n] = {}] /\ pending' = [pending EXCEPT ![n] = FALSE]
        /\ UNCHANGED <<life, chain, orphan>>
    BY <1>d DEF StartBroadcast
  <2>3. /\ client'[n].pc = "next" /\ client'[n].msg = <<>>
        /\ \A m \in Nodes : m # n => client'[m] = client[m]
    BY <1>u, <2>1 DEF Between
  <2>4. \A t \in Nodes : Steady(t)
    BY <1>u, <2>2, <2>3 DEF Steady
  <2>5. QED
    BY <1>u, <1>v, <1>w, <2>2, <2>3, <2>4
<1>e. ASSUME NEW n \in Nodes, NEW p \in Nodes, ClientSend(n, p) PROVE Covered(x)'
  <2>1. /\ client' = [client EXCEPT ![n] = [pc |-> "sent", todo |-> client[n].todo \ {p},
                                            peer |-> p, msg |-> chain[n]]]
        /\ UNCHANGED <<life, chain, pending, orphan, answered>>
    BY <1>e, <1>u DEF ClientSend
  <2>2. /\ client'[n].msg = chain[n]
        /\ \A m \in Nodes : m # n => client'[m] = client[m]
    BY <1>u, <2>1
  <2>3. Known(x)
    BY <1>u, <1>w, <2>1, <2>2
  <2>4. CASE Len(x) > 0 /\ Tip(x)[1] = n
    <3> SUFFICES ASSUME Tip(x)[2] = life[n], ~pending[n]
                 PROVE  /\ \A q \in answered[n] : Len(chain[q]) >= Len(x)
                        /\ Len(chain[n]) >= Len(x)
      BY <2>1, <2>2, <2>4 DEF Covered
    <3>1. x \in Circulating
      BY <2>1, <2>3, <2>4 DEF Known
    <3>2. \A q \in answered[n] : Len(chain[q]) >= Len(x)
      BY <2>4, <3>1 DEF CoverInv, Covered
    <3>3. Kept(x, chain, life)
      BY <2>4, <3>1 DEF Circulating, KeptInv
    <3>4. Len(x) \in Nat /\ Len(chain[n]) \in Nat
      BY <1>t, <1>u DEF Chain
    <3>5. Len(chain[n]) >= Len(x)
      BY <2>4, <3>3, <3>4 DEF Kept
    <3>6. QED
      BY <3>2, <3>5
  <2>5. CASE Len(x) > 0 /\ Tip(x)[1] # n
    <3>1. Tip(x)[1] \in Nodes
      BY <1>t, <2>5, TipTyped
    <3>2. Steady(Tip(x)[1])
      BY <1>u, <2>1, <2>2, <2>5, <3>1 DEF Steady
    <3>3. QED
      BY <1>t, <2>3, <3>2, CoverSteady
  <2>6. QED
    BY <2>4, <2>5 DEF Covered
<1>f. ASSUME NEW n \in Nodes, NEW p \in Nodes, ClientRefused(n, p) \/ ClientSendFails(n, p)
      PROVE  Covered(x)'
  <2>1. /\ client' = [client EXCEPT ![n].todo = @ \ {p}] /\ client[n].pc = "next"
        /\ UNCHANGED <<life, chain, pending, answered>>
        /\ \A o \in orphan' : o \in orphan \/ o.msg = <<>>
    BY <1>f DEF ClientRefused, ClientSendFails
  <2>2. /\ client'[n].pc = "next" /\ client'[n].msg = client[n].msg
        /\ \A m \in Nodes : m # n => client'[m] = client[m]
    BY <1>u, <2>1 DEF Client
  <2>3. \A t \in Nodes : Steady(t)
    BY <1>u, <2>1, <2>2 DEF Steady
  <2>4. QED
    BY <1>u, <1>v, <1>w, <2>1, <2>2, <2>3
<1>g. ASSUME NEW n \in Nodes, ClientReceive(n) PROVE Covered(x)'
  <2>1. /\ Exchange(n, client[n].msg)
        /\ client' = [client EXCEPT ![n] = Between(n, "next", client[n].todo)]
        /\ UNCHANGED <<life, orphan, answered>>
    BY <1>g DEF ClientReceive
  <2>2. /\ client'[n].pc = "next" /\ client'[n].msg = <<>>
        /\ \A m \in Nodes : m # n => client'[m] = client[m]
    BY <1>u, <2>1 DEF Between
  <2>3. /\ \A m \in Nodes : Known(chain'[m])
        /\ \A m \in Nodes : pending[m] => pending'[m]
        /\ \A m \in Nodes : Len(chain'[m]) >= Len(chain[m])
    BY <1>u, <1>x, <2>1
  <2>4. \A t \in Nodes : Steady(t)
    BY <1>u, <2>1, <2>2, <2>3 DEF Steady
  <2>5. QED
    BY <1>u, <1>v, <1>w, <2>1, <2>2, <2>3, <2>4
<1>h. ASSUME NEW n \in Nodes, ClientFinish(n) \/ ClientLost(n) \/ ClientReceiveFails(n)
      PROVE  Covered(x)'
  <2>1. /\ \E pc \in {"none", "next", "spinning"}, todo \in SUBSET Nodes :
              client' = [client EXCEPT ![n] = Between(n, pc, todo)]
        /\ UNCHANGED <<life, chain, pending, answered>>
        /\ \A o \in orphan' : o \in orphan \/ o.msg = client[n].msg
    <3>1. client[n].todo \in SUBSET Nodes
      BY <1>u, ClientFields
    <3>2. QED
      BY <1>h, <3>1 DEF ClientFinish, ClientLost, ClientReceiveFails, NoClient, InFlight
  <2>2. /\ client'[n].pc # "sent" /\ client'[n].msg = <<>>
        /\ \A m \in Nodes : m # n => client'[m] = client[m]
    BY <1>u, <2>1 DEF Between
  <2>3. \A t \in Nodes : Steady(t)
    BY <1>u, <2>1, <2>2 DEF Steady
  <2>4. QED
    BY <1>u, <1>v, <1>w, <2>1, <2>2, <2>3
<1>j. ASSUME NEW s \in Nodes, NEW c \in Nodes, Serve(s, c) PROVE Covered(x)'
  <2>1. /\ client[c].pc = "sent" /\ Exchange(s, client[c].msg)
        /\ client' = [client EXCEPT ![c] = [pc |-> "replied", todo |-> client[c].todo,
                                            peer |-> s, msg |-> chain'[s]]]
        /\ answered' = [answered EXCEPT ![c] = answered[c] \cup {s}]
        /\ UNCHANGED <<life, orphan>>
    BY <1>j, <1>u DEF Serve
  <2>2. /\ client'[c].pc = "replied" /\ client'[c].msg = chain'[s]
        /\ \A m \in Nodes : m # c => client'[m] = client[m] /\ answered'[m] = answered[m]
        /\ answered'[c] = answered[c] \cup {s}
    BY <1>u, <2>1
  <2>3. /\ \A m \in Nodes : Known(chain'[m])
        /\ \A m \in Nodes : pending[m] => pending'[m]
        /\ \A m \in Nodes : Len(chain'[m]) >= Len(chain[m]) /\ Len(chain'[m]) \in Nat
        /\ Len(client[c].msg) \in Nat /\ Len(chain'[s]) >= Len(client[c].msg)
    BY <1>u, <1>x, <2>1
  <2>4. Known(x)
    BY <1>u, <1>w, <2>1, <2>2, <2>3
  <2>5. CASE Len(x) > 0 /\ Tip(x)[1] = c
    <3> SUFFICES ASSUME Tip(x)[2] = life[c], ~pending'[c], NEW q \in answered'[c]
                 PROVE  Len(chain'[q]) >= Len(x)
      BY <2>1, <2>2, <2>5 DEF Covered
    <3>1. x \in Circulating /\ ~pending[c]
      BY <2>3, <2>4, <2>5 DEF Known
    <3>2. /\ \A r \in answered[c] : Len(chain[r]) >= Len(x)
          /\ Len(client[c].msg) >= Len(x)
      BY <2>1, <2>5, <3>1 DEF CoverInv, Covered
    <3>3. Len(x) \in Nat /\ answered[c] \subseteq Nodes
      BY <1>t, <1>u DEF Chain
    <3>4. CASE q = s
      BY <2>3, <3>2, <3>3, <3>4
    <3>5. CASE q \in answered[c]
      <4>1. q \in Nodes /\ Len(chain[q]) >= Len(x)
        BY <3>2, <3>3, <3>5
      <4>2. QED
        BY <1>u, <2>3, <3>3, <4>1
    <3>6. QED
      BY <2>2, <3>4, <3>5
  <2>6. CASE Len(x) > 0 /\ Tip(x)[1] # c
    <3>1. Tip(x)[1] \in Nodes
      BY <1>t, <2>6, TipTyped
    <3>2. Steady(Tip(x)[1])
      BY <1>u, <2>1, <2>2, <2>3, <2>6, <3>1 DEF Steady
    <3>3. QED
      BY <1>t, <2>4, <3>2, CoverSteady
  <2>7. QED
    BY <2>5, <2>6 DEF Covered
<1>i. ASSUME NEW s \in Nodes, NEW c \in Nodes, ServeFails(s, c) PROVE Covered(x)'
  <2>1. /\ Exchange(s, client[c].msg) \/ UNCHANGED <<chain, pending>>
        /\ client' = [client EXCEPT ![c].pc = "lost"]
        /\ UNCHANGED <<life, orphan, answered>>
    BY <1>i DEF ServeFails
  <2>2. /\ client'[c].pc = "lost" /\ client'[c].msg = client[c].msg
        /\ \A m \in Nodes : m # c => client'[m] = client[m]
    BY <1>u, <2>1 DEF Client
  <2>3. /\ \A m \in Nodes : Known(chain'[m])
        /\ \A m \in Nodes : pending[m] => pending'[m]
        /\ \A m \in Nodes : Len(chain'[m]) >= Len(chain[m])
    BY <1>u, <1>x, <2>1
  <2>4. \A t \in Nodes : Steady(t)
    BY <1>u, <2>1, <2>2, <2>3 DEF Steady
  <2>5. QED
    BY <1>u, <1>v, <1>w, <2>1, <2>2, <2>3, <2>4
<1>k. ASSUME NEW s \in Nodes, ServeOrphan(s) PROVE Covered(x)'
  <2>1. PICK o \in orphan :
            /\ orphan' = orphan \ {o}
            /\ Exchange(s, o.msg) \/ UNCHANGED <<chain, pending>>
    BY <1>k DEF ServeOrphan
  <2>2. UNCHANGED <<life, client, answered>>
    BY <1>k DEF ServeOrphan
  <2>3. /\ \A m \in Nodes : Known(chain'[m])
        /\ \A m \in Nodes : pending[m] => pending'[m]
        /\ \A m \in Nodes : Len(chain'[m]) >= Len(chain[m])
    BY <1>u, <1>x, <2>1
  <2>4. \A t \in Nodes : Steady(t)
    BY <1>u, <2>2, <2>3 DEF Steady
  <2>5. QED
    BY <1>u, <1>v, <1>w, <2>1, <2>2, <2>3, <2>4
<1>l. ASSUME NEW n \in Nodes, Crash(n) PROVE Covered(x)'
  <2>1. /\ life' = [life EXCEPT ![n] = @ + 1]
        /\ chain' = [chain EXCEPT ![n] = Genesis(n, life[n] + 1)]
        /\ pending' = [pending EXCEPT ![n] = FALSE]
        /\ answered' = [m \in Nodes |-> IF m = n THEN {} ELSE answered[m] \ {n}]
        /\ \A o \in orphan' : o \in orphan \/ o.msg = client[n].msg
    BY <1>l DEF Crash, InFlight
  <2>2. /\ client'[n].pc = "none" /\ client'[n].msg = <<>>
        /\ \A m \in Nodes : client'[m].msg = <<>> \/ client'[m].msg = client[m].msg
        /\ \A m \in Nodes : m # n => client'[m] = client[m] \/ client'[m].pc = "lost"
    BY <1>l, <1>u DEF Crash, Client, NoClient, Between
  <2>3. /\ answered'[n] = {}
        /\ \A m \in Nodes : m # n => /\ chain'[m] = chain[m] /\ life'[m] = life[m]
                                     /\ pending'[m] = pending[m]
                                     /\ answered'[m] = answered[m] \ {n}
    BY <1>u, <2>1
  <2>4. ASSUME NEW t \in Nodes PROVE Steady(t)
    <3>1. CASE t = n
      BY <2>2, <2>3, <3>1 DEF Steady
    <3>2. CASE t # n
      <4>1. answered'[t] \subseteq answered[t] /\ \A p \in answered'[t] : p \in Nodes /\ p # n
        BY <1>u, <2>3, <3>2
      <4>2. \A p \in answered'[t] : Len(chain'[p]) >= Len(chain[p])
        BY <1>u, <2>3, <4>1
      <4>3. QED
        BY <2>2, <2>3, <3>2, <4>1, <4>2 DEF Steady
    <3>3. QED
      BY <3>1, <3>2
  <2>5. CASE x = chain'[n]
    <3>1. Tip(x)[1] = n
      BY <1>u, <2>1, <2>5, GenesisTyped
    <3>2. QED
      BY <2>2, <2>3, <3>1 DEF Covered
  <2>6. CASE x # chain'[n]
    <3>1. x = <<>> \/ x \in Circulating
      BY <1>u, <2>1, <2>2, <2>3, <2>6 DEF Circulating
    <3>2. QED
      BY <1>v, <2>4, <3>1 DEF Known
  <2>7. QED
    BY <2>5, <2>6
<1>p. ASSUME NEW n \in Nodes, BroadcastFails(n) PROVE Covered(x)'
  <2>1. /\ answered' = [answered EXCEPT ![n] = {}] /\ pending' = [pending EXCEPT ![n] = FALSE]
        /\ client[n].pc = "none" /\ UNCHANGED <<life, chain, client, orphan>>
    BY <1>p DEF BroadcastFails
  <2>2. \A t \in Nodes : Steady(t)
    BY <1>u, <2>1 DEF Steady
  <2>3. QED
    BY <1>u, <1>v, <1>w, <2>1, <2>2
<1>n. CASE UNCHANGED vars
  <2>1. UNCHANGED <<life, chain, pending, client, orphan, answered>>
    BY <1>n DEF vars
  <2>2. \A t \in Nodes : Steady(t)
    BY <1>u, <2>1 DEF Steady
  <2>3. QED
    BY <1>u, <1>v, <1>w, <2>1, <2>2
<1>o. QED
  BY <1>a, <1>b, <1>d, <1>e, <1>f, <1>g, <1>h, <1>i, <1>j, <1>k, <1>l, <1>n, <1>p
  DEF Next, ClientStep

-----------------------------------------------------------------------------
\* Every reachable state of the network of nodes is typed.
THEOREM ConsensusTypeCorrect == Spec => []TypeOK
<1>1. QED
  BY InitTypeOK, NextTypeOK, PTL DEF Spec

\* However requests, replies, switches, unlocked appends, failures and crashes interleave,
\* the miner of the last block of a node's chain holds that chain or a longer
\* one until it is restarted: only a longer chain makes a node give up its own.
THEOREM TipsHeld == Spec => []TipHolders
<1>1. Init => TypeOK /\ KeptInv
  BY InitTypeOK, InitKept
<1>2. TypeOK /\ KeptInv /\ [Next]_vars => (TypeOK /\ KeptInv)'
  BY NextTypeOK, NextKept
<1>3. TypeOK /\ KeptInv => TipHolders
  <2> SUFFICES ASSUME TypeOK, KeptInv, NEW n \in Nodes,
                      life[Tip(chain[n])[1]] = Tip(chain[n])[2]
               PROVE  \/ Len(chain[Tip(chain[n])[1]]) > Len(chain[n])
                      \/ chain[Tip(chain[n])[1]] = chain[n]
    BY DEF TipHolders, Tip
  <2>1. QED
    BY DEF KeptInv, Kept
<1>4. QED
  BY <1>1, <1>2, <1>3, PTL DEF Spec

\* Whatever fails, and however requests, replies, unlocked appends and restarts
\* interleave: a peer that answered a miner's latest broadcast has a chain as long
\* as any node's that ends in a block of this miner, although an adopted chain is
\* never forwarded and a failed exchange never repeated.
THEOREM AnsweredAgree == Spec => []AnsweredHaveIt
<1>1. Init => TypeOK /\ KeptInv /\ CoverInv
  BY InitTypeOK, InitKept, InitCover
<1>2. TypeOK /\ KeptInv /\ CoverInv /\ [Next]_vars => (TypeOK /\ KeptInv /\ CoverInv)'
  BY NextTypeOK, NextKept, NextCover
<1>3. KeptInv /\ CoverInv => AnsweredHaveIt
  <2> SUFFICES ASSUME KeptInv, CoverInv, NEW m \in Nodes, NEW p \in Nodes,
                      life[Tip(chain[m])[1]] = Tip(chain[m])[2],
                      ~pending[Tip(chain[m])[1]], p \in answered[Tip(chain[m])[1]]
               PROVE  Len(chain[p]) >= Len(chain[m])
    BY DEF AnsweredHaveIt, Tip
  <2>1. chain[m] \in Circulating /\ Len(chain[m]) > 0
    BY DEF Circulating, KeptInv, Kept
  <2>2. QED
    BY <2>1 DEF CoverInv, Covered
<1>4. QED
  BY <1>1, <1>2, <1>3, PTL DEF Spec
=============================================================================
