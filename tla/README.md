# A TLA+ model of LeoCoin (theblockchainkiller)

LeoCoin is a small proof-of-work cryptocurrency in C. A *miner* process mines
blocks, keeps a blockchain that several threads share, exchanges it with other
miners, and finds those miners through a *bootstrap server*. This directory
models the threads of a miner, several miners exchanging chains, the
verification of chains, the discovery of peers, the byte formats and their
decoders, the descriptor table and the linked list beneath it all; it checks
them with TLC on small instances and proves the main safety properties with
TLAPS for all values of the parameters.

Source references are to `src/src/*.c` and `src/include/*.h` of the repository.

## 1. Inventory

| Component | State | Operations | Talks to |
|---|---|---|---|
| Mining thread, `mining_thread.c` | pointer to the chain it mines, the version it believes to mine, broadcast thread handle | `mine_blocks`, `broadcast_blockchain` | synchronized blockchain (pointer and version under its mutex, the append without), spawns and joins the broadcast thread |
| Consensus server, `consensus_peer_server_thread.c` | none between requests | `run_consensus_peer_server`, `handle_one_consensus_request` | peers (receives a chain, replies with the longest), may replace the published chain |
| Consensus client, `consensus_peer_client_thread.c` | a copy of the peer list | `run_consensus_peer_client`, `..._once` | peers (sends the chain, receives theirs), may replace the published chain |
| Synchronized blockchain, `blockchain.c` | `blockchain` pointer, atomic `version`, `mutex` | create, destroy, `synchronized_blockchain_mine_block` | all three threads |
| Blockchain, block, transaction | list of blocks, hashes, signatures | add, mine, verify, serialize, deserialize, read and write files | OpenSSL, the file system |
| Discovery thread, `peer_discovery_thread.c` | the miner's peer list | `discover_peers`, `discover_peers_once` | bootstrap server; shares the list with the consensus client |
| Bootstrap server, `peer_discovery_bootstrap_server_thread.c` | list of peers with the time of their last connection | `handle_peer_discovery_requests`, `handle_one_peer_discovery_request` | all peers |
| Networking, `networking.c` | none | command codecs, `recv_all`, `send_all` | sockets |
| Linked list, `linked_list.c` | nodes | create, destroy, prepend, append, find, remove, length | everything above |
| Programs: `miner.c`, `peer_discovery_bootstrap_server.c`, `peer_discovery_client.c` | | start-up order, teardown | |
| Helpers: `hash.c`, `endian.c`, `base64.c`, `sleep.c` | none | conversions | |

What is hard here, and what would make each part correct:

* **Sharing the chain.** The miner keeps a raw pointer to the chain across
  iterations and appends a block to it *without* the mutex
  (`mining_thread.c:184`), while two other threads compare lengths, replace the
  published pointer and serialize the chain under the mutex. Correct means: no
  chain is freed while somebody uses it, no chain becomes invalid, the published
  chain never gets shorter, what is sent can be read by the receiver, the miner
  notices that the chain was replaced.
* **Stopping.** The miner joins a thread that competes for the same mutex and
  that talks to peers. Correct means: a stop request ends every thread.
* **Verification.** Nested loops with nine exits decide about every chain from
  outside. Correct means: exactly the documented conditions, and the first bad
  block.
* **Discovery.** The server drops peers it has not heard of for the keepalive
  time, measured in whole seconds, in a loop that removes nodes from the list it
  walks; peers crash, come back and lose attempts. Correct means: a running peer
  is never dropped, a dead one is in the end, peers find each other.
* **Agreement.** Nodes exchange whole chains and keep the longer one; nobody
  forwards a chain it adopted, and a server handles one peer at a time. Correct
  means: a chain reaches everyone its miner told about it, nobody loses a chain it
  told others about, nobody waits in a circle, and what a failed exchange left
  behind is made up for.
* **Bytes.** Lengths are announced twice, read in pieces, and checked before each
  field. Correct means: what is accepted is what was sent, and each of the many
  error paths frees what exists.
* **Resources.** Four threads share the descriptor table; failed exchanges do not
  give their socket back. Correct means: nobody closes another's descriptor.
* **The list.** The miner appends to the list of blocks while others walk it.
  Correct means: readers see complete nodes and a length the list had.
* **Failure.** End of stream, failing allocations, thread creation and name
  lookups are handled in the middle of multi-step operations.

PROJECT.json lists these as hazards, each at its line, with the properties that
cover it.

## 2. Modules

| Module | What it is |
|---|---|
| `MinerNode` | the three threads of a miner around the synchronized blockchain |
| `PublishedChain` | abstract specification: what a miner promises about the chain it publishes |
| `MinerNodeProofs` | proofs about `MinerNode`, among them that it implements `PublishedChain` |
| `Consensus`, `ConsensusProofs` | several miners that exchange chains, end and restart |
| `BlockchainVerify`, `BlockchainVerifyProofs` | `blockchain_verify` as its loops, against the conditions of `blockchain.h` |
| `PeerDiscovery`, `PeerDiscoveryProofs` | discovery threads, bootstrap server and time |
| `Wire` | the byte formats of commands, peer lists and chains |
| `Transfer`, `TransferProofs` | `send_all`, `recv_all`, the outfile and the decoders over `Wire` |
| `Descriptors`, `DescriptorsProofs` | the descriptor table of a miner process |
| `ListSpec`, `LinkedList`, `LinkedListProofs` | a sequence, and `linked_list.c` shown to implement it |
| `LeastElement` | the form of induction that the proofs use |
| `MC*` | instances for TLC (`Descriptors` needs none) |

How they fit together: `MinerNode` has the finest steps and arbitrary peers;
`Consensus` puts several nodes together with the steps of a critical section
merged, and takes from `MinerNode` that chains stay valid. `Consensus` is given
the peer lists that `PeerDiscovery` produces. `MinerNode` treats serialization as
a count and a body and the list as its length; `Transfer` and `LinkedList` show
what that leaves out. `Descriptors` looks at the same threads once more and keeps
only their sockets and the outfile.

Operators whose comment starts with "Mutant" are deliberately wrong versions of
the operator that follows them; no specification uses them. They exist to
confirm that each property fails when the code is wrong (PROJECT.json,
"mutants").

### MinerNode

*State.* A chain object is an entry of `heap`; a pointer is its index. Of a
chain the model keeps the length, the difficulty it claims (`zeros`) and whether
`blockchain_verify` accepts it (`ok`). `syncPtr`, `version` and `mutex` are
`sync->blockchain`, `sync->version`, `sync->mutex`; `freed` the pointers that
were destroyed; `stop` and `exitReady` the flags of the threads. Variables with
the prefix `m`, `s`, `c` (and `minerPtr`, `oldPtr`, `mined`, `block`, `handle`)
are local to the miner, the server and the broadcast thread.

*Actions.* One per stretch of code between two accesses to shared state, so that
every order of the accesses that the threads can produce is a behaviour:

* miner: `MinerStart` (first pointer read), `MinerCheck` (loop head),
  `MinerReread`, `MinerDestroy`, `MinerStore` (the switch to a new chain in its
  three steps: pointer under the mutex, destroy the old chain, load the
  version), `MinerPrepare` (verify, minting transaction, block), `MineLock`,
  `MineAttempt` (= `MineStopped`, `MineSwitched`, `MineFound`, `MineExhausted`,
  `MineFails`, or another nonce), `MinerAppend` (unlocked), `MinerAppendFails`,
  `MinerJoin`, `MinerSpawn`, `MinerExitJoin`, `MinerExit`;
* server: `ServerCheck`, `ServerIdle`, `ServerReceive`, `ServerHang`,
  `ServerLock` (mutex and length), `ServerCompare` (decide and switch),
  `ServerCount`, `ServerBody` (the two halves of `blockchain_serialize`),
  `ServerSerializeFails`, `ServerReply`;
* broadcast thread: `ClientCopy`, `ClientConnect`, `ClientCount`, `ClientBody`,
  `ClientSerializeFails`, `ClientReceive`, `ClientHang`, `ClientLock`, `ClientCompare`, `ClientFinish`.

Mining holds the mutex only while it reads the last block
(`blockchain.c:225-252`), which is atomic here. `handle` is the `pthread_t` of the
broadcast thread: it is uninitialised at first, and joining it is undefined
behaviour, modelled as a choice between returning and ending in `crashed`.
`Faults` says what the environment may do wrong: `early` (a peer is served before
`mine_blocks` reads the pointer), `hangup` (a peer closes in the middle of an
exchange, which `recv_all` does not notice), `nomem` (an allocation, a hash or a
signature fails while a block is prepared, hashed or appended or a chain is
serialized), `nospawn`. `PeerLens` are the lengths of the chains peers send.

### Consensus

*State.* `chain[n]` is the published chain of node n, a sequence of blocks; a
block is its miner and that miner's life (how often it was restarted), which with
the blocks before it identifies it. `lag[n]`: the miner still extends a chain that
was replaced. `pending[n]`: a block was appended and not yet broadcast. `client[n]`
is the broadcast thread with the peers still to be visited and the chain last sent
in either direction; `orphan` holds requests whose sender ended or gave up;
`wedged` the servers that stay in `recv_all` or `send_all`; `answered[n]` who has
handled a request of n's latest broadcast (a history variable, which no action
reads). `faults` counts the processes that ended and the calls that failed, up to
`MaxFaults`.

*Actions.* `MineBlock`, `MineStaleBlock`, `Reread`, `StartBroadcast` of the miner;
`ClientSend`, `ClientRefused`, `ClientReceive`, `ClientFinish`, `ClientLost` of the
broadcast thread; `Serve`, `ServeOrphan` of the server; `Crash` and `Restart` of
the process. An exchange with a running peer may fail: `BroadcastFails` (the thread
cannot be created, or cannot copy the list), `ClientSendFails` (socket, connect,
serialization or send), `ClientReceiveFails` (receive, allocation, decoding),
`ServeFails` (the handler gives up before or after its switch). In each case the
loop goes on with the next peer and nobody repeats the exchange: the peer stays
behind until the next block is broadcast. A server that is running is assumed to
get through `poll` and `accept`; that these fail when descriptors run out is in
`Descriptors`. `Exchange` is the comparison both sides make under the mutex. Its
second disjunct is the miner's unlocked append between the read of our length and
the switch: the block just appended is then lost to a chain that is only as
long. Nothing is read back from the outfile, so a restarted node begins with a
genesis block of its own.

### BlockchainVerify

`chain` is arbitrary; `i`, `j` are the positions of the two loops, `prevHash` the
hash expected next. One action per exit region: empty list, genesis block,
header checks of a block, one signature, end of a block, end of the chain.
`ValidChain` states the four conditions of `blockchain.h:166-176` directly. `first`
is `*first_invalid_block`, 0 where the code leaves it unset.

### PeerDiscovery

`list` is the server's list, each entry with its *age* instead of a date;
`prev` and `node` are the variables of the prune loop; `queue` holds the
connections; `st`, `timer`, `miss`, `answer`, `known` are the peers. Every
peer is `sleep`ing, `waiting` for a reply, `answered`, `hung` (in `recv_all` for
ever) or `down`. Actions: `Connect`, `ConnectFails`, `Receive`, `Reset`, `Crash`,
`CrashConnected`, `Restart` of a peer; `BootAccept`, `BootFindFreed`,
`BootPrepend`, `BootUpdate`, `BootPruneStart`, `BootKeep`, `BootRemove`,
`BootReply` of the server; `Tick` of the clock.

Time is discrete, as `time()` is. `Tick` waits for steps that are due: a sleep
lasts exactly `Interval`, an exchange at most `Delay` (waiting for the backlog
included), as long as the server works; a failed connect takes no time of its own,
so a connect that only fails when TCP gives up, after minutes, is outside of the
timing assumption. A `getnameinfo` failure (`Faults` contains
`resolver`) takes each of the four branches the code has for it: it ends the
server at accept, leaves a freed entry after a prepend, and loses the reply after
an update or in the prune loop. What happens after a freed entry is touched is
undefined; the model stops there (`broken`).

### Wire and Transfer

`Wire` writes each format as the sequence of its fields: which are converted to
network byte order, which are copied, which sizes are announced, and that a
registration announces the size of the struct with its padding. Integers of every
C type are two digits of a base `Base` and arrays are one byte, except a
signature, whose field of `SigSize` bytes is longer than what is meaningful in it.
`htobe` and `betoh` do what `endian.c` does with eight bytes of base 256. `Peers`,
`ChainData` and `Message` are the values that fit their C types: every number is
below `Capacity` of its field, no list is longer than its count can say, and a
signature's length is at most the size of its field. `TransferAssumption` says
that what is sent is of this kind and that its size fits `command_len`, a
`uint64_t` in the code.

`Transfer` moves one serialized message through a connection or the outfile.
`SendSome` and `RecvSome` take any number of bytes, `SenderCloses` may come at any
time (for a file: the process ends after `fopen` emptied it), `RecvEnd` is the end
of the stream that `recv_all` takes for no bytes. `HeaderDone`, `RegisterDone` and
`BodyDone` are the command codecs; `ReadField` is one bounds check and one field
of a decoder, the `...Complete` actions what the decoder does after a group of
fields. `heap` is what the decoder holds, and every allocation may fail. The
bytes always come from the program's own serializers, whole or cut short; what the
decoders do with other bytes is not modelled. `overread` records that the copy of a
signature's field left the buffer.

### Descriptors

`table` is the set of open descriptors, new ones being the lowest free number.
The server, the broadcast thread, the discovery thread and the miner each have a
position and the descriptors they hold. `ServerListen`, `ServerAccept`,
`ServerClose`; `ClientSocket`, `ClientClose`, `ClientFail`, `ClientFinish`;
`DiscoverySocket`, `DiscoveryClose`, `DiscoveryFail`; `SaveOpen`, `SaveClose`,
`MinerBroadcast`. The `...Fail` actions forget a socket without closing it, as
the error paths do; each one is counted in `failures`.

### LinkedList

Cells with `data` and `next`, finitely many, handed out by `malloc` in any order;
`Nodes` is what the pointers reach from `head`. The owner
prepends, removes the first node, finds and destroys with nobody else inside;
`linked_list_append` is split at each access to memory (`AppendStart`,
`AppendWalk`, `AppendAlloc`, `AppendFill`, `AppendLink`) and runs beside a reader
that walks the list (`ReaderStart`, `ReaderStep`, `ReaderEnd`), because the miner
appends to the published chain without the mutex. Stores are taken to become
visible in program order: the build sets no optimization, and x86-64 keeps the
order of stores; the C standard alone would not promise it.

## 3. What TLC checks

Runs that pass:

| Run | Instance | Shows |
|---|---|---|
| `node_safety` | chains up to 3 blocks, 1 peer per broadcast, all faults but `early` (1.3 million states) | `NoUseAfterFree`, `ChainsStayValid`, `WireComplete`, `ReplyIsLongest`, `ExitMeansQuiet` (when `mine_blocks` raises `exit_ready`, no broadcast thread uses the caller's arguments), `PublishedRefines`, types |
| `node_liveness` | chains up to 3 blocks, peers that send chains of 2 and 3 blocks or invalid ones and hang up, fairness | `MinerCatchesUp`: a switch is noticed, also one that the broadcast thread makes while the miner waits to join it; `MinerStops`, `ServerStops`: each thread ends unless a peer hung up on it |
| `consensus` | 2 nodes that know each other and themselves, chains up to 3 blocks, one fault (a process ends and may restart, or any call of an exchange fails), fairness (620,000 states) | `TipHolders`; `AnsweredHaveIt`: who answered a miner's latest broadcast has a chain as long as any that ends in that miner's block; `AllCatchUp`: the broadcast of one more block after the fault brings all nodes to its length, unless the fault left a thread in `recv_all` or `send_all` for ever |
| `verify_loop` | all chains of up to 3 blocks built from good and bad blocks with up to 2 transactions | `VerdictCorrect`, `FirstInvalidIsFirst` (no other block than the first bad one is reported), `VerifyTerminates` |
| `discovery_prune` | 3 peers, all faults | `ReplyFresh`: nothing expired and nothing twice in a reply |
| `discovery_liveness` | 2 peers that crash, restart and lose an attempt, all faults, Delay 1, Keepalive at its minimum, fairness (690,000 states) | `LivePeersListed`; as long as the server goes on serving, `PeersMeet` and `DeadForgotten` |
| `transfer` | each command, and four chains in the outfile, split and cut everywhere, every allocation failing, every command sent to every handler | `AcceptedIsSent`, `WholeIsAccepted`, `NoDecoderLeak` (of what the decoders allocate; the buffers of their callers are not in it), `SentIsHandled` |
| `descriptors` | 7 descriptors, up to 2 peers | `NoSharedDescriptor`, `FailuresAloneExhaust`: the server's end and a chain that is not saved need enough failed exchanges |
| `linked_list` | 4 cells, 2 data | `IsList` (refinement of `ListSpec`), `NoLostNode`, `ReaderSeesOnlyWholeNodes`, `ReaderCountsSnapshot`, `FindsFirst` |

Runs that show where the code does less than a header says ("findings" in
PROJECT.json quotes the lines):

| Run | Property | What happens |
|---|---|---|
| `node_stale_miner` | `MinesPublishedChain` | a second switch between the pointer read and the version load is taken for seen; the miner works on a chain nobody publishes until the next switch |
| `node_early_switch` | `NoUseAfterFree` | the server is started before `mine_blocks` reads the pointer; a switch in that window makes it free the published chain |
| `verify_first_invalid` | `FirstInvalidFilled` | a block without transactions makes the chain invalid and `first_invalid_block` stays NULL (`blockchain.c:434-437`), which `mining_thread.c:107` dereferences |

More differences are in the models without a run of their own, because a
property would only repeat the branch that shows them:

* `pthread_join` gets an uninitialised `pthread_t` before the first broadcast
  (`mining_thread.c:195`, `199`; `JoinBroadcast` may end in `crashed`).
* `recv_all` calls `recv` for ever at the end of a stream (`networking.c:473`):
  the thread ends up `spinning`, and whoever joins it waits. `mining_thread.h:36-39`
  promises a graceful stop. In the bootstrap server (`cut` in `Faults`) it stops
  all peers; `PeersMeet` and `DeadForgotten` are about servers it has not happened
  to (`Working`) and peers that are not `hung` themselves (`Live`).
* A failed exchange is not repeated, and an adopted chain is not forwarded: the
  peer stays behind until the miner's next broadcast
  (`consensus_peer_client_thread.c:221-229`, `mining_thread.c:196`).
* A block appended without the mutex is lost to a chain that is only as long
  (`Exchange`); `consensus_peer_server_thread.h:24-26` speaks of a longer chain.
* An error return of `mine_blocks` jumps past the lines that set `exit_ready` and
  join the broadcast thread (`MinerPrepare`, `MineFails` and `MinerAppendFails` end in
  `failed`).
* A chain that is installed and replaced before the miner re-reads the pointer is
  freed by nobody (`MinerDestroy`).
* A name lookup that fails after a prepend frees an entry that stays linked
  (`peer_discovery_bootstrap_server_thread.c:96`).
* A torn outfile that ends inside the last signature's field is read past its end
  (`TxComplete` sets `overread`): `blockchain.c:756-772` checks that as many bytes
  are left as the signature's length announces and then copies all 512 of its
  field. `test_blockchain_deserialize_fails_on_attempted_read_past_buffer`
  (`tests/test_blockchain.c:569-586`) expects FAILURE_BUFFER_TOO_SMALL of a cut
  buffer, and tries it on a chain without transactions, where every field is
  checked. The chain that is accepted is still the one that was written
  (`AcceptedIsSent`).
* Failed exchanges keep their socket open; at the limit of the table the consensus
  server's thread ends and chains are no longer saved (`ServerAccept`, `SaveOpen`).

**Bounds.** `MaxLen` and `PeerLens` bound chains, and with them switches, because
a switch needs a chain longer than the length that was read: with 3 there are two
switches and appends between them, which the stale pointer and the tie
need; each further switch meets the same combinations of positions of the three
threads. One peer per broadcast already makes two broadcasts overlap with mining
and serving. `node_liveness` leaves out chains of no or one block, which no node
ever switches to and which are handled like invalid ones. In `Consensus`, chains of
three blocks make a fork of two nodes, its end, and a block after it, which is what
makes up for the one fault before; every node also exchanges with itself, as the
bootstrap server lists the asking peer too. More nodes and more faults are left to
the proofs of `TipHolders` and `AnsweredHaveIt`. For verification, three blocks make a
first, a middle and a last block, and two transactions a minting and an ordinary
one. Three entries make the prune loop remove at the head, in the middle and at
the end, and twice in a row. Two peers are enough for timing, because entries do
not influence each other's age. `Backlog` 2 lets a dead connection queue before a
live one. In `Transfer` base 7 keeps every length representable in two digits
and makes both digits of a number matter; the signature's field has one byte more
than the shortest signature. Seven descriptors are two more than the threads need,
so that leaks both fit and do not. Four cells hold lists of up to three nodes with
one being appended.

**Fairness.** `MinerNode` assumes weak fairness of each thread: the scheduler
runs a thread that can run; and strong fairness of the steps that take the mutex,
since other threads take and release it repeatedly and `pthread_mutex_lock`
returns in the end. `MineFound` gets none of its own: no property relies on
finding a block. A crashed process takes no step. `Consensus` assumes weak
fairness of what a node's broadcast goes through when nothing fails
(`BroadcastStep`: its start, the thread's steps, and the server it waits for, since
`accept` takes connections in their order); nothing is assumed of mining, of a miner
that notices a switch, of restarts, or of calls that may fail. In
`PeerDiscovery` the server, each peer and the clock are weakly fair; crashes and
restarts are not fair, and a restart takes at least a second, so that the clock is
not held up by crashes. In `Transfer` only the receiver is fair; in
`BlockchainVerify` the loop is.

Deadlock is checked where the system never stops; `consensus` and `transfer`
end when the bounds on mining are reached or the message is handled.

## 4. What is proved

TLAPS checks the theorems for every value of the constants that satisfies the
assumptions named in the modules.

*MinerNodeProofs*: `TypeCorrect`; `ValidityHolds`; `MemorySafety` (under
`"early" \notin Faults`, without which it is false); `WireHolds`; `ReplyHolds`;
`ExitHolds`; `Refinement` (`Spec => PublishedChain's Spec`). None of these is inductive. The
strengthening has five parts:

* `LockInv`: the mutex is held exactly inside the critical sections, and the
  broadcast thread runs only between `MinerSpawn` and a join, which is why
  `exit_ready` comes after its end;
* `PtrInv`: pointers are versions plus one, the miner's pointer never runs ahead
  of the version it recorded, and everything freed lies below it. This is why
  reading the pointer before the version is safe for memory (although it makes
  the version lie, see `node_stale_miner`);
* `BlockInv`: a block under construction extends the chain the miner points to;
* `LenInv`: while a thread that read length n is in its critical section, the
  published chain is n long, or n + 1 and then the miner cannot append again,
  because it needs the mutex for its next block. So a switch to a chain longer
  than n never shortens the published chain, which the refinement needs;
* `WireInv`: counts that were taken stay below the length.

*ConsensusProofs*: `ConsensusTypeCorrect` and `TipsHeld`, for any number of nodes,
any peer lists, chains of any length and any number of crashes and failed
exchanges. `TipHolders`
speaks of the chains of the nodes only and is not inductive, because chains are
adopted from requests, replies, and requests whose sender ended or gave up. The
invariant `KeptInv` says of every chain in circulation that its last block was
mined in its miner's present life or an earlier one, and that in the present life
the miner holds this chain or a longer one. A node changes its chain only by
`Improves`: to a longer one, or by its own block; a chain lost in a tie was seen by
nobody else. A crash begins a new life, which makes the old tips vacuous.

`AnsweredAgree` proves `AnsweredHaveIt` under the same conditions: no peer list has
to be complete and no exchange has to succeed. `CoverInv` says of every chain c in
circulation whose last block is of the present life of its miner m: unless m has a
new block to broadcast, everybody who answered m's latest broadcast has a chain as
long as c, and a request of m that is on its way carries one as long. The second
part is what the next answer rests on. A chain that enters circulation is one that
circulated before, or has a new block on top, and then its miner's broadcast is due
(`Known`); steps that only make chains longer keep the rest (`Steady`). `KeptInv` is
needed for the request: m sends the chain it holds, and it holds c or a longer one.

*BlockchainVerifyProofs*: `VerifyTypeCorrect`, `VerifyCorrect` and
`FirstInvalidCorrect` for chains of every length. The loop invariant: all blocks
before the current one meet their conditions, `prevHash` is the hash of the block
before, the current header is good while signatures are checked, and the
signatures before `j` are valid. `FirstInvalidCorrect` says that a block is reported
only for an invalid chain and that it is the first that breaks a condition; that one
is always reported is false (`verify_first_invalid`).

*PeerDiscoveryProofs*: `DiscoveryTypeCorrect`, `RepliesFresh` and
`LivePeersStayListed`, for any number of peers and any timing with
`2 * Delay + (MaxMisses + 1) * Interval <= Keepalive`. The default values of the
code, 20 s and 60 s, satisfy it for one lost attempt and exchanges of up to 10 s;
they do not for two lost attempts. The invariant gives each peer a budget:
`Limit(p)` bounds the age of p's entry, and is what is left of Keepalive when the
remaining sleeps, retries and exchanges are subtracted. `Tick` takes from the
timer what it adds to the age; other steps keep the limit or register p anew; no
limit exceeds Keepalive, so the loop never unlinks the entry. `QueueInv` says that an
open connection belongs to a waiting peer and that there is one per peer, `LoopInv`
that everything before `node` is fresh.

*DescriptorsProofs*: `DescriptorsTypeCorrect`, `DescriptorsApart` and
`FailuresPayForExhaustion`, for a table of any size, any number of peers and any
number of failures. `Apart` says that what the threads hold is open and different;
it needs that the lowest free number exists and is free. `Account` keeps the
books: the open descriptors that no thread holds are at most as many as the failed
exchanges. So a full table means `failures` of at least `Limit` minus what the
threads hold, of which there are at most five, which is `FailuresAloneExhaust`.

*LinkedListProofs*: `ListTypeCorrect`, `ListLosesNoNode`, `ReaderIsSafe`,
`ReaderIsExact`, `FindIsExact` and `ListImplementsSequence` (`Spec => IsList`, step
by step), for any finite memory and any data. The invariant `PathInv` does not
speak of `Nodes`: there is a sequence of different cells, the path, such that
`head` and the `next` pointers are those of the path and `NULL` behind it, `malloc`
gave out exactly these cells and the one being appended, and the owner and the
reader stand at known places of it. Each operation extends or shortens the path at
an end; in between an append leaves the path alone until `AppendLink`. That
`Nodes` is the path is then shown by induction along it; the memory must be
finite, because a path of different cells is no longer than
`Cardinality(Cells)`, up to which `Nodes` follows the pointers.

*TransferProofs*: `TransferTypeCorrect`, `RoundTrip`, `NoFalseReject`
and `DecoderFreesAll`, for peer lists, chains and transactions of
any number, any base and any size of signature, within `TransferAssumption`. The
proof has three layers.

* Bytes: `Holds(b, o, e)` says that buffer b has the bytes e behind the first o.
  `Offsets` gives the place of each element in a concatenation; from it come the
  places of fields, peers, transactions and blocks in a payload, and that
  `FieldAt` returns the value that was encoded there.
* Decoder: `Built` says that the peers, transactions and blocks built so far mean
  what the first ones of the message mean, and that built, current and left make
  the announced number; `Reading` that the fields read so far are the message's
  and that `pos` is the place of the next one. Each `...Complete` step moves to the
  next group and keeps both. Signatures are compared up to their length only: the
  bytes behind it are copied and never looked at.
* Transfer: `BufInv` says that the buffer is a beginning of the payload, shorter
  only if a file was cut (`Torn`). A bounds check therefore fails only in a torn
  file, which is `WholeIsAccepted`; and a torn file is never accepted with a part
  missing, since a decoder ends only behind the last field.
  `HeapInv` names what is allocated in each group of fields (`Held`); an error path
  that frees less than that would break `NoDecoderLeak`.

The backends do no induction. Where a fact holds by induction, on the length of a
list, a path or a buffer, the proofs take the least counterexample, which
`LeastNat` (*LeastElement*) provides, and refute it from its predecessor.

Only model-checked:

* the liveness properties (`MinerCatchesUp`, `MinerStops`, `ServerStops`,
  `AllCatchUp`, `PeersMeet`, `DeadForgotten`, `SentIsHandled`,
  `VerifyTerminates`): fairness and ENABLED are out of the prover's reach;
* the three violations, which are counterexamples of an instance.

Every invariant and both refinements of the passing runs have a theorem.

## 5. What is not modelled

* Hashes and signatures: SHA-256 and OpenSSL are represented by their outcomes;
  `hash.c` and `base64.c` have no state.
* Arguments: the NULL checks at the head of each function, and failing
  `pthread_mutex_lock` and `unlock`, which cannot fail on these mutexes.
* Command lines and key files of the three programs; `peer_discovery_client.c` is
  one call of `discover_peers` around them.
* The teardown of `main` after `mine_blocks` returned: `main` never asks it to
  stop, so this happens only after an error, and the process ends at once.
* Restarts of the bootstrap server, and stop requests to it: its program makes none.
* `SIGPIPE` from `send_all` to a peer that has closed.
* `blockchain_mine_block`, the variant without synchronization, which only tests
  use, and the printing functions.

## 6. Plan

The parts of the repository that have state are modelled, and the safety
properties of the runs are proved. What remains:

1. Action properties that the invariants already imply and no run states yet: a
   published version never goes back, and a peer's entry is unlinked only by the
   prune loop.
2. A composition of `Consensus` and `PeerDiscovery`, in which the peer lists change
   between broadcasts as discovery goes on.
3. `TransferProofs` is the longest module; the facts about `FlattenSeq` and about
   places in buffers could serve other formats on their own.
