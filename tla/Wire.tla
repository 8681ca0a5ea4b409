-------------------------------- MODULE Wire --------------------------------
(***************************************************************************)
(* The byte formats of LeoCoin: commands (networking.c), peer lists         *)
(* (peer_discovery.c) and chains (blockchain.c).                            *)
(*                                                                         *)
(* A buffer is a sequence of bytes.  Bytes have the base Base, an integer   *)
(* of any C type is two bytes, most significant first, and an array is one  *)
(* byte, except that a signature's field has SigSize bytes, of which the    *)
(* first length are meaningful.  The order of the fields, the sizes that    *)
(* are announced, and which fields are converted are the code's.            *)
(***************************************************************************)
EXTENDS Integers, Sequences, SequencesExt

CONSTANTS
    Base,      \* how many values a byte has
    SigSize    \* MAX_SSH_KEY_LENGTH, the size of a signature's field

ASSUME WireAssumption == Base \in Nat \ {0, 1} /\ SigSize \in Nat

\* The kinds of field: an integer in network byte order, an array as it is.
Num == "num"
Raw == "raw"
Size(kind) == IF kind = Num THEN 2 ELSE 1

htobe(v) == <<v \div Base, v % Base>>
betoh(b) == b[1] * Base + b[2]

Layout == [
    register |-> <<Num, Num, Num, Raw, Num>>,        \* family port flowinfo addr scope
    peers    |-> <<Num>>,                            \* num_peers
    peer     |-> <<Num, Num, Num, Raw, Num, Num>>,   \* register and last_connected
    chain    |-> <<Num>>,                            \* leading zeros required
    count    |-> <<Num>>,                            \* num_blocks
    block    |-> <<Num, Raw, Num, Num>>,             \* created hash proof num_transactions
    tx       |-> <<Num, Raw, Raw, Num, Num>>]        \* created from to amount length

Encode(layout, values) ==
    FlattenSeq([i \in DOMAIN layout |->
                   IF layout[i] = Num THEN htobe(values[i]) ELSE <<values[i]>>])

-----------------------------------------------------------------------------
(* What there is to send.  The values have the width of their C types.      *)

Capacity(kind) == IF kind = Num THEN Base * Base ELSE Base
Fields(layout) ==
    {v \in [DOMAIN layout -> Nat] : \A i \in DOMAIN layout : v[i] < Capacity(layout[i])}

Peers == {list \in Seq(Fields(Layout.peer)) : <<Len(list)>> \in Fields(Layout.peers)}

\* A transaction is its five fields and the bytes of its signature.
Transaction ==
    {t \in [fields : Fields(Layout.tx), sig : [1..SigSize -> 0..(Base - 1)]] :
        t.fields[5] <= SigSize}

\* A block is its three fields and its transactions.
BlockData ==
    {b \in [fields : [1..3 -> Nat], txs : Seq(Transaction)] :
        Append(b.fields, Len(b.txs)) \in Fields(Layout.block)}

ChainData ==
    {c \in [zeros : Nat, blocks : Seq(BlockData)] :
        <<c.zeros>> \in Fields(Layout.chain) /\ <<Len(c.blocks)>> \in Fields(Layout.count)}

-----------------------------------------------------------------------------
(* Payloads.                                                               *)

EncodePeer(p) == Encode(Layout.peer, p)

\* peer_info_list_serialize
EncodePeers(list) ==
    Encode(Layout.peers, <<Len(list)>>)
        \o FlattenSeq([i \in DOMAIN list |-> EncodePeer(list[i])])

\* The whole field of the signature is written, whatever its length.
EncodeTx(t) == Encode(Layout.tx, t.fields) \o t.sig

\* The block's fields, the number of its transactions, and these.
EncodeBlock(b) ==
    Encode(Layout.block, Append(b.fields, Len(b.txs)))
        \o FlattenSeq([i \in DOMAIN b.txs |-> EncodeTx(b.txs[i])])

\* blockchain_serialize
EncodeChain(c) ==
    Encode(Layout.chain, <<c.zeros>>) \o Encode(Layout.count, <<Len(c.blocks)>>)
        \o FlattenSeq([i \in DOMAIN c.blocks |-> EncodeBlock(c.blocks[i])])

-----------------------------------------------------------------------------
(* Commands.                                                               *)

COMMAND_PREFIX == 1
COMMAND_REGISTER_PEER == 2
COMMAND_SEND_PEER_LIST == 3
COMMAND_SEND_BLOCKCHAIN == 4

Header == <<Raw, Num, Num>>    \* prefix command command_len
HeaderSize == 5

\* Mutant: the header counts itself.
WithHeaderCounted(command, payload) ==
    Encode(Header, <<COMMAND_PREFIX, command, HeaderSize + Len(payload)>>) \o payload

\* command_header_serialize before a payload that it announces.
WithHeader(command, payload) ==
    Encode(Header, <<COMMAND_PREFIX, command, Len(payload)>>) \o payload

WithLength(command, data) == WithHeader(command, htobe(Len(data)) \o data)

\* The announced size is the struct's, with its padding behind the fields.
command_register_peer_serialize(peer) ==
    WithHeader(COMMAND_REGISTER_PEER, Append(Encode(Layout.register, peer), 0))

command_send_peer_list_serialize(list) == WithLength(COMMAND_SEND_PEER_LIST, EncodePeers(list))

command_send_blockchain_serialize(chain) ==
    WithLength(COMMAND_SEND_BLOCKCHAIN, EncodeChain(chain))

Message ==
    [kind : {COMMAND_REGISTER_PEER}, body : Fields(Layout.register)]
        \cup [kind : {COMMAND_SEND_PEER_LIST}, body : Peers]
        \cup [kind : {COMMAND_SEND_BLOCKCHAIN}, body : ChainData]

\* What a message looks like in the stream.
Serialize(m) ==
    CASE m.kind = COMMAND_REGISTER_PEER   -> command_register_peer_serialize(m.body)
      [] m.kind = COMMAND_SEND_PEER_LIST  -> command_send_peer_list_serialize(m.body)
      [] m.kind = COMMAND_SEND_BLOCKCHAIN -> command_send_blockchain_serialize(m.body)

\* The field of the given kind at position p of a buffer.
FieldAt(buf, p, kind) ==
    IF kind = Num THEN betoh(SubSeq(buf, p + 1, p + 2)) ELSE buf[p + 1]
=============================================================================
