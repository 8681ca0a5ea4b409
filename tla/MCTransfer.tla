----------------------------- MODULE MCTransfer -----------------------------
(* The messages of the run: integers that differ from field to field, lists *)
(* of no and of two peers, chains of the genesis block alone and with       *)
(* transactions whose signatures are shorter than and as long as the field. *)
EXTENDS Transfer

Reg == <<10, 20, 1, 3, 30>>
PeerA == <<10, 20, 1, 3, 30, 40>>
PeerB == <<10, 21, 0, 2, 7, 41>>

Tx(length) == [fields |-> <<8, 1, 2, 9, length>>, sig |-> <<4, 5>>]
GenesisBlock == [fields |-> <<6, 0, 0>>, txs |-> <<>>]
BlockOf(txs) == [fields |-> <<7, 3, 33>>, txs |-> txs]
ChainOf(blocks) == [zeros |-> 2, blocks |-> blocks]

MCChains == {ChainOf(<<GenesisBlock>>),
             ChainOf(<<GenesisBlock, BlockOf(<<Tx(1)>>)>>),
             ChainOf(<<GenesisBlock, BlockOf(<<Tx(2), Tx(1)>>)>>),
             ChainOf(<<BlockOf(<<Tx(1)>>), BlockOf(<<Tx(2)>>)>>)}

MCMessages ==
    {[kind |-> COMMAND_REGISTER_PEER, body |-> Reg]}
    \cup [kind : {COMMAND_SEND_PEER_LIST}, body : {<<>>, <<PeerA, PeerB>>}]
    \cup [kind : {COMMAND_SEND_BLOCKCHAIN},
          body : {ChainOf(<<GenesisBlock>>), ChainOf(<<GenesisBlock, BlockOf(<<Tx(1)>>)>>)}]
=============================================================================
