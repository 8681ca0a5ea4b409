------------------------- MODULE MCBlockchainVerify -------------------------
(***************************************************************************)
(* Chains of up to three blocks around every way to break one condition or *)
(* several: four genesis blocks, and later blocks with any predecessor      *)
(* hash, enough or too few zero bytes, and six transaction lists.          *)
(***************************************************************************)
EXTENDS BlockchainVerify

Tx(m, s) == [mint |-> m, sig |-> s]

TxLists == {<<>>, <<Tx(TRUE, "valid")>>, <<Tx(FALSE, "valid")>>,
            <<Tx(TRUE, "invalid")>>,
            <<Tx(TRUE, "valid"), Tx(FALSE, "invalid")>>,
            <<Tx(TRUE, "valid"), Tx(FALSE, "error")>>}

GenesisBlocks ==
    LET good == [hash |-> 1, zeros |-> 0, prev |-> 0, genesisProof |-> TRUE, txs |-> <<>>]
    IN  {good, [good EXCEPT !.prev = 1], [good EXCEPT !.genesisProof = FALSE],
         [good EXCEPT !.txs = <<Tx(TRUE, "valid")>>]}

LaterBlocks == [hash : {1, 2}, zeros : {0, 1}, prev : {0, 1, 2},
                genesisProof : {FALSE}, txs : TxLists]

MCHashes == 0..2
MCInputChains ==
    {<<>>} \cup {<<g>> : g \in GenesisBlocks}
           \cup {<<g, b>> : g \in GenesisBlocks, b \in LaterBlocks}
           \cup {<<g, b, c>> : g \in GenesisBlocks, b \in LaterBlocks, c \in LaterBlocks}
=============================================================================
