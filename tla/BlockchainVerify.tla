-------------------------- MODULE BlockchainVerify --------------------------
(***************************************************************************)
(* blockchain_verify (blockchain.c:358-478) as the loop it is: one step for *)
(* the genesis block, one for the header checks of each later block, one    *)
(* for each signature.  It is run on an arbitrary chain and compared with   *)
(* the declarative conditions that blockchain.h lists.                     *)
(*                                                                         *)
(* A block keeps what the checks look at: its hash and the number of        *)
(* leading zero bytes of it (block_hash, SHA-256), the hash it names as its *)
(* predecessor, whether its proof of work is the genesis number, and its    *)
(* transactions.  Of a transaction: whether it is a minting transaction     *)
(* (amount 1, sender = recipient) and what transaction_verify_signature     *)
(* answers, where "error" is a public key OpenSSL cannot read.             *)
(***************************************************************************)
EXTENDS Naturals, Sequences

CONSTANTS
    Hashes,        \* block hashes
    ZeroHash,      \* the all-zero previous hash of a genesis block
    Zeros,         \* num_leading_zero_bytes_required_in_block_hash
    InputChains    \* the chains that are verified

Transaction == [mint : BOOLEAN, sig : {"valid", "invalid", "error"}]

Block == [hash : Hashes, zeros : Nat, prev : Hashes,
          genesisProof : BOOLEAN, txs : Seq(Transaction)]

ASSUME InputAssumption ==
    /\ ZeroHash \in Hashes
    /\ Zeros \in Nat
    /\ InputChains \subseteq Seq(Block)

VARIABLES
    chain,     \* blockchain->block_list, not modified
    pc,        \* "genesis", "header", "sigs" or "done"
    i,         \* current_node, as an index
    j,         \* transaction_node of the current block, as an index
    prevHash,  \* previous_block_hash
    verdict,   \* *is_valid_blockchain when done: "valid" or "invalid",
               \* "error" when a return code other than SUCCESS is returned
    first      \* *first_invalid_block, 0 for NULL

vars == <<chain, pc, i, j, prevHash, verdict, first>>

Init ==
    /\ chain \in InputChains
    /\ pc = "genesis" /\ i = 1 /\ j = 1
    /\ prevHash = ZeroHash
    /\ verdict = "invalid" /\ first = 0

Return(v, block) == pc' = "done" /\ verdict' = v /\ first' = block

-----------------------------------------------------------------------------
GenesisOK(b) == b.txs = <<>> /\ b.genesisProof /\ b.prev = ZeroHash

VerifyEmpty ==
    /\ pc = "genesis" /\ chain = <<>>
    /\ Return("valid", 0)
    /\ UNCHANGED <<chain, i, j, prevHash>>

VerifyGenesis ==
    /\ pc = "genesis" /\ chain # <<>>
    /\ IF GenesisOK(chain[1])
         THEN /\ prevHash' = chain[1].hash
              /\ i' = 2 /\ pc' = "header"
              /\ UNCHANGED <<verdict, first>>
         ELSE /\ Return("invalid", 1)
              /\ UNCHANGED <<i, prevHash>>
    /\ UNCHANGED <<chain, j>>

\* Mutant: does not restart at the first transaction of the next block.
VerifyNextBlockKeepsIndex ==
    /\ pc = "sigs" /\ j > Len(chain[i].txs)
    /\ prevHash' = chain[i].hash
    /\ i' = i + 1 /\ pc' = "header"
    /\ UNCHANGED <<chain, j, verdict, first>>

\* All signatures of a block hold: its hash becomes the expected predecessor.
VerifyNextBlock ==
    /\ pc = "sigs" /\ j > Len(chain[i].txs)
    /\ prevHash' = chain[i].hash
    /\ i' = i + 1 /\ j' = 1 /\ pc' = "header"
    /\ UNCHANGED <<chain, verdict, first>>

VerifyEnd ==
    /\ pc = "header" /\ i > Len(chain)
    /\ Return("valid", 0)
    /\ UNCHANGED <<chain, i, j, prevHash>>

\* Mutant: names the predecessor of the block that fails.
VerifyHeaderNamesPrevious ==
    /\ pc = "header" /\ i <= Len(chain)
    /\ LET b == chain[i] IN
         IF b.zeros < Zeros \/ b.prev # prevHash THEN Return("invalid", i - 1)
         ELSE IF b.txs = <<>> THEN Return("invalid", 0)
         ELSE IF ~b.txs[1].mint THEN Return("invalid", i)
         ELSE pc' = "sigs" /\ UNCHANGED <<verdict, first>>
    /\ UNCHANGED <<chain, i, j, prevHash>>

(* Proof of work, predecessor, then the minting transaction.  The branch    *)
(* for a block without transactions does not set first_invalid_block.       *)
VerifyHeader ==
    /\ pc = "header" /\ i <= Len(chain)
    /\ LET b == chain[i] IN
         IF b.zeros < Zeros \/ b.prev # prevHash THEN Return("invalid", i)
         ELSE IF b.txs = <<>> THEN Return("invalid", 0)
         ELSE IF ~b.txs[1].mint THEN Return("invalid", i)
         ELSE pc' = "sigs" /\ UNCHANGED <<verdict, first>>
    /\ UNCHANGED <<chain, i, j, prevHash>>

\* Mutant: starts at the transaction after the minting one.
VerifySignatureSkipsFirst ==
    /\ pc = "sigs" /\ j <= Len(chain[i].txs)
    /\ LET s == chain[i].txs[j].sig IN
         \/ /\ s = "valid" \/ (j = 1 /\ s = "invalid")
            /\ j' = j + 1 /\ UNCHANGED <<pc, verdict, first>>
         \/ s = "invalid" /\ j > 1 /\ Return("invalid", i) /\ UNCHANGED j
         \/ s = "error" /\ Return("error", 0) /\ UNCHANGED j
    /\ UNCHANGED <<chain, i, prevHash>>

\* Mutant: looks at the same signature again.
VerifySignatureStuck ==
    /\ pc = "sigs" /\ j <= Len(chain[i].txs)
    /\ LET s == chain[i].txs[j].sig IN
         \/ s = "valid" /\ UNCHANGED <<j, pc, verdict, first>>
         \/ s = "invalid" /\ Return("invalid", i) /\ UNCHANGED j
         \/ s = "error" /\ Return("error", 0) /\ UNCHANGED j
    /\ UNCHANGED <<chain, i, prevHash>>

VerifySignature ==
    /\ pc = "sigs" /\ j <= Len(chain[i].txs)
    /\ LET s == chain[i].txs[j].sig IN
         \/ s = "valid" /\ j' = j + 1 /\ UNCHANGED <<pc, verdict, first>>
         \/ s = "invalid" /\ Return("invalid", i) /\ UNCHANGED j
         \/ s = "error" /\ Return("error", 0) /\ UNCHANGED j
    /\ UNCHANGED <<chain, i, prevHash>>

Done == pc = "done" /\ UNCHANGED vars

Next ==
    \/ VerifyEmpty \/ VerifyGenesis \/ VerifyHeader \/ VerifySignature
    \/ VerifyNextBlock \/ VerifyEnd \/ Done

Spec == Init /\ [][Next]_vars

FairSpec == Spec /\ WF_vars(Next)

-----------------------------------------------------------------------------
(* The conditions of blockchain.h:166-176, block by block.                 *)

HeaderOK(c, k) ==
    /\ c[k].zeros >= Zeros
    /\ c[k].prev = c[k - 1].hash
    /\ c[k].txs # <<>> /\ c[k].txs[1].mint

BlockOK(c, k) ==
    IF k = 1 THEN GenesisOK(c[1])
    ELSE /\ HeaderOK(c, k)
         /\ \A t \in 1..Len(c[k].txs) : c[k].txs[t].sig = "valid"

ValidChain(c) == \A k \in 1..Len(c) : BlockOK(c, k)

TypeOK ==
    /\ chain \in Seq(Block)
    /\ pc \in {"genesis", "header", "sigs", "done"}
    /\ i \in 1..(Len(chain) + 1)
    /\ j \in IF i <= Len(chain) THEN 1..(Len(chain[i].txs) + 1) ELSE {1}
    /\ prevHash \in Hashes
    /\ verdict \in {"valid", "invalid", "error"}
    /\ first \in Nat

(* blockchain_verify accepts exactly the chains blockchain.h describes, and  *)
(* an unreadable key never makes it accept one.                             *)
VerdictCorrect == pc = "done" => (verdict = "valid" <=> ValidChain(chain))

(* A block that is named in first_invalid_block breaks a condition, none     *)
(* before it does, and the verdict says so.                                 *)
FirstInvalidIsFirst ==
    pc = "done" /\ first # 0 =>
        /\ verdict = "invalid" /\ first <= Len(chain)
        /\ ~BlockOK(chain, first)
        /\ \A l \in 1..(first - 1) : BlockOK(chain, l)

(* The two nested loops end for every chain.                                *)
VerifyTerminates == <>(pc = "done")

-----------------------------------------------------------------------------
(* What the documentation says and the code does not do.                   *)

(* "If the blockchain is invalid and this argument is not NULL, the function *)
(* fills this pointer with the first invalid block" (blockchain.h:180-181).  *)
(* The branch for a block without transactions (blockchain.c:434-437)       *)
(* returns without doing so.                                                *)
FirstInvalidFilled == pc = "done" /\ verdict = "invalid" => first # 0
=============================================================================
