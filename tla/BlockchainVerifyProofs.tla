----------------------- MODULE BlockchainVerifyProofs -----------------------
(***************************************************************************)
(* blockchain_verify accepts exactly the valid chains, for chains of any    *)
(* length and blocks with any number of transactions.  The loop invariant:  *)
(* every block before the current one satisfies its conditions, prevHash is *)
(* the hash of the block just before it, and within the current block the   *)
(* signatures before the current one are valid.                             *)
(***************************************************************************)
EXTENDS BlockchainVerify, TLAPS

LoopInv ==
    /\ pc = "genesis" => i = 1 /\ j = 1
    /\ pc \in {"header", "sigs"} =>
           /\ 2 <= i
           /\ prevHash = chain[i - 1].hash
           /\ \A k \in 1..(i - 1) : BlockOK(chain, k)
    /\ pc = "header" => j = 1
    /\ pc = "sigs" =>
           /\ i <= Len(chain)
           /\ HeaderOK(chain, i)
           /\ \A t \in 1..(j - 1) : chain[i].txs[t].sig = "valid"

Inv == TypeOK /\ LoopInv /\ VerdictCorrect /\ FirstInvalidIsFirst

-----------------------------------------------------------------------------
\* The fields the checks read of a block of the chain.
LEMMA BlockFields ==
    ASSUME chain \in Seq(Block), NEW k \in 1..Len(chain)
    PROVE  /\ chain[k].hash \in Hashes
           /\ chain[k].zeros \in Nat
           /\ chain[k].txs \in Seq(Transaction)
           /\ Len(chain[k].txs) \in Nat
           /\ \A t \in 1..Len(chain[k].txs) :
                 chain[k].txs[t].sig \in {"valid", "invalid", "error"}
<1>1. chain[k] \in Block
  OBVIOUS
<1>2. chain[k].txs \in Seq(Transaction) /\ chain[k].hash \in Hashes /\ chain[k].zeros \in Nat
  BY <1>1 DEF Block
<1>3. \A t \in 1..Len(chain[k].txs) : chain[k].txs[t] \in Transaction
  BY <1>2
<1>4. QED
  BY <1>2, <1>3 DEF Transaction

\* A chain with a block that breaks a condition is not valid.
LEMMA OneBadBlock ==
    ASSUME NEW c, NEW k \in 1..Len(c), ~BlockOK(c, k)
    PROVE  ~ValidChain(c)
BY DEF ValidChain

\* The loop starts with nothing checked.
LEMMA InitInv == Init => Inv
<1> SUFFICES ASSUME Init PROVE Inv
  OBVIOUS
<1>1. chain \in Seq(Block)
  BY InputAssumption DEF Init
<1>2. TypeOK
  <2>1. i = 1 /\ j = 1
    BY DEF Init
  <2>2. ASSUME 1 <= Len(chain) PROVE 1 \in 1..(Len(chain[1].txs) + 1)
    BY <1>1, <2>2, BlockFields
  <2>3. j \in IF i <= Len(chain) THEN 1..(Len(chain[i].txs) + 1) ELSE {1}
    BY <2>1, <2>2
  <2>4. i \in 1..(Len(chain) + 1)
    BY <1>1, <2>1
  <2>5. QED
    BY <1>1, <2>3, <2>4, InputAssumption DEF Init, TypeOK
<1>3. QED
  BY <1>2 DEF Init, Inv, LoopInv, VerdictCorrect, FirstInvalidIsFirst

\* Each step of the two loops preserves the invariant.
LEMMA NextInv == Inv /\ [Next]_vars => Inv'
<1> SUFFICES ASSUME Inv, [Next]_vars PROVE Inv'
  OBVIOUS
<1>a. /\ chain \in Seq(Block) /\ i \in 1..(Len(chain) + 1) /\ Len(chain) \in Nat
      /\ TypeOK /\ LoopInv
  BY DEF Inv, TypeOK
<1>1. CASE VerifyEmpty
  <2>1. ValidChain(chain) /\ chain' = chain
    BY <1>1 DEF VerifyEmpty, ValidChain
  <2>2. TypeOK' /\ LoopInv'
    BY <1>a, <1>1 DEF VerifyEmpty, Return, TypeOK, LoopInv
  <2>3. QED
    BY <1>1, <2>1, <2>2
       DEF VerifyEmpty, Return, Inv, VerdictCorrect, FirstInvalidIsFirst
<1>2. CASE VerifyGenesis
  <2>0. 1 \in 1..Len(chain) /\ i = 1 /\ j = 1 /\ chain' = chain
    BY <1>a, <1>2 DEF VerifyGenesis, LoopInv
  <2>1. CASE GenesisOK(chain[1])
    <3>1. BlockOK(chain, 1)
      BY <2>1 DEF BlockOK
    <3>2. /\ i' = 2 /\ j' = 1 /\ prevHash' = chain[1].hash /\ pc' = "header"
          /\ verdict' = verdict /\ first' = first
      BY <1>2, <2>0, <2>1 DEF VerifyGenesis
    <3>3. 2 <= Len(chain) => 1 \in 1..(Len(chain[2].txs) + 1)
      BY <1>a, BlockFields
    <3>4. TypeOK'
      BY <1>a, <2>0, <3>2, <3>3, BlockFields DEF TypeOK
    <3>5. LoopInv'
      BY <1>a, <2>0, <3>1, <3>2 DEF LoopInv
    <3>6. QED
      BY <3>2, <3>4, <3>5 DEF Inv, VerdictCorrect, FirstInvalidIsFirst
  <2>2. CASE ~GenesisOK(chain[1])
    <3>1. ~BlockOK(chain, 1) /\ ~ValidChain(chain)
      BY <2>0, <2>2, OneBadBlock DEF BlockOK
    <3>2. /\ pc' = "done" /\ verdict' = "invalid" /\ first' = 1
          /\ i' = i /\ j' = j /\ prevHash' = prevHash
      BY <1>2, <2>0, <2>2 DEF VerifyGenesis, Return
    <3>3. TypeOK' /\ LoopInv'
      BY <1>a, <2>0, <3>2 DEF TypeOK, LoopInv
    <3>4. QED
      BY <1>a, <2>0, <3>1, <3>2, <3>3 DEF Inv, VerdictCorrect, FirstInvalidIsFirst
  <2>3. QED
    BY <2>1, <2>2
<1>3. CASE VerifyHeader
  <2>0. /\ i \in 1..Len(chain) /\ 2 <= i /\ j = 1 /\ chain' = chain
        /\ prevHash = chain[i - 1].hash
        /\ \A k \in 1..(i - 1) : BlockOK(chain, k)
        /\ i' = i /\ j' = j /\ prevHash' = prevHash
        /\ chain[i].zeros \in Nat
    BY <1>a, <1>3, BlockFields DEF VerifyHeader, LoopInv
  <2>1. CASE HeaderOK(chain, i)
    <3>1. pc' = "sigs" /\ verdict' = verdict /\ first' = first
      BY <1>3, <2>0, <2>1, InputAssumption DEF VerifyHeader, HeaderOK
    <3>2. TypeOK' /\ LoopInv'
      BY <1>a, <2>0, <2>1, <3>1 DEF TypeOK, LoopInv
    <3>3. QED
      BY <3>1, <3>2 DEF Inv, VerdictCorrect, FirstInvalidIsFirst
  <2>2. CASE ~HeaderOK(chain, i)
    <3>1. /\ pc' = "done" /\ verdict' = "invalid"
          /\ first' = i \/ (first' = 0 /\ chain[i].txs = <<>>)
      BY <1>3, <2>0, <2>2, InputAssumption DEF VerifyHeader, HeaderOK, Return
    <3>2. ~BlockOK(chain, i) /\ ~ValidChain(chain)
      BY <2>0, <2>2, OneBadBlock DEF BlockOK
    <3>3. TypeOK' /\ LoopInv'
      BY <1>a, <2>0, <3>1 DEF TypeOK, LoopInv
    <3>4. QED
      BY <1>a, <2>0, <3>1, <3>2, <3>3 DEF Inv, VerdictCorrect, FirstInvalidIsFirst
  <2>3. QED
    BY <2>1, <2>2
<1>4. CASE VerifySignature
  <2>0. /\ i \in 1..Len(chain) /\ 2 <= i /\ chain' = chain /\ HeaderOK(chain, i)
        /\ prevHash = chain[i - 1].hash
        /\ \A k \in 1..(i - 1) : BlockOK(chain, k)
        /\ \A t \in 1..(j - 1) : chain[i].txs[t].sig = "valid"
        /\ i' = i /\ prevHash' = prevHash
        /\ Len(chain[i].txs) \in Nat /\ j \in 1..Len(chain[i].txs)
    <3>1. i \in 1..Len(chain)
      BY <1>a, <1>4 DEF VerifySignature, LoopInv
    <3>2. Len(chain[i].txs) \in Nat
      BY <1>a, <3>1, BlockFields
    <3>3. j \in 1..Len(chain[i].txs)
      BY <1>a, <1>4, <3>1, <3>2 DEF VerifySignature, TypeOK
    <3>4. QED
      BY <1>a, <1>4, <3>1, <3>2, <3>3 DEF VerifySignature, LoopInv
  <2> DEFINE s == chain[i].txs[j].sig
  <2>1. CASE s = "valid"
    <3>1. pc' = pc /\ pc = "sigs" /\ j' = j + 1 /\ verdict' = verdict /\ first' = first
      BY <1>4, <2>1 DEF VerifySignature
    <3>2. TypeOK'
      BY <1>a, <2>0, <3>1 DEF TypeOK
    <3>3. \A t \in 1..(j' - 1) : chain[i].txs[t].sig = "valid"
      BY <2>0, <2>1, <3>1
    <3>4. LoopInv'
      BY <1>a, <2>0, <3>1, <3>3 DEF LoopInv
    <3>5. QED
      BY <3>1, <3>2, <3>4 DEF Inv, VerdictCorrect, FirstInvalidIsFirst
  <2>2. CASE s # "valid"
    <3>1. /\ pc' = "done" /\ j' = j
          /\ \/ verdict' = "invalid" /\ first' = i
             \/ verdict' = "error" /\ first' = 0
      BY <1>4, <2>2 DEF VerifySignature, Return
    <3>2. ~BlockOK(chain, i) /\ ~ValidChain(chain)
      BY <2>0, <2>2, OneBadBlock DEF BlockOK
    <3>3. TypeOK' /\ LoopInv'
      BY <1>a, <2>0, <3>1 DEF TypeOK, LoopInv
    <3>4. QED
      BY <1>a, <2>0, <3>1, <3>2, <3>3 DEF Inv, VerdictCorrect, FirstInvalidIsFirst
  <2>3. QED
    BY <2>1, <2>2
<1>5. CASE VerifyNextBlock
  <2>0. /\ i \in 1..Len(chain) /\ 2 <= i /\ chain' = chain /\ HeaderOK(chain, i)
        /\ \A k \in 1..(i - 1) : BlockOK(chain, k)
        /\ \A t \in 1..(j - 1) : chain[i].txs[t].sig = "valid"
        /\ i' = i + 1 /\ j' = 1 /\ prevHash' = chain[i].hash /\ pc' = "header"
        /\ verdict' = verdict /\ first' = first
    BY <1>a, <1>5 DEF VerifyNextBlock, LoopInv
  <2>1. Len(chain[i].txs) \in Nat /\ j = Len(chain[i].txs) + 1 /\ prevHash' \in Hashes
    <3>1. Len(chain[i].txs) \in Nat /\ chain[i].hash \in Hashes
      BY <1>a, <2>0, BlockFields
    <3>2. j > Len(chain[i].txs)
      BY <1>5 DEF VerifyNextBlock
    <3>3. j \in 1..(Len(chain[i].txs) + 1)
      BY <1>a, <2>0 DEF TypeOK
    <3>4. QED
      BY <2>0, <3>1, <3>2, <3>3
  <2>2. BlockOK(chain, i)
    BY <2>0, <2>1 DEF BlockOK
  <2>3. \A k \in 1..i : BlockOK(chain, k)
    BY <2>0, <2>2
  <2>4. i + 1 <= Len(chain) => 1 \in 1..(Len(chain[i + 1].txs) + 1)
    BY <1>a, <2>0, BlockFields
  <2>5. TypeOK'
    BY <1>a, <2>0, <2>1, <2>4 DEF TypeOK
  <2>6. LoopInv'
    BY <1>a, <2>0, <2>3 DEF LoopInv
  <2>7. QED
    BY <2>0, <2>5, <2>6 DEF Inv, VerdictCorrect, FirstInvalidIsFirst
<1>6. CASE VerifyEnd
  <2>1. i = Len(chain) + 1 /\ \A k \in 1..(i - 1) : BlockOK(chain, k)
    BY <1>a, <1>6 DEF VerifyEnd, LoopInv
  <2>2. ValidChain(chain) /\ chain' = chain
    BY <1>a, <1>6, <2>1 DEF VerifyEnd, ValidChain
  <2>3. TypeOK' /\ LoopInv'
    BY <1>a, <1>6 DEF VerifyEnd, Return, TypeOK, LoopInv
  <2>4. QED
    BY <1>6, <2>2, <2>3
       DEF VerifyEnd, Return, Inv, VerdictCorrect, FirstInvalidIsFirst
<1>7. CASE UNCHANGED vars
  BY <1>7 DEF vars, Inv, TypeOK, LoopInv, VerdictCorrect, FirstInvalidIsFirst
<1>8. QED
  BY <1>1, <1>2, <1>3, <1>4, <1>5, <1>6, <1>7 DEF Next, Done

\* The invariant holds of every run of blockchain_verify.
LEMMA InvHolds == Spec => []Inv
BY InitInv, NextInv, PTL DEF Spec

\* The two loop variables never leave the chain and the block they walk, so no
\* check reads past the end of either list.
THEOREM VerifyTypeCorrect == Spec => []TypeOK
<1>1. Inv => TypeOK
  BY DEF Inv
<1>2. QED
  BY <1>1, InvHolds, PTL

\* blockchain_verify accepts a chain exactly when blockchain.h calls it valid.
THEOREM VerifyCorrect == Spec => []VerdictCorrect
<1>1. Inv => VerdictCorrect
  BY DEF Inv
<1>2. QED
  BY <1>1, InvHolds, PTL

\* A block reported as the first invalid one is the first invalid one, for chains
\* of any length.
THEOREM FirstInvalidCorrect == Spec => []FirstInvalidIsFirst
<1>1. Inv => FirstInvalidIsFirst
  BY DEF Inv
<1>2. QED
  BY <1>1, InvHolds, PTL
=============================================================================
