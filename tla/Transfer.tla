------------------------------ MODULE Transfer ------------------------------
(***************************************************************************)
(* One command on its way through a connection, or one chain through the    *)
(* outfile: send_all and recv_all move any number of bytes at a time, the   *)
(* sender may end in the middle, the receiver decodes field by field with a *)
(* bounds check before each, and any allocation may fail.                   *)
(*                                                                         *)
(* The bytes come from the program's own serializers, whole or cut short;   *)
(* what a decoder does with bytes that no serializer wrote is not modelled. *)
(* heap holds the objects the decoder has allocated and not handed on; the  *)
(* buffers of the callers are not in it.                                    *)
(***************************************************************************)
EXTENDS Wire, FiniteSets

CONSTANTS
    Messages,   \* what is sent: [kind, body], see Serialize
    Chains      \* the chains that are written to the outfile

ASSUME TransferAssumption ==
    /\ Messages \subseteq Message /\ Chains \subseteq ChainData
    /\ \A m \in Messages : Len(Serialize(m)) < Capacity(Num)

VARIABLES
    msg,        \* the message
    medium,     \* "socket" or "file"
    stream,     \* its bytes
    expect,     \* the command the receiver's handler accepts
    sent,       \* how many bytes have left the sender
    closed,     \* the sender has closed its end, or ended
    pc,         \* the receiver
    got, want,  \* recv_all: the bytes received and the bytes asked for
    buf,        \* the buffer that is decoded
    dec,        \* the decoder's locals
    heap,       \* the objects it holds
    faulty,     \* an allocation failed or the connection was reset
    overread    \* bytes past the end of buf were read

choice == <<msg, medium, stream, expect>>
sender == <<sent, closed>>
receiver == <<pc, got, want, buf, dec, heap, faulty, overread>>
vars == <<choice, sender, receiver>>

-----------------------------------------------------------------------------
\* The decoder: the group of fields it is in and those it has read, its
\* position, how many items and transactions are left, and what it has built.
NoDec == [group |-> "none", cur |-> <<>>, pos |-> 0, left |-> 0, txLeft |-> 0,
          fields |-> <<>>, txs |-> <<>>, zeros |-> 0, items |-> <<>>]
Start(group, pos) == [NoDec EXCEPT !.group = group, !.pos = pos]

Received(n) == SubSeq(stream, 1, n)

Init ==
    /\ \/ medium = "socket" /\ msg \in Messages
       \/ medium = "file" /\ msg \in [kind : {COMMAND_SEND_BLOCKCHAIN}, body : Chains]
    /\ stream = (IF medium = "file" THEN EncodeChain(msg.body) ELSE Serialize(msg))
    /\ expect \in {COMMAND_REGISTER_PEER, COMMAND_SEND_PEER_LIST, COMMAND_SEND_BLOCKCHAIN}
    /\ medium = "file" => expect = msg.kind
    /\ sent = 0 /\ closed = FALSE
    /\ pc = (IF medium = "file" THEN "open" ELSE "header")
    /\ got = 0 /\ want = HeaderSize
    /\ buf = <<>> /\ dec = NoDec /\ heap = {}
    /\ faulty = FALSE /\ overread = FALSE

-----------------------------------------------------------------------------
(* The sender: send_all, or fwrite after fopen has emptied the file.        *)

SendSome ==
    /\ ~closed
    /\ sent' \in (sent + 1)..Len(stream)
    /\ UNCHANGED <<choice, closed, receiver>>

\* It is done, failed, or ended in the middle.
SenderCloses ==
    /\ ~closed
    /\ closed' = TRUE
    /\ UNCHANGED <<choice, sent, receiver>>

-----------------------------------------------------------------------------
(* recv_all and the command codecs.                                        *)

Reject(freed) == pc' = "failed" /\ heap' = heap \ freed

\* Mutant: counts the bytes it asked for instead of those that came.
RecvSomeAsked ==
    /\ pc \in {"header", "body"} /\ got < want /\ got < sent
    /\ got' = want
    /\ UNCHANGED <<choice, sender, pc, want, buf, dec, heap, faulty, overread>>

RecvSome ==
    /\ pc \in {"header", "body"}
    /\ \E n \in (got + 1)..want : n <= sent /\ got' = n
    /\ UNCHANGED <<choice, sender, pc, want, buf, dec, heap, faulty, overread>>

\* The stream is over: recv fails, or returns 0 and recv_all loops.
RecvEnd ==
    /\ pc \in {"header", "body"} /\ got < want /\ got = sent /\ closed
    /\ \/ pc' = "spinning" /\ UNCHANGED faulty
       \/ pc' = "failed" /\ faulty' = TRUE
    /\ UNCHANGED <<choice, sender, got, want, buf, dec, heap, overread>>

\* command_header_deserialize, and the handler's check of the command.
HeaderDone ==
    /\ pc = "header" /\ got = want
    /\ LET hdr == Received(got) IN
       IF FieldAt(hdr, 0, Raw) = COMMAND_PREFIX /\ FieldAt(hdr, 1, Num) = expect
       THEN pc' = "body" /\ want' = HeaderSize + FieldAt(hdr, 3, Num)
       ELSE pc' = "failed" /\ UNCHANGED want
    /\ UNCHANGED <<choice, sender, got, buf, dec, heap, faulty, overread>>

\* command_register_peer_deserialize goes on in the same buffer.
RegisterDone ==
    /\ pc = "body" /\ got = want /\ expect = COMMAND_REGISTER_PEER
    /\ pc' = "decode" /\ buf' = Received(got) /\ dec' = Start("register", HeaderSize)
    /\ UNCHANGED <<choice, sender, got, want, heap, faulty, overread>>

\* Mutant: a payload that ends with the buffer counts as too long.
BodyDoneStrict ==
    /\ pc = "body" /\ got = want /\ expect # COMMAND_REGISTER_PEER
    /\ LET all == Received(got)
           from == HeaderSize + Size(Num)
           len == FieldAt(all, HeaderSize, Num) IN
       /\ from + len >= got
       /\ pc' = "failed"
    /\ UNCHANGED <<choice, sender, got, want, buf, dec, heap, faulty, overread>>

\* The other two commands copy the announced bytes to a buffer of their own,
\* which peer_info_list_deserialize or blockchain_deserialize reads.
BodyDone ==
    /\ pc = "body" /\ got = want /\ expect # COMMAND_REGISTER_PEER
    /\ LET all == Received(got)
           from == HeaderSize + Size(Num)
           len == FieldAt(all, HeaderSize, Num) IN
       \/ /\ from <= got /\ from + len <= got
          /\ pc' = "decode" /\ buf' = SubSeq(all, from + 1, from + len)
          /\ dec' = Start(IF expect = COMMAND_SEND_PEER_LIST THEN "peers" ELSE "chain", 0)
          /\ UNCHANGED faulty
       \/ /\ from > got \/ from + len > got
          /\ pc' = "failed" /\ UNCHANGED <<buf, dec, faulty>>
       \/ pc' = "failed" /\ faulty' = TRUE /\ UNCHANGED <<buf, dec>>
    /\ UNCHANGED <<choice, sender, got, want, heap, overread>>

\* blockchain_read_from_file, once the writer is gone.
FileRead ==
    /\ pc = "open" /\ closed
    /\ \/ pc' = "decode" /\ UNCHANGED faulty
       \/ pc' = "failed" /\ faulty' = TRUE
    /\ buf' = Received(sent) /\ dec' = Start("chain", 0)
    /\ UNCHANGED <<choice, sender, got, want, heap, overread>>

-----------------------------------------------------------------------------
(* The decoders.                                                           *)

\* What the error paths of a group of fields free.
Frees(group) ==
    CASE group = "peer"               -> {"peers"}
      [] group \in {"count", "block"} -> {"chain"}
      [] group = "tx"                 -> {"chain", "txs", "tx"}
      [] OTHER                        -> {}

\* Mutant: the check of the last field of a group is missing.
ReadFieldNoCheck ==
    LET layout == Layout[dec.group]
        kind == layout[Len(dec.cur) + 1]
        end == dec.pos + Size(kind) IN
    /\ pc = "decode" /\ dec.group \in DOMAIN Layout /\ Len(dec.cur) < Len(layout)
    /\ IF end > Len(buf) /\ Len(dec.cur) + 1 < Len(layout)
       THEN Reject(Frees(dec.group)) /\ UNCHANGED dec
       ELSE /\ dec' = [dec EXCEPT !.cur = Append(@, IF end > Len(buf) THEN 0
                                                    ELSE FieldAt(buf, dec.pos, kind)),
                                  !.pos = end]
            /\ UNCHANGED <<pc, heap>>
    /\ UNCHANGED <<choice, sender, got, want, buf, faulty, overread>>

ReadField ==
    LET layout == Layout[dec.group]
        kind == layout[Len(dec.cur) + 1]
        end == dec.pos + Size(kind) IN
    /\ pc = "decode" /\ dec.group \in DOMAIN Layout /\ Len(dec.cur) < Len(layout)
    /\ IF end > Len(buf)
       THEN Reject(Frees(dec.group)) /\ UNCHANGED dec
       ELSE /\ dec' = [dec EXCEPT !.cur = Append(@, FieldAt(buf, dec.pos, kind)), !.pos = end]
            /\ UNCHANGED <<pc, heap>>
    /\ UNCHANGED <<choice, sender, got, want, buf, faulty, overread>>

\* The fields of the group have all been read.
Complete(group) ==
    /\ pc = "decode" /\ dec.group = group /\ Len(dec.cur) = Len(Layout[group])
    /\ UNCHANGED <<choice, sender, got, want, buf>>

NoMemory(freed) == Reject(freed) /\ faulty' = TRUE /\ UNCHANGED <<dec, overread>>
Goes == UNCHANGED <<pc, faulty, overread>>

\* The next item of the list, or the end of it.
NextItem(d, group) ==
    /\ pc' = IF d.left = 0 THEN "ok" ELSE pc
    /\ dec' = IF d.left = 0 THEN d
              ELSE [d EXCEPT !.group = group, !.cur = <<>>, !.left = @ - 1]
    /\ UNCHANGED <<faulty, overread>>

RegisterComplete ==
    /\ Complete("register")
    /\ pc' = "ok" /\ UNCHANGED <<dec, heap, faulty, overread>>

PeersComplete ==
    /\ Complete("peers")
    /\ \/ heap' = heap \cup {"peers"} /\ NextItem([dec EXCEPT !.left = dec.cur[1]], "peer")
       \/ NoMemory({})

\* malloc of the peer, or of its list node, fails; or it is appended.
PeerComplete ==
    /\ Complete("peer")
    /\ \/ UNCHANGED heap /\ NextItem([dec EXCEPT !.items = Append(@, dec.cur)], "peer")
       \/ NoMemory({"peers"})

\* blockchain_create
ZerosComplete ==
    /\ Complete("chain")
    /\ \/ /\ heap' = heap \cup {"chain"} /\ Goes
          /\ dec' = [dec EXCEPT !.zeros = dec.cur[1], !.group = "count", !.cur = <<>>]
       \/ NoMemory({})

CountComplete ==
    /\ Complete("count")
    /\ UNCHANGED heap /\ NextItem([dec EXCEPT !.left = dec.cur[1]], "block")

\* linked_list_create for the transactions of the block.
BlockHeadComplete ==
    /\ Complete("block")
    /\ \/ /\ heap' = heap \cup {"txs"} /\ Goes
          /\ dec' = [dec EXCEPT !.fields = SubSeq(dec.cur, 1, 3), !.txLeft = dec.cur[4],
                                !.txs = <<>>, !.group = "txs"]
       \/ NoMemory({"chain"})

\* calloc of the next transaction of the block.
TxStart ==
    /\ pc = "decode" /\ dec.group = "txs" /\ dec.txLeft > 0
    /\ \/ /\ heap' = heap \cup {"tx"} /\ Goes
          /\ dec' = [dec EXCEPT !.group = "tx", !.cur = <<>>, !.txLeft = @ - 1]
       \/ NoMemory({"chain", "txs"})
    /\ UNCHANGED <<choice, sender, got, want, buf>>

(* The length is checked against the buffer, and then the whole field is    *)
(* read: where the buffer ends inside it, what follows is arbitrary.        *)
TxComplete ==
    /\ Complete("tx")
    /\ LET length == dec.cur[5]
           sig == [i \in 1..SigSize |-> IF dec.pos + i <= Len(buf) THEN buf[dec.pos + i]
                                                                  ELSE Base] IN
       \/ /\ length > SigSize \/ dec.pos + length > Len(buf)
          /\ Reject({"chain", "txs", "tx"}) /\ UNCHANGED <<dec, faulty, overread>>
       \/ /\ length <= SigSize /\ dec.pos + length <= Len(buf)
          /\ overread' = (overread \/ dec.pos + SigSize > Len(buf))
          /\ \/ /\ heap' = heap \ {"tx"} /\ UNCHANGED <<pc, faulty>>
                /\ dec' = [dec EXCEPT !.txs = Append(@, [fields |-> dec.cur, sig |-> sig]),
                                      !.pos = @ + SigSize, !.group = "txs"]
             \/ Reject({"chain", "txs", "tx"}) /\ faulty' = TRUE /\ UNCHANGED dec
             \/ overread' /\ pc' = "faulted" /\ UNCHANGED <<dec, heap, faulty>>

\* Mutant: the list is left behind when the block cannot be created.
BlockCompleteLeak ==
    /\ pc = "decode" /\ dec.group = "txs" /\ dec.txLeft = 0
    /\ \/ /\ heap' = heap \ {"txs"}
          /\ NextItem([dec EXCEPT !.items = Append(@, [fields |-> dec.fields, txs |-> dec.txs])],
                      "block")
       \/ NoMemory({"chain"})
    /\ UNCHANGED <<choice, sender, got, want, buf>>

\* block_create takes the list, and blockchain_add_block the block.
BlockComplete ==
    /\ pc = "decode" /\ dec.group = "txs" /\ dec.txLeft = 0
    /\ \/ /\ heap' = heap \ {"txs"}
          /\ NextItem([dec EXCEPT !.items = Append(@, [fields |-> dec.fields, txs |-> dec.txs])],
                      "block")
       \/ NoMemory({"chain", "txs"})
    /\ UNCHANGED <<choice, sender, got, want, buf>>

-----------------------------------------------------------------------------
Sender == SendSome \/ SenderCloses

Receiver ==
    \/ RecvSome \/ RecvEnd \/ HeaderDone \/ RegisterDone \/ BodyDone \/ FileRead
    \/ ReadField \/ RegisterComplete \/ PeersComplete \/ PeerComplete
    \/ ZerosComplete \/ CountComplete \/ BlockHeadComplete \/ TxStart \/ TxComplete
    \/ BlockComplete

Next == Sender \/ Receiver

Spec == Init /\ [][Next]_vars

\* The receiving thread keeps running; nothing is assumed of the sender.
FairSpec == Spec /\ WF_vars(Receiver)

-----------------------------------------------------------------------------
(* Correctness.                                                            *)

TypeOK ==
    /\ medium \in {"socket", "file"}
    /\ sent \in 0..Len(stream) /\ closed \in BOOLEAN
    /\ pc \in {"open", "header", "body", "decode", "ok", "failed", "spinning", "faulted"}
    /\ got \in 0..sent /\ want \in Nat
    /\ dec.group \in DOMAIN Layout \cup {"none", "txs"} /\ dec.pos \in Nat
    /\ dec.left \in Nat /\ dec.txLeft \in Nat
    /\ heap \subseteq {"peers", "chain", "txs", "tx"}
    /\ faulty \in BOOLEAN /\ overread \in BOOLEAN

Cut == sent < Len(stream)

\* What a chain says: of each signature only the bytes within its length.
TxMeaning(t) == [fields |-> t.fields, sig |-> SubSeq(t.sig, 1, t.fields[5])]
BlockMeaning(b) ==
    [fields |-> b.fields, txs |-> [j \in DOMAIN b.txs |-> TxMeaning(b.txs[j])]]
Meaning(zeros, blocks) ==
    [zeros |-> zeros, blocks |-> [i \in DOMAIN blocks |-> BlockMeaning(blocks[i])]]

Decoded ==
    CASE expect = COMMAND_REGISTER_PEER   -> dec.cur
      [] expect = COMMAND_SEND_PEER_LIST  -> dec.items
      [] expect = COMMAND_SEND_BLOCKCHAIN -> Meaning(dec.zeros, dec.items)

Original ==
    IF msg.kind = COMMAND_SEND_BLOCKCHAIN THEN Meaning(msg.body.zeros, msg.body.blocks)
    ELSE msg.body

(* What the receiver accepts is what the sender serialized, however the     *)
(* bytes were split on the way and wherever the file was cut off: a torn    *)
(* outfile is never read back as a shorter chain.                           *)
AcceptedIsSent == pc = "ok" => expect = msg.kind /\ Decoded = Original

(* Every error of the receiver has a cause outside of the codecs: the       *)
(* other command, a stream or file that was cut, no memory, a reset.        *)
WholeIsAccepted == pc = "failed" => expect # msg.kind \/ Cut \/ faulty

(* Whichever check or allocation of a decoder fails first, everything the   *)
(* decoder allocated until then is freed, and what succeeds keeps only its  *)
(* result.                                                                  *)
NoDecoderLeak ==
    /\ pc = "failed" => heap = {}
    /\ pc = "ok" => heap \subseteq {"peers", "chain"} /\ Cardinality(heap) <= 1

(* A message that was sent in full is decoded, or refused, in the end.      *)
SentIsHandled ==
    sent = Len(stream) /\ (medium = "file" => closed) ~> pc \in {"ok", "failed"}
=============================================================================
