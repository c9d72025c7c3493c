------------------------------ MODULE SignTx ------------------------------
(***************************************************************************)
(* s_do_sign_tx of the SpaceChain side (spctxops_s.c) from the moment the  *)
(* datum has been received: the partial transaction is parsed, every input *)
(* is signed with the key pair of the request (spcsign.c), the network     *)
(* form is measured and written, and the client gets it or an error.       *)
(*                                                                         *)
(* The messages around it are in Moscp.  Keys are symbolic: an extended    *)
(* key is 78 bytes, the key at a path is its last byte and the path.  A    *)
(* signature is the digest of the key and of the signed text in DER form,  *)
(* of the length that the signer's arithmetic happens to give; signing the *)
(* same text again gives the same bytes.                                   *)
(***************************************************************************)
EXTENDS TxCodec, FiniteSets

CONSTANTS Requests,   \* what clients send, with the lengths that the node's
                      \* signatures of it come out with, hash type included
          Sent,       \* the transactions that those are made from, each
                      \* with a witness for every input
          Own         \* last byte of the node's extended public key

ASSUME SignTxAssumption ==
  /\ Own \in 0 .. 255
  /\ \A t \in Sent : t \in Txs /\ Len(t.witnesses) = Len(t.inputs)
  /\ \A r \in Requests :
       /\ r.datum.data \in Seq(0 .. 255) /\ Len(r.datum.data) < Huge
       /\ r.datum.beyond \in 0 .. 255
       /\ r.siglen \in Seq(9 .. 73)
       /\ init_tx(r.datum).ok =>
            Len(init_tx(r.datum).val.witnesses) <= Len(r.siglen)

VARIABLES
  datum,    \* what was received
  siglen,   \* the length of the signature of each input
  pc,       \* where s_do_sign_tx stands
  orig,     \* the transaction as init_tx returned it
  tx,       \* the transaction as it is now
  i,        \* the inputs signed so far
  reslen,   \* the size of the answer's buffer
  res       \* the answer

vars == <<datum, siglen, pc, orig, tx, i, reslen, res>>

NoTx == [nversion |-> <<>>, inputs |-> <<>>, outputs |-> <<>>,
         witnesses |-> <<>>, lock_time |-> <<>>]

-----------------------------------------------------------------------------
(* Keys, digests and signatures, outside this code.                        *)

(* hdnode_deserialize_public takes an extended key by its version bytes. *)
IsXpub(x) == x[1] = 2

(* The public key at a path, 33 bytes. *)
PubAt(last, path) == <<last>> \o path \o [k \in 1 .. 28 |-> 0]

Digest(bytes) ==
  LET part[lo, hi \in Nat] ==
        LET mid == (lo + hi) \div 2
        IN  IF lo = hi THEN bytes[lo] + 1
            ELSE (part[lo, mid] * 31 + part[mid + 1, hi] * 17 + 7) % 65521
  IN  part[1, Len(bytes)]

Signature(pub, text, len) ==
  LET h == Digest(pub \o text)
  IN  <<48, h % 256, h \div 256>> \o [k \in 1 .. len - 4 |-> 0] \o <<1>>

-----------------------------------------------------------------------------
(* What a witness of a partial transaction holds: an empty item, three     *)
(* slots for signatures in the order of the keys, the script.  A slot      *)
(* without a signature has one byte.                                       *)

Slots(w) == SubSeq(w.items, 2, 4)

(* The three pushes of the script: 0xff, extended key, two-part path. *)
KeyIn(push) == [xpub |-> SubSeq(push, 2, 79), path |-> SubSeq(push, 80, 83)]

KeysIn(items) ==
  IF /\ Len(items) = 6
     /\ \A k \in 1 .. 6 : items[k].ok
     /\ \A k \in 2 .. 4 : IsXpub(KeyIn(items[k].val).xpub)
  THEN [k \in 1 .. 3 |-> KeyIn(items[k + 1].val)]
  ELSE <<>>

get_publist_and_paths(w) ==
  IF Len(w.items) = 5 THEN KeysIn(parse_script(w.items[5])) ELSE <<>>

Pub(key) == PubAt(key.xpub[78], key.path)

(* The first slot whose key is the node's own key at that slot's path; 0   *)
(* when there is none.                                                     *)
Least(S) == IF S = {} THEN 0 ELSE CHOOSE k \in S : \A l \in S : k <= l

get_order_and_paths(keys) ==
  Least({k \in DOMAIN keys : PubAt(Own, keys[k].path) = Pub(keys[k])})

(* The script with plain keys; always that of two signatures of three. *)
gen_scriptcode(keys) ==
  <<105, 82>> \o Joined(LAMBDA key : <<33>> \o Pub(key), keys) \o <<83, 174>>

(* Three hashes of the signed text; they are injective. *)
gen_hashprevouts(inputs) == Joined(LAMBDA e : e.outpoint, inputs)
gen_hashsequences(inputs) == Joined(LAMBDA e : e.sequence, inputs)
gen_hashoutputs(outputs) == Joined(serialize_single_output, outputs)

(* The text to be signed for input k: of the witnesses only its own. *)
(* Mutant: the value of the first input is signed for every one. *)
gen_preimageFirstValue(t, k, keys) ==
  t.nversion \o gen_hashprevouts(t.inputs) \o gen_hashsequences(t.inputs)
  \o t.inputs[k].outpoint \o gen_scriptcode(keys)
  \o t.witnesses[1].value \o t.inputs[k].sequence
  \o gen_hashoutputs(t.outputs) \o t.lock_time \o <<1, 0, 0, 0>>

gen_preimage(t, k, keys) ==
  t.nversion \o gen_hashprevouts(t.inputs) \o gen_hashsequences(t.inputs)
  \o t.inputs[k].outpoint \o gen_scriptcode(keys)
  \o t.witnesses[k].value \o t.inputs[k].sequence
  \o gen_hashoutputs(t.outputs) \o t.lock_time \o <<1, 0, 0, 0>>

gen_sig(t, k, keys, order) ==
  Signature(PubAt(Own, keys[order].path), gen_preimage(t, k, keys), siglen[k])

(* get_sigs_list: exactly one slot has more than one byte. *)
OneFilled(slots) == Cardinality({k \in DOMAIN slots : Len(slots[k]) > 1}) = 1

(* Mutant: a signature is never 71 bytes long. *)
InsertableLong(slots, order, sig) == Len(sig) = 72 /\ Len(slots[order]) = 1

(* insert_new_sig_to_list: whether the signature is taken and the slot of  *)
(* the node's own key is free, and the slots then.                         *)

Insertable(slots, order, sig) == Len(sig) \in 71 .. 72 /\ Len(slots[order]) = 1

(* Mutant: into the first slot that is free. *)
InsertedFirst(slots, order, sig) ==
  [slots EXCEPT ![Least({k \in DOMAIN slots : Len(slots[k]) = 1})] = sig]

Inserted(slots, order, sig) == [slots EXCEPT ![order] = sig]

(* The first two slots that are not one byte long. *)
gen_new_witness(slots, keys) ==
  LET filled == {k \in DOMAIN slots : Len(slots[k]) # 1}
      first == Least(filled)
      second == Least(filled \ {first})
  IN  [value |-> <<>>,
       items |-> <<<<>>, slots[first], slots[second], Tail(gen_scriptcode(keys))>>]

get_sigs_num_from_witness(slots) ==
  Cardinality({k \in DOMAIN slots : Len(slots[k]) \in 71 .. 104})

(* One signature before, two after. *)
update_tx_after_signed(slots, w) ==
  IF /\ get_sigs_num_from_witness(slots) = 1
     /\ get_sigs_num_from_witness(SubSeq(w.items, 2, 3)) = 2
  THEN [ok |-> TRUE, val |-> w] ELSE Failed

WitnessWithSig(slots, keys, order, sig) ==
  IF /\ Len(sig) >= 70
     /\ OneFilled(slots)
     /\ Insertable(slots, order, sig)
  THEN update_tx_after_signed(slots, gen_new_witness(Inserted(slots, order, sig), keys))
  ELSE Failed

SignWithKeys(t, k, keys, order) ==
  IF order # 0 /\ t.outputs # <<>>
  THEN WitnessWithSig(Slots(t.witnesses[k]), keys, order, gen_sig(t, k, keys, order))
  ELSE Failed

SignInputWith(t, k, keys) ==
  IF keys # <<>> THEN SignWithKeys(t, k, keys, get_order_and_paths(keys)) ELSE Failed

(* The new witness of input k. *)
sign_single_input(t, k) ==
  IF k \in DOMAIN t.witnesses
  THEN SignInputWith(t, k, get_publist_and_paths(t.witnesses[k])) ELSE Failed

-----------------------------------------------------------------------------
Init ==
  /\ \E r \in Requests : datum = r.datum /\ siglen = r.siglen
  /\ pc = "received"
  /\ orig = NoTx /\ tx = NoTx
  /\ i = 0 /\ reslen = 0 /\ res = <<>>

Refuse ==
  /\ pc' = "refused"
  /\ UNCHANGED <<datum, siglen, orig, tx, i, reslen, res>>

Parse ==
  /\ pc = "received"
  /\ \E r \in {init_tx(datum)} : r.ok /\ orig' = r.val /\ tx' = r.val
  /\ pc' = "sign"
  /\ UNCHANGED <<datum, siglen, i, reslen, res>>

ParseRefused == pc = "received" /\ ~init_tx(datum).ok /\ Refuse

(* One round of sign_tx; the inputs are signed in order. *)
SignInput ==
  /\ pc = "sign"
  /\ i < Len(tx.inputs)
  /\ \E r \in {sign_single_input(tx, i + 1)} :
       r.ok /\ tx' = [tx EXCEPT !.witnesses[i + 1] = r.val]
  /\ i' = i + 1
  /\ UNCHANGED <<datum, siglen, pc, orig, reslen, res>>

SignRefused ==
  /\ pc = "sign"
  /\ i < Len(tx.inputs)
  /\ ~sign_single_input(tx, i + 1).ok
  /\ Refuse

Measure ==
  /\ pc = "sign"
  /\ i = Len(tx.inputs)
  /\ get_tx_hex_len(tx) # 0
  /\ reslen' = get_tx_hex_len(tx)
  /\ pc' = "write"
  /\ UNCHANGED <<datum, siglen, orig, tx, i, res>>

MeasureRefused ==
  /\ pc = "sign"
  /\ i = Len(tx.inputs)
  /\ get_tx_hex_len(tx) = 0
  /\ Refuse

(* The answer leaves: length first, then the bytes. *)
Write ==
  /\ pc = "write"
  /\ res' = serialize_tx(tx)
  /\ pc' = "answered"
  /\ UNCHANGED <<datum, siglen, orig, tx, i, reslen>>

Next ==
  \/ Parse \/ ParseRefused
  \/ SignInput \/ SignRefused
  \/ Measure \/ MeasureRefused
  \/ Write

Spec == Init /\ [][Next]_vars

-----------------------------------------------------------------------------
(* sign_tx goes from input to input and changes the transaction in place:  *)
(* what is answered is the transaction that was read, every one of its     *)
(* inputs was fit to be signed as it was read, and its witness is the one  *)
(* made from it, whatever was signed before it.                            *)
SignedFrom(t, k) ==
  \E r \in {sign_single_input(t, k)} : r.ok /\ tx.witnesses[k] = r.val

AnswerComplete ==
  pc = "answered" =>
    /\ orig.inputs # <<>>
    /\ tx = [orig EXCEPT !.witnesses = tx.witnesses]
    /\ DOMAIN tx.witnesses = DOMAIN orig.witnesses
    /\ \A k \in 1 .. Len(orig.inputs) : SignedFrom(orig, k)

(* The text and the keys as the network takes them from an answer. *)
PlainKey(script, n) == SubSeq(script, 34 * n - 31, 34 * n + 1)

SignedText(k, value) ==
  tx.nversion \o gen_hashprevouts(tx.inputs) \o gen_hashsequences(tx.inputs)
  \o tx.inputs[k].outpoint \o serialize_single_op_item(tx.witnesses[k].items[4])
  \o value \o tx.inputs[k].sequence
  \o gen_hashoutputs(tx.outputs) \o tx.lock_time \o <<1, 0, 0, 0>>

(* Every input of an answer carries the signatures of two of its keys, in  *)
(* the order of the keys, as the network demands: the node's own, which    *)
(* verifies against the answer and the value the input spends, and the one *)
(* the ground sent for another key (gen_new_witness).                      *)
Ours(k, script, n) ==
  Signature(PlainKey(script, n), SignedText(k, orig.witnesses[k].value), siglen[k])

InputVerifies(k, items, theirs) ==
  /\ Len(items) = 4 /\ items[1] = <<>>
  /\ \E m, n \in 1 .. 3 :
       /\ m # n /\ PlainKey(items[4], m)[1] = Own
       /\ Len(theirs[n]) \in 71 .. 104
       /\ items[IF m < n THEN 2 ELSE 3] = Ours(k, items[4], m)
       /\ items[IF m < n THEN 3 ELSE 2] = theirs[n]

AnswerVerifies ==
  pc = "answered" =>
    \A k \in 1 .. Len(tx.inputs) :
      InputVerifies(k, tx.witnesses[k].items, Slots(orig.witnesses[k]))

(* An answer is given only to data that begins with a whole transaction:   *)
(* init_tx checks lengths after it has read, and goes on after a list it   *)
(* could not read, but data cut anywhere, or with a count, a length or a   *)
(* label changed, is never taken for another transaction.  Only six bytes  *)
(* that nobody looks at may lie behind a length of the longest form.       *)
AnswersWhatCame ==
  pc = "answered" /\ ~LongLength(datum, orig) => IsPrefix(PartialTx(orig), datum.data)

(* The buffer of the answer has the size get_tx_hex_len computes, and      *)
(* serialize_tx fills it to the last byte.                                 *)
BufferFilled == pc = "answered" => Len(res) = reslen

(* A transaction as the ground sends it to be signed: it has inputs and    *)
(* outputs, and for every input the node's key is free at its first place, *)
(* there is one signature of another key and none of the third.            *)
InputHalfSigned(slots, keys) ==
  /\ keys # <<>>
  /\ \E m, n, o \in 1 .. 3 :
       /\ {m, n, o} = 1 .. 3
       /\ keys[m].xpub[78] = Own
       /\ \A l \in 1 .. m - 1 : keys[l].xpub[78] # Own
       /\ Len(slots[m]) = 1 /\ Len(slots[o]) = 1
       /\ Len(slots[n]) \in 71 .. 104

HalfSigned(t) ==
  /\ t.inputs # <<>> /\ t.outputs # <<>>
  /\ \A k \in 1 .. Len(t.inputs) :
       InputHalfSigned(Slots(t.witnesses[k]), get_publist_and_paths(t.witnesses[k]))

SentWith(lens) ==
  \E t \in Sent :
    /\ IsPrefix(PartialTx(t), datum.data)
    /\ HalfSigned(t)
    /\ \A k \in 1 .. Len(t.inputs) : siglen[k] \in lens

(* No such transaction is refused, unless a signature of the node comes    *)
(* out shorter than insert_new_sig_to_list takes it.                       *)
HalfSignedAnswered == pc = "refused" => ~SentWith(71 .. 72)

(* sign_single_input says which length of a signature is wrong             *)
(* (spcsign.c:1299): one it lets pass is not refused for its length later. *)
LengthDecidedOnce == pc = "refused" => ~SentWith(70 .. 72)
====
