------------------------------ MODULE TxCodec ------------------------------
(***************************************************************************)
(* Transactions as bytes: how the SpaceChain side reads the partial        *)
(* transaction it is sent (spcdeserialize.c, spcscript.c), measures and    *)
(* writes the signed one (spcserialize.c), with the variable-length        *)
(* integers of spctools.c.                                                 *)
(*                                                                         *)
(* A datum is [data |-> the bytes received, beyond |-> the byte that any   *)
(* read behind them returns]: the parser checks the length of the buffer   *)
(* after it has read, so what lies behind a buffer that is too short is    *)
(* seen.  Positions start at 1.                                            *)
(***************************************************************************)
EXTENDS Integers, Sequences, SequencesExt

(* A transaction: bytes, and the fields of the length that SPC_TX and the  *)
(* structures in it give them.                                             *)
Byte == 0 .. 255
Text == Seq(Byte)
Texts(n) == {t \in Text : Len(t) = n}

Inputs == [outpoint : Texts(36), script : Text, sequence : Texts(4)]
Outputs == [value : Texts(8), script : Text]
Witnesses == [value : Texts(8), items : Seq(Text)]

Txs == [nversion : Texts(4), inputs : Seq(Inputs), outputs : Seq(Outputs),
        witnesses : Seq(Witnesses), lock_time : Texts(4)]

-----------------------------------------------------------------------------
(* Stands for every count or length from 2^24 on: a datum has at most      *)
(* 102400 bytes, none of them is different from another.                   *)
Huge == 16777216

At(d, p) == IF p <= Len(d.data) THEN d.data[p] ELSE d.beyond

(* n bytes from p on.  A field that reaches behind the datum is not told   *)
(* from another: every such transaction is refused by its length.          *)
Take(d, p, n) ==
  IF p + n - 1 <= Len(d.data) THEN SubSeq(d.data, p, p + n - 1) ELSE <<>>

-----------------------------------------------------------------------------
(* Variable-length integers.                                               *)

Little(d, p, n) ==
  IF \E k \in 3 .. n - 1 : At(d, p + k) # 0 THEN Huge
  ELSE At(d, p) + 256 * At(d, p + 1) + (IF n = 2 THEN 0 ELSE 65536 * At(d, p + 2))

NotMinimal == -1

Minimal(n, v) ==
  IF (n = 2 /\ v < 253) \/ (n = 4 /\ v <= 65535) THEN NotMinimal ELSE v

read_varint(d, p, n) ==
  IF n = 8 /\ \A k \in 4 .. 7 : At(d, p + k) = 0
  THEN NotMinimal ELSE Minimal(n, Little(d, p, n))

(* The bytes that follow the head byte of an integer. *)
read_varint_len(head) ==
  CASE head = 253 -> 2 [] head = 254 -> 4 [] head = 255 -> 8 [] OTHER -> 0

gen_varint_len(n) == IF n < 253 THEN 1 ELSE IF n <= 65535 THEN 3 ELSE 5

gen_varint(n) ==
  IF n < 253 THEN <<n>>
  ELSE IF n <= 65535 THEN <<253, n % 256, n \div 256>>
  ELSE <<254, n % 256, (n \div 256) % 256, (n \div 65536) % 256, 0>>

-----------------------------------------------------------------------------
(* Reading.  Every reader returns whether it succeeded, what it read and   *)
(* the position after it.                                                  *)

Read(val, next) == [ok |-> TRUE, val |-> val, next |-> next]
Stopped(val) == [ok |-> FALSE, val |-> val, next |-> 0]
Failed == Stopped(<<>>)

(* A count of elements: 0 is an error, as is one not minimally encoded. *)
Counter(d, p) ==
  LET more == read_varint_len(At(d, p))
  IN  [n |-> IF more = 0 THEN At(d, p) ELSE read_varint(d, p + 1, more),
       next |-> p + 1 + more]

get_inputs_counter(d, p) == Counter(d, p)
get_outputs_counter(d, p) == Counter(d, p)
get_op_items_counter(d, p) == Counter(d, p)

(* A length and as many bytes.  Behind the head 255 only two bytes are     *)
(* read of the eight that are skipped.                                     *)
Bytes(d, p, n) ==
  IF n = NotMinimal THEN Failed
  ELSE Read(Take(d, p, n), p + n)

Sized(d, p) ==
  LET more == read_varint_len(At(d, p))
  IN  Bytes(d, p + 1 + more,
            IF more = 0 THEN At(d, p)
            ELSE read_varint(d, p + 1, IF more = 8 THEN 2 ELSE more))

InputWith(d, p, s) ==
  IF ~s.ok THEN Failed
  ELSE Read([outpoint |-> Take(d, p, 36), script |-> s.val,
             sequence |-> Take(d, s.next, 4)], s.next + 4)

OutputWith(d, p, s) ==
  IF ~s.ok THEN Failed
  ELSE Read([value |-> Take(d, p, 8), script |-> s.val], s.next)

get_single_input(d, p) == InputWith(d, p, Sized(d, p + 36))
get_single_output(d, p) == OutputWith(d, p, Sized(d, p + 8))

(* n elements from p on, up to the first that cannot be read.  An element  *)
(* that starts behind the datum counts as one: it is refused either way.   *)
Extended(acc, e) ==
  IF e.ok THEN Read(Append(acc.val, e.val), e.next) ELSE Stopped(acc.val)

ExtendedFrom(at, acc) ==
  IF ~acc.ok \/ acc.next \notin DOMAIN at THEN Stopped(acc.val)
  ELSE Extended(acc, at[acc.next])

(* at[q] is what is read at position q. *)
ReadFrom(at, p, n) ==
  LET read[k \in 0 .. n] ==
        IF k = 0 THEN Read(<<>>, p) ELSE ExtendedFrom(at, read[k - 1])
  IN  read[n]

Elements(Get(_, _), d, p, n) ==
  IF n > Len(d.data) THEN Failed
  ELSE ReadFrom([q \in 1 .. Len(d.data) |-> Get(d, q)], p, n)

(* init_inputs and init_outputs.  Whatever fails, the caller acts on it    *)
(* only when an element was read: with none it goes on at the same place.  *)
NoneRead(p) == Read(<<>>, p)

Listed(all, p) ==
  IF all.ok THEN all ELSE IF all.val = <<>> THEN NoneRead(p) ELSE Failed

ListFrom(Get(_, _), least, d, p, c) ==
  LET rest == Len(d.data) - (p - 1)
  IN  IF rest < 6 \/ c.n <= 0 \/ rest < c.n * least THEN NoneRead(p)
      ELSE Listed(Elements(Get, d, c.next, c.n), p)

init_inputs(d, p) == ListFrom(get_single_input, 32 + 4 + 1 + 4, d, p, get_inputs_counter(d, p))
init_outputs(d, p) == ListFrom(get_single_output, 8 + 1, d, p, get_outputs_counter(d, p))

(* The label, the value of the input, a version, the items. *)
WitnessWith(value, items) ==
  IF ~items.ok THEN Failed
  ELSE Read([value |-> value, items |-> items.val], items.next)

(* Mutant: the version is not looked at. *)
init_single_witnessAnyVersion(d, p) ==
  LET c == get_op_items_counter(d, p + 15)
  IN  IF /\ p <= Len(d.data)
         /\ At(d, p) = 254
         /\ \A k \in 1 .. 4 : At(d, p + k) = 255
         /\ c.n > 0
      THEN WitnessWith(Take(d, p + 5, 8), Elements(Sized, d, c.next, c.n))
      ELSE Failed

init_single_witness(d, p) ==
  LET c == get_op_items_counter(d, p + 15)
  IN  IF /\ p <= Len(d.data)
         /\ At(d, p) = 254
         /\ \A k \in 1 .. 4 : At(d, p + k) = 255
         /\ At(d, p + 13) = 0 /\ At(d, p + 14) = 0
         /\ c.n > 0
      THEN WitnessWith(Take(d, p + 5, 8), Elements(Sized, d, c.next, c.n))
      ELSE Failed

(* One witness for each input.  With fewer bytes left than inputs there    *)
(* is no list of witnesses, and init_tx takes the missing list.            *)
init_witnesses(d, p, n) ==
  IF Len(d.data) - (p - 1) < n THEN NoneRead(p)
  ELSE Elements(init_single_witness, d, p, n)

PartialLabel == <<69, 80, 84, 70, 255>>

(* The three lists in turn, each behind the one before it; a list that    *)
(* reaches the end of the datum is one too many.                           *)
Within(d, list) == list.ok /\ list.next - 1 < Len(d.data)

TxWith(d, ins, outs, wits) ==
  IF Within(d, wits) /\ wits.next + 4 - 1 <= Len(d.data)
  THEN Read([nversion |-> Take(d, 7, 4), inputs |-> ins.val,
             outputs |-> outs.val, witnesses |-> wits.val,
             lock_time |-> Take(d, wits.next, 4)], wits.next + 4)
  ELSE Failed

WitnessesAfter(d, ins, outs) ==
  IF Within(d, outs)
  THEN TxWith(d, ins, outs, init_witnesses(d, outs.next, Len(ins.val))) ELSE Failed

OutputsAfter(d, ins) ==
  IF Within(d, ins) THEN WitnessesAfter(d, ins, init_outputs(d, ins.next)) ELSE Failed

init_tx(d) ==
  IF /\ 12 < Len(d.data)
     /\ \A k \in 1 .. 5 : At(d, k) = PartialLabel[k]
     /\ At(d, 6) = 0 /\ At(d, 11) = 0 /\ At(d, 12) = 1
  THEN OutputsAfter(d, init_inputs(d, 13)) ELSE Failed

-----------------------------------------------------------------------------
(* Scripts: the pushes and operations of a script, as parse_script splits  *)
(* them; <<Failed>> ends one that cannot be split.                         *)

Pushed(s, more, n, from) ==
  IF (more = 1 /\ n <= 75) \/ from + n > Len(s) + 1 THEN Failed
  ELSE Read(SubSeq(s, from, from + n - 1), from + n)

ScriptItem(s, p) ==
  LET more == CASE s[p] = 76 -> 1 [] s[p] = 77 -> 2 [] s[p] = 78 -> 4 [] OTHER -> 0
      d == [data |-> s, beyond |-> 0]
      n == CASE s[p] \in 1 .. 75 -> s[p]
             [] s[p] = 76 -> At(d, p + 1)
             [] s[p] \in {77, 78} -> Little(d, p + 1, more)
             [] OTHER -> 0
  IN  Pushed(s, more, n, p + 1 + more)

parse_script(s) ==
  LET items[p \in Nat] ==
        LET After(it) == <<it>> \o (IF it.ok THEN items[it.next] ELSE <<>>)
        IN  IF p > Len(s) THEN <<>> ELSE After(ScriptItem(s, p))
  IN  items[1]

-----------------------------------------------------------------------------
(* Measuring: get_tx_hex_len and its helpers, computed apart from what     *)
(* serialize_tx writes; the buffer of the answer has this size.            *)

Total(numbers) ==
  LET upto[n \in 0 .. Len(numbers)] == IF n = 0 THEN 0 ELSE upto[n - 1] + numbers[n]
  IN  upto[Len(numbers)]

SumOf(Size(_), list) == Total([k \in 1 .. Len(list) |-> Size(list[k])])

(* Mutant: the length of a script is taken for one byte. *)
get_single_output_hex_lenShort(o) == 8 + Len(o.script) + 1

get_single_input_hex_len(i) == 40 + Len(i.script) + gen_varint_len(Len(i.script))
get_single_output_hex_len(o) == 8 + Len(o.script) + gen_varint_len(Len(o.script))
get_single_op_item_hex_len(item) == Len(item) + gen_varint_len(Len(item))
get_single_witness_hex_len(w) ==
  gen_varint_len(Len(w.items)) + SumOf(get_single_op_item_hex_len, w.items)

get_inputs_hex_len(l) == gen_varint_len(Len(l)) + SumOf(get_single_input_hex_len, l)
get_outputs_hex_len(l) == gen_varint_len(Len(l)) + SumOf(get_single_output_hex_len, l)
get_witnesses_hex_len(l) == SumOf(get_single_witness_hex_len, l)

(* 0 when a list is empty, which is an error. *)
get_tx_hex_len(tx) ==
  IF tx.inputs = <<>> \/ tx.outputs = <<>> \/ tx.witnesses = <<>> THEN 0
  ELSE 4 + 2 + get_inputs_hex_len(tx.inputs) + get_outputs_hex_len(tx.outputs)
       + get_witnesses_hex_len(tx.witnesses) + 4

-----------------------------------------------------------------------------
(* Writing: the network form, without label, value and version.            *)

Joined(Write(_), list) == FlattenSeq([k \in 1 .. Len(list) |-> Write(list[k])])

serialize_single_op_item(item) == gen_varint(Len(item)) \o item
serialize_single_input(i) == i.outpoint \o serialize_single_op_item(i.script) \o i.sequence
serialize_inputs(l) == gen_varint(Len(l)) \o Joined(serialize_single_input, l)
serialize_single_output(o) == o.value \o serialize_single_op_item(o.script)
serialize_outputs(l) == gen_varint(Len(l)) \o Joined(serialize_single_output, l)
serialize_single_witness(w) ==
  gen_varint(Len(w.items)) \o Joined(serialize_single_op_item, w.items)
serialize_witnesses(l) == Joined(serialize_single_witness, l)

serialize_tx(tx) ==
  tx.nversion \o <<0, 1>> \o serialize_inputs(tx.inputs)
  \o serialize_outputs(tx.outputs) \o serialize_witnesses(tx.witnesses)
  \o tx.lock_time

-----------------------------------------------------------------------------
(* The partial form in which the ground sends a transaction: the reference *)
(* that the readers above are compared with.                               *)

PartialWitness(w) ==
  <<254, 255, 255, 255, 255>> \o w.value \o <<0, 0>> \o serialize_single_witness(w)

PartialTx(tx) ==
  PartialLabel \o <<0>> \o tx.nversion \o <<0, 1>> \o serialize_inputs(tx.inputs)
  \o serialize_outputs(tx.outputs) \o Joined(PartialWitness, tx.witnesses)
  \o tx.lock_time

(* Behind the head 255 of a length two bytes are read and eight are        *)
(* skipped: text t of 253 bytes or more lies in the datum behind such a    *)
(* head, its length and six bytes more.                                    *)
LongText(d, t) ==
  /\ Len(t) >= 253
  /\ \E p \in 1 .. Len(d.data) :
       /\ d.data[p] = 255 /\ Little(d, p + 1, 2) = Len(t)
       /\ p + 8 + Len(t) <= Len(d.data)
       /\ SubSeq(d.data, p + 9, p + 8 + Len(t)) = t

LongScript(d, list) == \E k \in DOMAIN list : LongText(d, list[k].script)
LongItem(d, items) == \E k \in DOMAIN items : LongText(d, items[k])
LongWitness(d, list) == \E k \in DOMAIN list : LongItem(d, list[k].items)

(* A script or an item of tx does.                                         *)
LongLength(d, tx) ==
  LongScript(d, tx.inputs) \/ LongScript(d, tx.outputs) \/ LongWitness(d, tx.witnesses)
====
