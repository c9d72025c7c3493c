---------------------------- MODULE MC_SignTx ----------------------------
(* Small instances of SignTx.  Three parties: the node (1), the ground (2) *)
(* and a third key (3).  The ground's signatures are 7s of any length.     *)
EXTENDS SignTx

Xpub(p) == <<2>> \o [k \in 1 .. 76 |-> 9] \o <<p>>
Push(p, a) == <<76, 83, 255>> \o Xpub(p) \o <<0, 0, a, 0>>
Script(ps) == <<82>> \o Push(ps[1], 1) \o Push(ps[2], 1) \o Push(ps[3], 1) \o <<83, 174>>
Sig(n) == [k \in 1 .. n |-> 7]
Free == <<255>>
Wit(slots, script) ==
  [value |-> <<Len(slots[1]), 1, 0, 0, 0, 0, 0, 0>>, items |-> <<<<>>>> \o slots \o <<script>>]

(* The node's key in every place, the ground's signature in every other. *)
Good == {Wit([k \in 1 .. 3 |-> IF k = g THEN Sig(72) ELSE Free],
             Script([k \in 1 .. 3 |-> IF k = n THEN 1 ELSE IF k = g THEN 2 ELSE 3])) :
           <<n, g>> \in {p \in (1 .. 3) \X (1 .. 3) : p[1] # p[2]}}

S123 == Script(<<1, 2, 3>>)
Odd ==
  {Wit(<<Free, Sig(n), Free>>, S123) : n \in {2, 70, 71, 104, 105}}
  \cup {Wit(<<Free, Sig(72), Sig(72)>>, S123),  \* two signatures already
        Wit(<<Sig(72), Free, Free>>, S123),     \* the node's place is taken
        Wit(<<Free, Free, Free>>, S123),        \* none
        Wit(<<Free, Sig(72), <<>>>>, S123),     \* an empty slot behind
        Wit(<<<<>>, Sig(72), Free>>, Script(<<3, 2, 1>>)),  \* and before
        Wit(<<Free, Sig(72), Free>>, Script(<<3, 2, 3>>)),  \* no key of the node
        Wit(<<Free, Sig(72), Free>>, Script(<<1, 2, 1>>)),  \* twice
        Wit(<<Sig(72), Free, Free>>, Script(<<2, 1, 1>>)),
        Wit(<<Free, Sig(72), Free>>, S123 \o <<174>>),      \* seven items
        Wit(<<Free, Sig(72), Free>>, [S123 EXCEPT ![3] = 82]),
        Wit(<<Free, Sig(72), Free>>, [S123 EXCEPT ![2] = 75]),
        Wit(<<Free, Sig(72), Free>>, [S123 EXCEPT ![5] = 3]),
        [Wit(<<Free, Sig(72), Free>>, S123) EXCEPT !.items = Tail(@)],
        Wit(<<Free, Sig(72), Free, Free>>, S123)}

In(a, script) == [outpoint |-> <<a>> \o [k \in 1 .. 35 |-> 0], script |-> script,
                  sequence |-> <<253, 255, 255, a>>]
Out(n) == [value |-> <<n % 256, 0, 0, 0, 0, 0, 0, 0>>, script |-> [k \in 1 .. n |-> 3]]
Tx(ins, outs, wits) == [nversion |-> <<2, 0, 0, 0>>, inputs |-> ins, outputs |-> outs,
                        witnesses |-> wits, lock_time |-> <<5, 4, 0, 0>>]

G1 == Wit(<<Free, Sig(72), Free>>, S123)
One == Tx(<<In(1, <<>>)>>, <<Out(22)>>, <<G1>>)
Two == {Tx(<<In(1, <<>>), In(2, <<4>>)>>, <<Out(0), Out(22)>>, <<v, w>>) :
          <<v, w>> \in ({G1} \X (Good \cup Odd)) \cup (Odd \X {G1})}
SentDef ==
  {Tx(<<In(1, <<>>)>>, <<Out(22)>>, <<w>>) : w \in Good \cup Odd} \cup Two
  \cup {Tx(<<In(1, Sig(n))>>, <<Out(m)>>, <<G1>>) : n \in {252, 253}, m \in {252, 253, 300}}

Req(data, beyond, len1, len2) ==
  [datum |-> [data |-> data, beyond |-> beyond], siglen |-> <<len1, len2>>]

(* Whole data, followed by nothing or by more. *)
Whole == {Req(PartialTx(t), 0, 72, n) : t \in SentDef, n \in {70, 71}}
         \cup {Req(PartialTx(One) \o <<1, 2, 3>>, 0, n, 71) : n \in {69, 70, 71, 72, 73}}

(* Data cut anywhere, with anything behind. *)
TwoIn == Tx(<<In(1, <<>>), In(2, <<4>>)>>, <<Out(1)>>, <<G1, G1>>)
Cut == {Req(SubSeq(PartialTx(t), 1, n), b, 71, 71) :
          t \in {One}, n \in 1 .. Len(PartialTx(One)) - 1, b \in {0, 1, 255}}

(* Data with one byte changed. *)
Changed == {Req([PartialTx(One) EXCEPT ![n] = v], 0, 71, 71) :
              n \in 1 .. Len(PartialTx(One)), v \in {0, 1, 2, 253, 254, 255}}

(* No inputs, no outputs, neither; more inputs than bytes behind them. *)
NoList == {[One EXCEPT !.outputs = <<>>], [One EXCEPT !.inputs = <<>>, !.witnesses = <<>>],
           [One EXCEPT !.outputs = <<>>, !.witnesses = <<>>],
           [One EXCEPT !.inputs = <<>>, !.outputs = <<>>, !.witnesses = <<>>],
           [One EXCEPT !.inputs = [k \in 1 .. 5 |-> In(k, <<>>)], !.witnesses = <<>>]}
Lists(t) == (IF t.inputs = <<>> THEN <<>> ELSE serialize_inputs(t.inputs))
            \o (IF t.outputs = <<>> THEN <<>> ELSE serialize_outputs(t.outputs))
Without == {Req(SubSeq(PartialTx(t), 1, 12) \o Lists(t) \o Joined(PartialWitness, t.witnesses)
                \o t.lock_time, 0, 71, 71) : t \in NoList}
           \cup {Req(PartialTx(t), 0, 71, 71) : t \in NoList}

(* The script of the first input, of 253 bytes, has its length behind the  *)
(* head 255, and six bytes more that are not part of it.                   *)
Longest ==
  LET data == PartialTx([One EXCEPT !.inputs[1].script = Sig(253)])
  IN  {Req(SubSeq(data, 1, 49) \o <<255, 253, 0>> \o [k \in 1 .. 6 |-> b]
           \o SubSeq(data, 53, Len(data)), 0, 71, 71) : b \in {0, 9}}

RequestsDef == Whole \cup Cut \cup Changed \cup Without \cup Longest
====
