--------------------------- MODULE SignTx_proofs ---------------------------
(***************************************************************************)
(* What s_do_sign_tx answers is the transaction it read, with every input  *)
(* signed from what was read: proved for any requests, any number of       *)
(* inputs and any lengths of signatures.                                   *)
(* And what the ground sends half signed is answered.                      *)
(*                                                                         *)
(* sign_tx changes the transaction in place while it goes through the      *)
(* inputs, so AnswerComplete is not inductive: IInv says what tx is half   *)
(* way, and SameSigned that an input is signed alike in tx and in orig as  *)
(* long as its own witness has not been touched.  JInv adds where tx and   *)
(* the buffer of the answer came from.                                     *)
(***************************************************************************)
EXTENDS SignTx, TxCodec_proofs, FiniteSetTheorems

IsTx(t) ==
  t = [nversion |-> t.nversion, inputs |-> t.inputs, outputs |-> t.outputs,
       witnesses |-> t.witnesses, lock_time |-> t.lock_time]

(* Nothing but the witnesses is changed. *)
SameBody ==
  /\ IsTx(orig) /\ IsTx(tx)
  /\ tx.nversion = orig.nversion /\ tx.inputs = orig.inputs
  /\ tx.outputs = orig.outputs /\ tx.lock_time = orig.lock_time
  /\ DOMAIN tx.witnesses = DOMAIN orig.witnesses

SignedUpTo == \A k \in 1 .. Len(orig.inputs) : k <= i => SignedFrom(orig, k)

UntouchedBehind ==
  \A k \in DOMAIN orig.witnesses : k \in Nat /\ k > i => tx.witnesses[k] = orig.witnesses[k]

Stage ==
  /\ pc \in {"received", "sign", "write", "answered", "refused"}
  /\ i \in Nat
  /\ pc = "received" => i = 0
  /\ pc \in {"write", "answered"} => i = Len(orig.inputs) /\ orig.inputs # <<>>

IInv == Stage /\ SameBody /\ SignedUpTo /\ UntouchedBehind

-----------------------------------------------------------------------------
(* What init_tx returns is a transaction. *)
LEMMA ParsedIsTx ==
  ASSUME NEW d, init_tx(d).ok
  PROVE  IsTx(init_tx(d).val)
<1>1. ~ Failed.ok
  BY ReadFields DEF Failed
<1>2. PICK ins : init_tx(d) = OutputsAfter(d, ins)
  BY <1>1 DEF init_tx
<1>3. PICK outs : OutputsAfter(d, ins) = WitnessesAfter(d, ins, outs)
  BY <1>1, <1>2 DEF OutputsAfter
<1>4. PICK wits : WitnessesAfter(d, ins, outs) = TxWith(d, ins, outs, wits)
  BY <1>1, <1>2, <1>3 DEF WitnessesAfter
<1>5. PICK t, m : TxWith(d, ins, outs, wits) = Read(t, m) /\ IsTx(t)
  BY <1>1, <1>2, <1>3, <1>4 DEF TxWith, IsTx
<1> QED
  BY <1>2, <1>3, <1>4, <1>5, ReadFields

(* Whether and how an input is signed depends on the body of the           *)
(* transaction and on that input's own witness.                            *)
LEMMA SameSigned ==
  ASSUME NEW t, NEW u, NEW k,
         t.nversion = u.nversion, t.inputs = u.inputs, t.outputs = u.outputs,
         t.lock_time = u.lock_time, DOMAIN t.witnesses = DOMAIN u.witnesses,
         k \in DOMAIN u.witnesses => t.witnesses[k] = u.witnesses[k]
  PROVE  sign_single_input(t, k) = sign_single_input(u, k)
<1>1. CASE k \in DOMAIN u.witnesses
  <2>1. \A keys : gen_preimage(t, k, keys) = gen_preimage(u, k, keys)
    BY <1>1 DEF gen_preimage
  <2>2. \A keys, order : gen_sig(t, k, keys, order) = gen_sig(u, k, keys, order)
    BY <2>1 DEF gen_sig
  <2>3. \A keys, order : SignWithKeys(t, k, keys, order) = SignWithKeys(u, k, keys, order)
    BY <1>1, <2>2 DEF SignWithKeys
  <2> QED
    BY <1>1, <2>3 DEF sign_single_input, SignInputWith
<1>2. CASE k \notin DOMAIN u.witnesses
  BY <1>2 DEF sign_single_input
<1> QED
  BY <1>1, <1>2

(* An input without a witness is not signed. *)
LEMMA SignedHasWitness ==
  ASSUME NEW t, NEW k, sign_single_input(t, k).ok
  PROVE  k \in DOMAIN t.witnesses
BY ReadFields DEF sign_single_input, Failed

(* The lengths of the signatures do not change, so nor does what an input  *)
(* is signed with.                                                         *)
LEMMA SigningStays ==
  ASSUME siglen' = siglen, orig' = orig, NEW k
  PROVE  sign_single_input(orig, k)' = sign_single_input(orig, k)
BY DEF sign_single_input, SignInputWith, SignWithKeys, gen_sig

LEMMA SignedStays ==
  ASSUME siglen' = siglen, orig' = orig, NEW k,
         SignedFrom(orig, k), tx'.witnesses[k] = tx.witnesses[k]
  PROVE  SignedFrom(orig, k)'
BY SigningStays DEF SignedFrom

-----------------------------------------------------------------------------
(* Steps that leave the transaction alone. *)
LEMMA Frame ==
  ASSUME IInv, UNCHANGED <<siglen, orig, tx, i>>
  PROVE  SameBody' /\ SignedUpTo' /\ UntouchedBehind'
<1>1. SameBody' /\ UntouchedBehind'
  BY DEF IInv, SameBody, UntouchedBehind, IsTx
<1>2. ASSUME NEW k \in 1 .. Len(orig.inputs), k <= i
      PROVE  SignedFrom(orig, k)'
  BY <1>2, SignedStays DEF IInv, SignedUpTo
<1> QED
  BY <1>1, <1>2 DEF SignedUpTo

LEMMA ParseKeeps == ASSUME IInv, Parse PROVE IInv'
<1>1. PICK r \in {init_tx(datum)} : r.ok /\ orig' = r.val /\ tx' = r.val
  BY DEF Parse
<1>2. IsTx(orig') /\ tx' = orig'
  BY <1>1, ParsedIsTx
<1>3. i' = 0 /\ pc' = "sign"
  BY DEF Parse, IInv, Stage
<1>4. Stage'
  BY <1>3 DEF Stage
<1>5. SameBody'
  BY <1>2 DEF SameBody, IsTx
<1>6. SignedUpTo'
  <2> SUFFICES ASSUME NEW k \in (1 .. Len(orig.inputs))', (k <= i)'
               PROVE  FALSE
    BY DEF SignedUpTo
  <2> k \in Int /\ 1 <= k
    OBVIOUS
  <2> QED
    BY <1>3
<1>7. UntouchedBehind'
  BY <1>2 DEF UntouchedBehind
<1> QED
  BY <1>4, <1>5, <1>6, <1>7 DEF IInv

(* The round for input i + 1.  Its witness is still the one that was read, *)
(* so it is signed as it would be in orig; the witnesses before it and     *)
(* behind it stay as they are.                                             *)
LEMMA SignInputKeeps == ASSUME IInv, SignInput PROVE IInv'
<1> DEFINE r == sign_single_input(tx, i + 1)
<1>1. /\ pc = "sign" /\ pc' = pc /\ i \in Nat /\ i' = i + 1
      /\ siglen' = siglen /\ orig' = orig
      /\ r.ok /\ tx' = [tx EXCEPT !.witnesses[i + 1] = r.val]
  BY DEF SignInput, IInv, Stage
<1>2. SameBody
  BY DEF IInv
<1>3. /\ tx'.nversion = tx.nversion /\ tx'.inputs = tx.inputs
      /\ tx'.outputs = tx.outputs /\ tx'.lock_time = tx.lock_time
      /\ tx'.witnesses = [tx.witnesses EXCEPT ![i + 1] = r.val]
      /\ IsTx(tx')
  BY <1>1, <1>2 DEF SameBody, IsTx
<1>4. DOMAIN tx'.witnesses = DOMAIN tx.witnesses
  BY <1>3
<1>5. i + 1 \in DOMAIN tx.witnesses
  BY <1>1, SignedHasWitness
<1>6. tx'.witnesses[i + 1] = r.val
  BY <1>3, <1>5
<1>7. \A k \in DOMAIN tx.witnesses : k # i + 1 => tx'.witnesses[k] = tx.witnesses[k]
  BY <1>3
<1>8. r = sign_single_input(orig, i + 1)
  <2>1. i + 1 \in DOMAIN orig.witnesses => tx.witnesses[i + 1] = orig.witnesses[i + 1]
    BY <1>1 DEF IInv, UntouchedBehind
  <2> QED
    BY <1>2, <2>1, SameSigned DEF SameBody
<1>9. Stage'
  BY <1>1 DEF Stage
<1>10. SameBody'
  BY <1>1, <1>2, <1>3, <1>4 DEF SameBody
<1>11. SignedUpTo'
  <2> SUFFICES ASSUME NEW k \in 1 .. Len(orig.inputs), k <= i + 1
               PROVE  SignedFrom(orig, k)'
    BY <1>1 DEF SignedUpTo
  <2>1. CASE k <= i
    <3>1. SignedFrom(orig, k)
      BY <2>1 DEF IInv, SignedUpTo
    <3>2. k \in DOMAIN tx.witnesses
      BY <1>2, <3>1, SignedHasWitness DEF SignedFrom, SameBody
    <3> QED
      BY <1>1, <1>7, <2>1, <3>1, <3>2, SignedStays
  <2>2. CASE k = i + 1
    <3>1. sign_single_input(orig, k)' = sign_single_input(orig, k)
      BY <1>1, SigningStays
    <3> QED
      BY <1>1, <1>6, <1>8, <2>2, <3>1 DEF SignedFrom
  <2> QED
    BY <1>1, <2>1, <2>2
<1>12. UntouchedBehind'
  BY <1>1, <1>2, <1>7 DEF IInv, SameBody, UntouchedBehind
<1> QED
  BY <1>9, <1>10, <1>11, <1>12 DEF IInv

LEMMA MeasureKeeps == ASSUME IInv, Measure PROVE IInv'
<1>1. orig.inputs # <<>>
  BY DEF Measure, get_tx_hex_len, IInv, SameBody
<1>2. Stage'
  BY <1>1 DEF Measure, IInv, Stage, SameBody
<1> QED
  BY <1>2, Frame DEF Measure, IInv

LEMMA NextKeeps == ASSUME IInv, [Next]_vars PROVE IInv'
<1>1. CASE ParseRefused \/ SignRefused \/ MeasureRefused
  <2>1. Stage'
    BY <1>1 DEF ParseRefused, SignRefused, MeasureRefused, Refuse, IInv, Stage
  <2> QED
    BY <1>1, <2>1, Frame DEF ParseRefused, SignRefused, MeasureRefused, Refuse, IInv
<1>2. CASE Write
  <2>1. Stage'
    BY <1>2 DEF Write, IInv, Stage
  <2> QED
    BY <1>2, <2>1, Frame DEF Write, IInv
<1>3. CASE UNCHANGED vars
  <2>1. Stage'
    BY <1>3 DEF vars, IInv, Stage
  <2> QED
    BY <1>3, <2>1, Frame DEF vars, IInv
<1> QED
  BY <1>1, <1>2, <1>3, ParseKeeps, SignInputKeeps, MeasureKeeps DEF Next

LEMMA InitHolds == Init => IInv
BY DEF Init, NoTx, IInv, Stage, SameBody, IsTx, SignedUpTo, UntouchedBehind

(* A complete transaction of what was read is answered, or an error: no    *)
(* answer leaves with some inputs signed and others not, or with any of    *)
(* them signed from something else than was read.                          *)
THEOREM AnswerCompleteThm == Spec => []AnswerComplete
<1>1. IInv => AnswerComplete
  <2> SUFFICES ASSUME IInv, pc = "answered" PROVE AnswerComplete
    BY DEF AnswerComplete
  <2>1. i = Len(orig.inputs) /\ orig.inputs # <<>> /\ i \in Nat
    BY DEF IInv, Stage
  <2>2. tx = [orig EXCEPT !.witnesses = tx.witnesses]
    BY DEF IInv, SameBody, IsTx
  <2>3. \A k \in 1 .. Len(orig.inputs) : SignedFrom(orig, k)
    BY <2>1 DEF IInv, SignedUpTo
  <2> QED
    BY <2>1, <2>2, <2>3 DEF AnswerComplete, IInv, SameBody
<1> QED
  BY <1>1, InitHolds, NextKeeps, PTL DEF Spec

-----------------------------------------------------------------------------
(* Texts of a length, and where their bytes are when they are put          *)
(* together.                                                               *)

(* A set of slots has a first one. *)
LEMMA LeastOf ==
  ASSUME NEW S, S \subseteq 1 .. 3, S # {}
  PROVE  \E k \in S : \A l \in S : k <= l
<1>1. CASE 1 \in S
  BY <1>1
<1>2. CASE 1 \notin S /\ 2 \in S
  BY <1>2
<1>3. CASE 1 \notin S /\ 2 \notin S
  <2>1. \A l \in S : l = 3
    BY <1>3
  <2>2. 3 \in S
    BY <2>1
  <2> QED  BY <2>1, <2>2
<1> QED  BY <1>1, <1>2, <1>3

(* Least returns it. *)
LEMMA LeastIs ==
  ASSUME NEW S, S \subseteq 1 .. 3, S # {}
  PROVE  Least(S) \in S /\ \A l \in S : Least(S) <= l
<1>1. \E k \in S : \A l \in S : k <= l
  BY LeastOf
<1> QED  BY <1>1 DEF Least

(* Two texts. *)
LEMMA Cats ==
  ASSUME NEW S
  PROVE  \A a, b \in Seq(S) :
           /\ a \o b \in Seq(S) /\ Len(a \o b) = Len(a) + Len(b)
           /\ \A j \in 1 .. Len(a) : (a \o b)[j] = a[j]
           /\ \A j \in 1 .. Len(b) : (a \o b)[Len(a) + j] = b[j]
OBVIOUS

(* In g a text of n bytes lies before one of m. *)
Joint(g, a, b, n, m) ==
  (\A j \in 1 .. n : g[j] = a[j]) /\ (\A j \in 1 .. m : g[n + j] = b[j])

(* Concatenation, by a name that the lemmas below do not look into. *)
Cat(a, b) == a \o b

Glues(S, n, m, k) ==
  \A a \in Fields(S, n), b \in Fields(S, m) :
    Cat(a, b) \in Fields(S, k) /\ Joint(Cat(a, b), a, b, n, m)

(* Their lengths add up. *)
LEMMA Glue ==
  ASSUME NEW S, NEW n \in Nat, NEW m \in Nat
  PROVE  Glues(S, n, m, n + m)
<1> SUFFICES ASSUME NEW a \in Fields(S, n), NEW b \in Fields(S, m)
             PROVE  /\ a \o b \in Fields(S, n + m)
                    /\ \A j \in 1 .. n : (a \o b)[j] = a[j]
                    /\ \A j \in 1 .. m : (a \o b)[n + j] = b[j]
  BY Zenon DEF Glues, Joint, Cat
<1>1. a \in Seq(S) /\ b \in Seq(S) /\ Len(a) = n /\ Len(b) = m
  BY DEF Fields
<1>a. \A x, y \in Seq(S) :
           /\ x \o y \in Seq(S) /\ Len(x \o y) = Len(x) + Len(y)
           /\ \A j \in 1 .. Len(x) : (x \o y)[j] = x[j]
           /\ \A j \in 1 .. Len(y) : (x \o y)[Len(x) + j] = y[j]
  BY Cats
<1>2. /\ a \o b \in Seq(S) /\ Len(a \o b) = Len(a) + Len(b)
      /\ \A j \in 1 .. Len(a) : (a \o b)[j] = a[j]
      /\ \A j \in 1 .. Len(b) : (a \o b)[Len(a) + j] = b[j]
  BY <1>1, <1>a, Zenon
<1>3. /\ a \o b \in Seq(S) /\ Len(a \o b) = n + m
      /\ \A j \in 1 .. n : (a \o b)[j] = a[j]
      /\ \A j \in 1 .. m : (a \o b)[n + j] = b[j]
  BY <1>1, <1>2, Zenon
<1> QED  BY <1>3, Zenon DEF Fields



(* A public key at a path. *)
LEMMA PubText ==
  ASSUME NEW S, 0 \in S, NEW last \in S, NEW path \in Fields(S, 4)
  PROVE  PubAt(last, path) \in Fields(S, 33) /\ PubAt(last, path)[1] = last
<1> DEFINE zeros == [k \in 1 .. 28 |-> 0]
           head == <<last>>
<1>1. zeros \in Fields(S, 28)
  <2>1. zeros \in Seq(S) /\ Len(zeros) = 28
    BY ListOf
  <2> QED  BY <2>1 DEF Fields
<1>2. head \in Fields(S, 1) /\ head[1] = last
  BY DEF Fields
<1>3. PubAt(last, path) = (head \o path) \o zeros
  BY DEF PubAt
<1>4. Glues(S, 1, 4, 5) /\ Glues(S, 5, 28, 33)
  <2>1. 1 + 4 = 5 /\ 5 + 28 = 33
    OBVIOUS
  <2>2. Glues(S, 1, 4, 1 + 4) /\ Glues(S, 5, 28, 5 + 28)
    BY Glue
  <2> QED  BY <2>1, <2>2
<1> HIDE DEF zeros, head
<1>5. 1 \in 1 .. 1 /\ 1 \in 1 .. 5
  OBVIOUS
<1>6. PICK hp : hp = head \o path
  OBVIOUS
<1>7. hp \in Fields(S, 5) /\ hp[1] = head[1]
  BY <1>2, <1>4, <1>5, <1>6, Zenon DEF Glues, Joint, Cat
<1>8. hp \o zeros \in Fields(S, 33) /\ (hp \o zeros)[1] = hp[1]
  BY <1>1, <1>4, <1>5, <1>7, Zenon DEF Glues, Joint, Cat
<1> QED  BY <1>2, <1>3, <1>6, <1>7, <1>8, Zenon

(* Three texts, by name. *)
AreThese(texts, a, b, c) == texts[1] = a /\ texts[2] = b /\ texts[3] = c

(* Three texts as FlattenSeq puts them together. *)
LEMMA Flatten3 ==
  ASSUME NEW S, NEW a \in Seq(S), NEW b \in Seq(S), NEW c \in Seq(S),
         NEW texts \in Seq(Seq(S)), Len(texts) = 3,
         AreThese(texts, a, b, c)
  PROVE  FlattenSeq(texts) = (a \o b) \o c
<1>0. texts[1] = a /\ texts[2] = b /\ texts[3] = c
  BY DEF AreThese
<1> USE <1>0
<1> DEFINE f == [k \in 0 .. 3 |-> IF k = 0 THEN <<>> ELSE IF k = 1 THEN a
                                  ELSE IF k = 2 THEN a \o b ELSE (a \o b) \o c]
<1>1. f[0] = <<>> /\ f[1] = a /\ f[2] = a \o b /\ f[3] = (a \o b) \o c
  OBVIOUS
<1>2. a \o b \in Seq(S) /\ (a \o b) \o c \in Seq(S) /\ <<>> \in Seq(S) /\ <<>> \o a = a
  BY ConcatProperties, Concat3, EmptySeq, ConcatEmptySeq
<1>3. f \in [0 .. 3 -> Seq(S)]
  BY <1>2
<1> HIDE DEF f
<1>4. ASSUME NEW k \in 1 .. 3 PROVE f[k] = f[k - 1] \o texts[k]
  <2>1. CASE k = 1
    <3>1. f[1] = f[0] \o texts[1] /\ 1 - 1 = 0
      BY <1>1, <1>2
    <3> QED  BY <2>1, <3>1
  <2>2. CASE k = 2
    <3>1. f[2] = f[1] \o texts[2] /\ 2 - 1 = 1
      BY <1>1
    <3> QED  BY <2>2, <3>1
  <2>3. CASE k = 3
    <3>1. f[3] = f[2] \o texts[3] /\ 3 - 1 = 2
      BY <1>1
    <3> QED  BY <2>3, <3>1
  <2>4. k = 1 \/ k = 2 \/ k = 3
    OBVIOUS
  <2> QED  BY <2>1, <2>2, <2>3, <2>4
<1>5. IsFlat(f, texts, S, Len(texts))
  BY <1>1, <1>3, <1>4 DEF IsFlat
<1>6. FlattenSeq(texts) = f[3]
  BY <1>5, FlattenIs
<1> QED  BY <1>1, <1>6

(* The push of a key and the key. *)
LEMMA KeyPush ==
  ASSUME NEW S, 33 \in S, NEW b \in Fields(S, 33)
  PROVE  <<33>> \o b \in Fields(S, 34) /\ \A q \in 1 .. 33 : (<<33>> \o b)[1 + q] = b[q]
<1>1. PICK a : a = <<33>>
  OBVIOUS
<1>2. a \in Fields(S, 1)
  BY <1>1 DEF Fields
<1>3. Glues(S, 1, 33, 34)
  <2>1. 1 + 33 = 34
    OBVIOUS
  <2>2. Glues(S, 1, 33, 1 + 33)
    BY Glue
  <2> QED  BY <2>1, <2>2
<1>4. a \o b \in Fields(S, 34) /\ \A q \in 1 .. 33 : (a \o b)[1 + q] = b[q]
  BY <1>2, <1>3, Zenon DEF Glues, Joint, Cat
<1> QED  BY <1>1, <1>4

(* Where the parts of a script are in the whole. *)
LEMMA Joints ==
  ASSUME NEW t1, NEW t2, NEW t3, NEW a, NEW b, NEW t12, NEW m, NEW am, NEW g,
         Joint(t12, t1, t2, 34, 34), Joint(m, t12, t3, 68, 34),
         Joint(am, a, m, 2, 102), Joint(g, am, b, 104, 2)
  PROVE  /\ g[1] = a[1]
         /\ \A q \in 1 .. 34 : g[2 + q] = t1[q] /\ g[36 + q] = t2[q] /\ g[70 + q] = t3[q]
<1>1. \A q \in 1 .. 34 : t12[q] = t1[q] /\ t12[34 + q] = t2[q]
  BY DEF Joint
<1>2. (\A q \in 1 .. 68 : m[q] = t12[q]) /\ (\A q \in 1 .. 34 : m[68 + q] = t3[q])
  BY DEF Joint
<1>3. (\A q \in 1 .. 2 : am[q] = a[q]) /\ (\A q \in 1 .. 102 : am[2 + q] = m[q])
  BY DEF Joint
<1>4. \A q \in 1 .. 104 : g[q] = am[q]
  BY DEF Joint
<1>5. g[1] = a[1]
  BY <1>3, <1>4
<1>6. ASSUME NEW q \in 1 .. 34
      PROVE  g[2 + q] = t1[q] /\ g[36 + q] = t2[q] /\ g[70 + q] = t3[q]
  <2>1. /\ q \in 1 .. 68 /\ 34 + q \in 1 .. 68
        /\ q \in 1 .. 102 /\ 34 + q \in 1 .. 102 /\ 68 + q \in 1 .. 102
        /\ 2 + q \in 1 .. 104 /\ 36 + q \in 1 .. 104 /\ 70 + q \in 1 .. 104
        /\ 2 + (34 + q) = 36 + q /\ 2 + (68 + q) = 70 + q
    OBVIOUS
  <2>2. g[2 + q] = am[2 + q] /\ am[2 + q] = m[q] /\ m[q] = t12[q] /\ t12[q] = t1[q]
    BY <1>1, <1>2, <1>3, <1>4, <2>1
  <2>3. /\ g[36 + q] = am[36 + q] /\ am[2 + (34 + q)] = m[34 + q]
        /\ m[34 + q] = t12[34 + q] /\ t12[34 + q] = t2[q]
    BY <1>1, <1>2, <1>3, <1>4, <2>1
  <2>4. /\ g[70 + q] = am[70 + q] /\ am[2 + (68 + q)] = m[68 + q] /\ m[68 + q] = t3[q]
    BY <1>2, <1>3, <1>4, <2>1
  <2> QED  BY <2>1, <2>2, <2>3, <2>4
<1> QED  BY <1>5, <1>6

(* The script, and the places of the pushes in it. *)
Script(a, t1, t2, t3, b) == (a \o ((t1 \o t2) \o t3)) \o b

Placed(g, t1, t2, t3) ==
  \A q \in 1 .. 34 : g[2 + q] = t1[q] /\ g[36 + q] = t2[q] /\ g[70 + q] = t3[q]

(* Where the keys are in a script of two signatures of three. *)
LEMMA ScriptText ==
  ASSUME NEW S, NEW a \in Fields(S, 2), NEW t1 \in Fields(S, 34), NEW t2 \in Fields(S, 34),
         NEW t3 \in Fields(S, 34), NEW b \in Fields(S, 2)
  PROVE  /\ Script(a, t1, t2, t3, b) \in Fields(S, 106)
         /\ Script(a, t1, t2, t3, b)[1] = a[1]
         /\ Placed(Script(a, t1, t2, t3, b), t1, t2, t3)
<1>1. /\ Glues(S, 34, 34, 68) /\ Glues(S, 68, 34, 102)
      /\ Glues(S, 2, 102, 104) /\ Glues(S, 104, 2, 106)
  <2>1. 34 + 34 = 68 /\ 68 + 34 = 102 /\ 2 + 102 = 104 /\ 104 + 2 = 106
    OBVIOUS
  <2>2. /\ Glues(S, 34, 34, 34 + 34) /\ Glues(S, 68, 34, 68 + 34)
        /\ Glues(S, 2, 102, 2 + 102) /\ Glues(S, 104, 2, 104 + 2)
    BY Glue
  <2> QED  BY <2>1, <2>2
<1>2. PICK t12 : t12 = Cat(t1, t2)
  OBVIOUS
<1>3. t12 \in Fields(S, 68) /\ Joint(t12, t1, t2, 34, 34)
  BY <1>1, <1>2, SMT DEF Glues
<1>4. PICK m : m = Cat(t12, t3)
  OBVIOUS
<1>5. m \in Fields(S, 102) /\ Joint(m, t12, t3, 68, 34)
  BY <1>1, <1>3, <1>4, SMT DEF Glues
<1>6. PICK am : am = Cat(a, m)
  OBVIOUS
<1>7. am \in Fields(S, 104) /\ Joint(am, a, m, 2, 102)
  BY <1>1, <1>5, <1>6, SMT DEF Glues
<1>8. PICK h : h = Cat(am, b)
  OBVIOUS
<1>9. h \in Fields(S, 106) /\ Joint(h, am, b, 104, 2)
  BY <1>1, <1>7, <1>8, SMT DEF Glues
<1>10. h[1] = a[1] /\ Placed(h, t1, t2, t3)
  BY <1>3, <1>5, <1>7, <1>9, Joints DEF Placed
<1>11. h = Script(a, t1, t2, t3, b)
  BY <1>2, <1>4, <1>6, <1>8, Zenon DEF Cat, Script
<1> QED  BY <1>9, <1>10, <1>11, Zenon

(* Texts of one length with the same bytes are the same. *)
LEMMA SameFields ==
  ASSUME NEW S, NEW n \in Nat, NEW a \in Fields(S, n), NEW b \in Fields(S, n),
         \A j \in 1 .. n : a[j] = b[j]
  PROVE  a = b
<1>1. a \in Seq(S) /\ b \in Seq(S) /\ Len(a) = n /\ Len(b) = n
  BY DEF Fields
<1> QED  BY <1>1, SeqEqual

(* A byte of a text. *)
LEMMA FieldAt ==
  ASSUME NEW S, NEW n \in Nat, NEW a \in Fields(S, n), NEW j \in 1 .. n
  PROVE  a[j] \in S
BY DEF Fields

(* A text without its first byte. *)
LEMMA TailFields ==
  ASSUME NEW S, NEW n \in Nat, NEW g \in Fields(S, n + 1)
  PROVE  /\ Tail(g) \in Fields(S, n) /\ \A j \in 1 .. n : Tail(g)[j] = g[j + 1]
         /\ <<g[1]>> \o Tail(g) = g
<1>1. g \in Seq(S) /\ Len(g) = n + 1 /\ g # <<>> /\ (n + 1) - 1 = n /\ g[1] \in S
  BY DEF Fields
<1>2. /\ Tail(g) \in Seq(S) /\ Len(Tail(g)) = Len(g) - 1
      /\ \A j \in 1 .. Len(Tail(g)) : Tail(g)[j] = g[j + 1]
  BY <1>1, HeadTailProperties
<1>3. PICK t : t = Tail(g)
  OBVIOUS
<1>4. t \in Fields(S, n) /\ \A j \in 1 .. n : t[j] = g[j + 1]
  <2>1. Len(t) = n
    BY <1>1, <1>2, <1>3
  <2> QED  BY <1>2, <1>3, <2>1, Zenon DEF Fields
<1>5. PICK h : h = <<g[1]>>
  OBVIOUS
<1>6. h \in Fields(S, 1) /\ h[1] = g[1]
  BY <1>1, <1>5 DEF Fields
<1>7. Cat(h, t) \in Fields(S, 1 + n) /\ Joint(Cat(h, t), h, t, 1, n)
  <2>1. Glues(S, 1, n, 1 + n)
    BY Glue
  <2> QED  BY <1>4, <1>6, <2>1, SMT DEF Glues
<1>8. Cat(h, t) = g
  <2>1. Cat(h, t) \in Fields(S, n + 1)
    BY <1>7
  <2>2. ASSUME NEW j \in 1 .. n + 1 PROVE Cat(h, t)[j] = g[j]
    <3>1. CASE j = 1
      BY <1>6, <1>7, <3>1 DEF Joint
    <3>2. CASE j # 1
      <4>1. j - 1 \in 1 .. n /\ 1 + (j - 1) = j /\ (j - 1) + 1 = j
        BY <3>2
      <4> QED  BY <1>4, <1>7, <4>1 DEF Joint
    <3> QED  BY <3>1, <3>2
  <2> QED  BY <2>1, <2>2, SameFields
<1> QED  BY <1>3, <1>4, <1>5, <1>8, Zenon DEF Cat

(* A piece of a text. *)
Over(S, s, l, u) == \A j \in l .. u : s[j] \in S
From(b, s, l, n) == \A q \in 1 .. n : b[q] = s[l + q - 1]

(* The piece from l to u. *)
LEMMA SubFields ==
  ASSUME NEW S, NEW s, NEW l \in Int, NEW u \in Int, l <= u,
         NEW n, n = u - l + 1, Over(S, s, l, u)
  PROVE  SubSeq(s, l, u) \in Fields(S, n) /\ From(SubSeq(s, l, u), s, l, n)
<1>1. /\ SubSeq(s, l, u) \in Seq(S)
      /\ Len(SubSeq(s, l, u)) = u - l + 1
      /\ \A q \in 1 .. u - l + 1 : SubSeq(s, l, u)[q] = s[l + q - 1]
  BY SubSeqProperties DEF Over
<1>2. SubSeq(s, l, u) \in Fields(S, n)
  BY <1>1, Zenon DEF Fields
<1> QED  BY <1>1, <1>2, Zenon DEF From

(* The key that the network takes from a place. *)
LEMMA PlainKeyAt ==
  ASSUME NEW S, NEW script \in Fields(S, 105), NEW n \in 1 .. 3, NEW b \in Fields(S, 33),
         \A q \in 1 .. 33 : script[34 * n - 32 + q] = b[q]
  PROVE  PlainKey(script, n) = b
<1>1. PICK l \in Int : l = 34 * n - 31
  OBVIOUS
<1>2. PICK u \in Int : u = 34 * n + 1
  OBVIOUS
<1>3. l \in 1 .. 105 /\ u \in 1 .. 105 /\ l <= u /\ 33 = u - l + 1 /\ 33 \in Nat
  BY <1>1, <1>2
<1>4. Over(S, script, l, u)
  <2>1. \A j \in 1 .. 105 : script[j] \in S
    BY FieldAt
  <2> QED  BY <1>3, <2>1 DEF Over
<1>5. ASSUME NEW q \in 1 .. 33 PROVE script[l + q - 1] = b[q]
  <2>1. l + q - 1 = 34 * n - 32 + q
    BY <1>1
  <2> QED  BY <2>1
<1>6. PICK a : a = SubSeq(script, l, u)
  OBVIOUS
<1>7. a \in Fields(S, 33) /\ From(a, script, l, 33)
  <2>1. SubSeq(script, l, u) \in Fields(S, 33) /\ From(SubSeq(script, l, u), script, l, 33)
    BY <1>3, <1>4, SubFields
  <2> QED  BY <1>6, <2>1
<1>8. \A q \in 1 .. 33 : a[q] = b[q]
  BY <1>5, <1>7, Zenon DEF From
<1>9. a = b
  BY <1>7, <1>8, SameFields
<1> QED  BY <1>1, <1>2, <1>6, <1>9 DEF PlainKey

-----------------------------------------------------------------------------
(* The script of an answer. *)

(* A public key pushed in a script: its length stands before it. *)
PushOf(key) == <<33>> \o Pub(key)

(* Three keys whose pushes are texts over S. *)
PushesOver(S, keys) ==
  /\ keys = [k \in 1 .. 3 |-> keys[k]]
  /\ \A k \in 1 .. 3 : PushOf(keys[k]) \in Seq(S)

(* The pushes of three keys, and the script around them. *)
LEMMA ScriptcodeIs ==
  ASSUME NEW S, NEW keys, PushesOver(S, keys)
  PROVE  gen_scriptcode(keys)
         = (<<105, 82>> \o ((PushOf(keys[1]) \o PushOf(keys[2])) \o PushOf(keys[3])))
           \o <<83, 174>>
<1> DEFINE T(k) == PushOf(keys[k])
           texts == [k \in 1 .. 3 |-> T(k)]
<1>0. keys = [k \in 1 .. 3 |-> keys[k]] /\ \A k \in 1 .. 3 : PushOf(keys[k]) \in Seq(S)
  BY Zenon DEF PushesOver
<1> USE <1>0
<1>1. Len(keys) = 3
  <2>1. keys \in [1 .. 3 -> {keys[k] : k \in 1 .. 3}]
    BY Zenon
  <2> QED  BY <2>1, ListOf
<1>2. Joined(LAMBDA key : <<33>> \o Pub(key), keys) = FlattenSeq(texts)
  BY <1>1 DEF Joined, PushOf
<1>3. \A k \in 1 .. 3 : T(k) \in Seq(S)
  OBVIOUS
<1>4. gen_scriptcode(keys) = (<<105, 82>> \o FlattenSeq(texts)) \o <<83, 174>>
  BY <1>2, Zenon DEF gen_scriptcode
<1> HIDE DEF T
<1>5. texts \in [1 .. 3 -> Seq(S)]
  BY <1>3
<1>6. texts \in Seq(Seq(S)) /\ Len(texts) = 3
  BY <1>5, ListOf
<1>7. texts[1] = T(1) /\ texts[2] = T(2) /\ texts[3] = T(3)
  OBVIOUS
<1>8. T(1) \in Seq(S) /\ T(2) \in Seq(S) /\ T(3) \in Seq(S)
  BY <1>3
<1> HIDE DEF texts
<1>9. FlattenSeq(texts) = (T(1) \o T(2)) \o T(3)
  <2>1. PICK a, b, c \in Seq(S) : a = T(1) /\ b = T(2) /\ c = T(3)
    BY <1>8, Zenon
  <2>2. AreThese(texts, a, b, c)
    BY <1>7, <2>1, Zenon DEF AreThese
  <2> HIDE <1>0
  <2>3. FlattenSeq(texts) = (a \o b) \o c
    BY <1>6, <2>2, Flatten3, Zenon
  <2> QED  BY <2>1, <2>3, Zenon
<1> QED  BY <1>4, <1>9, Zenon DEF T

(* Three keys made of elements of S, with the opcodes of a script in S.    *)
KeysOver(S, keys) ==
  /\ {0, 33, 82, 83, 105, 174} \subseteq S /\ keys = [k \in 1 .. 3 |-> keys[k]]
  /\ \A k \in 1 .. 3 : keys[k].xpub[78] \in S /\ keys[k].path \in Fields(S, 4)

(* A script, without its length, that has every one of the keys in place.  *)
ScriptOver(S, keys, script) ==
  /\ script \in Fields(S, 105) /\ <<105>> \o script = gen_scriptcode(keys)
  /\ \A n \in 1 .. 3 : PlainKey(script, n) = Pub(keys[n])

(* The script with plain keys: a push before each of them, and in the form *)
(* without its length every key where the network looks for it.            *)
LEMMA Scriptcode ==
  ASSUME NEW S, NEW keys, KeysOver(S, keys)
  PROVE  ScriptOver(S, keys, Tail(gen_scriptcode(keys)))
<1>0. /\ {0, 33, 82, 83, 105, 174} \subseteq S /\ keys = [k \in 1 .. 3 |-> keys[k]]
      /\ \A k \in 1 .. 3 : keys[k].xpub[78] \in S /\ keys[k].path \in Fields(S, 4)
  BY Zenon DEF KeysOver
<1> USE <1>0
<1>1. \A k \in 1 .. 3 : Pub(keys[k]) \in Fields(S, 33)
  <2> SUFFICES ASSUME NEW k \in 1 .. 3 PROVE Pub(keys[k]) \in Fields(S, 33)
    OBVIOUS
  <2>1. 0 \in S /\ keys[k].xpub[78] \in S /\ keys[k].path \in Fields(S, 4)
    OBVIOUS
  <2> QED  BY <2>1, PubText DEF Pub
<1>2. PICK t \in [1 .. 3 -> Fields(S, 34)] :
        \A k \in 1 .. 3 : /\ t[k] = PushOf(keys[k])
                          /\ \A q \in 1 .. 33 : t[k][1 + q] = Pub(keys[k])[q]
  <2> DEFINE f == [k \in 1 .. 3 |-> PushOf(keys[k])]
  <2>1. ASSUME NEW k \in 1 .. 3
        PROVE  /\ f[k] \in Fields(S, 34) /\ f[k] = PushOf(keys[k])
               /\ \A q \in 1 .. 33 : f[k][1 + q] = Pub(keys[k])[q]
    <3>1. 33 \in S /\ Pub(keys[k]) \in Fields(S, 33)
      BY <1>1
    <3>2. PICK b : b = Pub(keys[k])
      OBVIOUS
    <3>3. f[k] = PushOf(keys[k]) /\ f[k] = <<33>> \o b
      BY <3>2 DEF PushOf
    <3>4. <<33>> \o b \in Fields(S, 34) /\ \A q \in 1 .. 33 : (<<33>> \o b)[1 + q] = b[q]
      BY <3>1, <3>2, KeyPush
    <3> HIDE DEF f
    <3> QED  BY <3>2, <3>3, <3>4, Zenon
  <2>2. f = [k \in 1 .. 3 |-> f[k]]
    OBVIOUS
  <2> HIDE DEF f
  <2>3. f \in [1 .. 3 -> Fields(S, 34)]
    BY <2>1, <2>2, Zenon
  <2> QED  BY <2>1, <2>3, Zenon
<1>3. PICK g : g = gen_scriptcode(keys)
  OBVIOUS
<1>4. PICK a, b : a = <<105, 82>> /\ b = <<83, 174>>
  OBVIOUS
<1>5. a \in Fields(S, 2) /\ b \in Fields(S, 2) /\ a[1] = 105
  BY <1>4 DEF Fields
<1>6. g = Script(a, t[1], t[2], t[3], b)
  <2>1. \A k \in 1 .. 3 : PushOf(keys[k]) \in Seq(S)
    <3> SUFFICES ASSUME NEW k \in 1 .. 3 PROVE PushOf(keys[k]) \in Seq(S)
      OBVIOUS
    <3>1. t[k] \in Fields(S, 34) /\ t[k] = PushOf(keys[k])
      BY <1>2, Zenon
    <3> QED  BY <3>1, Zenon DEF Fields
  <2>2. 1 \in 1 .. 3 /\ 2 \in 1 .. 3 /\ 3 \in 1 .. 3
    OBVIOUS
  <2>3. g = (<<105, 82>> \o ((PushOf(keys[1]) \o PushOf(keys[2])) \o PushOf(keys[3])))
            \o <<83, 174>>
    <3>1. PushesOver(S, keys)
      BY <2>1, Zenon DEF PushesOver
    <3>2. gen_scriptcode(keys)
          = (<<105, 82>> \o ((PushOf(keys[1]) \o PushOf(keys[2])) \o PushOf(keys[3])))
            \o <<83, 174>>
      <4> HIDE <1>0
      <4> QED  BY <3>1, ScriptcodeIs
    <3> QED  BY <1>3, <3>2, Zenon
  <2>4. /\ t[1] = PushOf(keys[1]) /\ t[2] = PushOf(keys[2])
        /\ t[3] = PushOf(keys[3])
    BY <1>2, <2>2, Zenon
  <2> QED  BY <1>4, <2>3, <2>4, Zenon DEF Script
<1>7. /\ g \in Fields(S, 106) /\ g[1] = 105
      /\ \A q \in 1 .. 34 : /\ g[2 + q] = t[1][q] /\ g[36 + q] = t[2][q]
                            /\ g[70 + q] = t[3][q]
  <2>1. t[1] \in Fields(S, 34) /\ t[2] \in Fields(S, 34) /\ t[3] \in Fields(S, 34)
    OBVIOUS
  <2>2. g \in Fields(S, 106) /\ g[1] = a[1] /\ Placed(g, t[1], t[2], t[3])
    BY <1>5, <1>6, <2>1, ScriptText
  <2> QED  BY <1>5, <2>2, Zenon DEF Placed
<1>8. PICK s : s = Tail(g)
  OBVIOUS
<1>9. /\ s \in Fields(S, 105) /\ \A j \in 1 .. 105 : s[j] = g[j + 1]
      /\ <<105>> \o s = g
  <2>1. PICK n \in Nat : n = 105 /\ n + 1 = 106
    OBVIOUS
  <2>2. g \in Fields(S, n + 1)
    BY <1>7, <2>1, Zenon
  <2>3. /\ Tail(g) \in Fields(S, n) /\ \A j \in 1 .. n : Tail(g)[j] = g[j + 1]
        /\ <<g[1]>> \o Tail(g) = g
    BY <2>2, TailFields, Zenon
  <2> QED  BY <1>7, <1>8, <2>1, <2>3, Zenon
<1>10. ASSUME NEW n \in 1 .. 3 PROVE PlainKey(s, n) = Pub(keys[n])
  <2>1. PICK p : p = Pub(keys[n])
    OBVIOUS
  <2>2. ASSUME NEW q \in 1 .. 33 PROVE s[34 * n - 32 + q] = p[q]
    <3>1. /\ 34 * n - 32 + q \in 1 .. 105 /\ 1 + q \in 1 .. 34
          /\ (34 * n - 32 + q) + 1 = 34 * n - 32 + (1 + q)
      OBVIOUS
    <3>2. s[34 * n - 32 + q] = g[34 * n - 32 + (1 + q)]
      BY <1>9, <3>1
    <3>3. g[34 * n - 32 + (1 + q)] = t[n][1 + q]
      <4>1. CASE n = 1
        <5>1. 34 * n - 32 + (1 + q) = 2 + (1 + q)
          BY <4>1
        <5> QED  BY <1>7, <3>1, <4>1, <5>1
      <4>2. CASE n = 2
        <5>1. 34 * n - 32 + (1 + q) = 36 + (1 + q)
          BY <4>2
        <5> QED  BY <1>7, <3>1, <4>2, <5>1
      <4>3. CASE n = 3
        <5>1. 34 * n - 32 + (1 + q) = 70 + (1 + q)
          BY <4>3
        <5> QED  BY <1>7, <3>1, <4>3, <5>1
      <4> QED  BY <4>1, <4>2, <4>3
    <3>4. t[n][1 + q] = p[q]
      BY <1>2, <2>1, Zenon
    <3> QED  BY <3>2, <3>3, <3>4, Zenon
  <2>3. p \in Fields(S, 33)
    BY <1>1, <2>1, Zenon
  <2>4. PlainKey(s, n) = p
    BY <1>9, <2>2, <2>3, PlainKeyAt
  <2> QED  BY <2>1, <2>4
<1> QED  BY <1>3, <1>8, <1>9, <1>10, Zenon DEF ScriptOver

-----------------------------------------------------------------------------
(* The request, the buffer and the answer. *)

(* What is answered has been read from a request, measured and written.    *)
Came == \E r \in Requests : datum = r.datum /\ siglen = r.siglen

Parsed ==
  pc \in {"sign", "write", "answered"} => init_tx(datum).ok /\ orig = init_tx(datum).val

IsList == tx.witnesses = [k \in DOMAIN tx.witnesses |-> tx.witnesses[k]]

Measured ==
  /\ pc \in {"write", "answered"} => reslen = get_tx_hex_len(tx) /\ reslen # 0
  /\ pc = "answered" => res = serialize_tx(tx)

JInv == IInv /\ Came /\ Parsed /\ IsList /\ Measured

(* What came is bytes. *)
LEMMA CameDatum == ASSUME Came PROVE IsDatum(datum)
BY SignTxAssumption DEF Came, IsDatum, Text, Byte

(* The invariant holds at first. *)
LEMMA JInit == Init => JInv
<1> SUFFICES ASSUME Init PROVE JInv
  OBVIOUS
<1>1. IInv /\ Came /\ pc = "received" /\ tx.witnesses = <<>>
  BY InitHolds DEF Init, Came, NoTx
<1> QED  BY <1>1 DEF JInv, Parsed, IsList, Measured

(* Every step keeps it. *)
LEMMA JNext == ASSUME JInv, [Next]_vars PROVE JInv'
<1>1. IInv'
  BY NextKeeps DEF JInv
<1>2. Came'
  BY DEF JInv, Came, Next, Parse, ParseRefused, SignInput, SignRefused, Measure,
         MeasureRefused, Write, Refuse, vars
<1>3. CASE Parse
  <2>1. PICK r \in {init_tx(datum)} : r.ok /\ orig' = r.val /\ tx' = r.val
    BY <1>3 DEF Parse
  <2>2. datum' = datum /\ pc' = "sign"
    BY <1>3 DEF Parse
  <2>3. Parsed'
    BY <2>1, <2>2 DEF Parsed
  <2>4. IsList'
    <3>1. tx' \in Txs
      BY <2>1, CameDatum, ParsedTx DEF JInv
    <3>2. tx'.witnesses \in Seq(Witnesses)
      BY <3>1 DEF Txs
    <3>3. tx'.witnesses = [k \in DOMAIN tx'.witnesses |-> tx'.witnesses[k]]
      BY <3>2
    <3> QED  BY <3>3 DEF IsList
  <2> QED  BY <1>1, <1>2, <2>2, <2>3, <2>4 DEF JInv, Measured
<1>4. CASE SignInput
  <2>1. PICK w : tx' = [tx EXCEPT !.witnesses[i + 1] = w]
    BY <1>4 DEF SignInput
  <2>2. UNCHANGED <<datum, orig, pc>> /\ pc = "sign"
    BY <1>4 DEF SignInput
  <2>3. IsTx(tx)
    BY DEF JInv, IInv, SameBody
  <2>4. tx'.witnesses = [tx.witnesses EXCEPT ![i + 1] = w]
    BY <2>1, <2>3 DEF IsTx
  <2>5. IsList'
    BY <2>4 DEF IsList
  <2> QED  BY <1>1, <1>2, <2>2, <2>5 DEF JInv, Parsed, Measured
<1>5. CASE ParseRefused \/ SignRefused \/ MeasureRefused
  <2>1. pc' = "refused" /\ tx' = tx
    BY <1>5 DEF ParseRefused, SignRefused, MeasureRefused, Refuse
  <2> QED  BY <1>1, <1>2, <2>1 DEF JInv, Parsed, IsList, Measured
<1>6. CASE Measure
  <2>1. /\ UNCHANGED <<datum, orig, tx>> /\ pc = "sign" /\ pc' = "write"
        /\ reslen' = get_tx_hex_len(tx) /\ reslen' # 0
    BY <1>6 DEF Measure
  <2> QED  BY <1>1, <1>2, <2>1 DEF JInv, Parsed, IsList, Measured
<1>7. CASE Write
  <2>1. /\ UNCHANGED <<datum, orig, tx, reslen>> /\ pc = "write" /\ pc' = "answered"
        /\ res' = serialize_tx(tx)
    BY <1>7 DEF Write
  <2> QED  BY <1>1, <1>2, <2>1 DEF JInv, Parsed, IsList, Measured
<1>8. CASE UNCHANGED vars
  <2>1. UNCHANGED <<datum, orig, tx, reslen, res, pc>>
    BY <1>8 DEF vars
  <2> QED  BY <1>1, <1>2, <2>1 DEF JInv, Parsed, IsList, Measured
<1> QED  BY <1>3, <1>4, <1>5, <1>6, <1>7, <1>8 DEF Next

(* An answer is given only to data that begin with the partial form of the *)
(* transaction that was read, for data of any length and with any bytes:   *)
(* the late checks of lengths in init_tx lose nothing.                     *)
THEOREM AnswersWhatCameThm == Spec => []AnswersWhatCame
<1>1. JInv => AnswersWhatCame
  <2> SUFFICES ASSUME JInv, pc = "answered", ~ LongLength(datum, orig)
               PROVE  IsPrefix(PartialTx(orig), datum.data)
    BY DEF AnswersWhatCame
  <2>1. /\ init_tx(datum).ok /\ orig = init_tx(datum).val
        /\ i = Len(orig.inputs) /\ orig.inputs # <<>>
        /\ tx.outputs = orig.outputs /\ get_tx_hex_len(tx) # 0
    BY DEF JInv, Parsed, Measured, IInv, Stage, SameBody
  <2>2. orig.outputs # <<>>
    BY <2>1 DEF get_tx_hex_len
  <2>3. orig \in Txs
    BY <2>1, CameDatum, ParsedTx DEF JInv
  <2>4. 1 \in 1 .. Len(orig.inputs) /\ 1 <= i
    <3>1. orig.inputs \in Seq(Inputs)
      BY <2>3 DEF Txs
    <3>2. Len(orig.inputs) \in Nat /\ Len(orig.inputs) # 0
      BY <2>1, <3>1
    <3> QED  BY <2>1, <3>2
  <2>5. sign_single_input(orig, 1).ok
    BY <2>4 DEF JInv, IInv, SignedUpTo, SignedFrom
  <2>6. 1 \in DOMAIN orig.witnesses
    BY <2>5, SignedHasWitness
  <2>7. orig.witnesses # <<>>
    BY <2>6
  <2> QED  BY <2>1, <2>2, <2>7, CameDatum, ParsedTx DEF JInv
<1> QED  BY <1>1, JInit, JNext, PTL DEF Spec

-----------------------------------------------------------------------------
(* The new witness of an input. *)

(* One slot of three. *)
LEMMA OneOf ==
  ASSUME NEW S, S \subseteq 1 .. 3, Cardinality(S) = 1
  PROVE  \E x \in 1 .. 3 : S = {x}
<1>1. IsFiniteSet(1 .. 3)
  <2>1. \A a, b \in Int : IsFiniteSet(a .. b)
    BY FS_Interval
  <2>2. 1 \in Int /\ 3 \in Int
    OBVIOUS
  <2> QED  BY <2>1, <2>2, Zenon
<1>2. IsFiniteSet(S)
  BY <1>1, FS_Subset
<1> QED  BY <1>2, FS_Singleton

(* Both slots of two. *)
LEMMA BothOf ==
  ASSUME NEW S, S \subseteq 1 .. 2, Cardinality(S) = 2
  PROVE  1 \in S /\ 2 \in S
<1>1. IsFiniteSet(1 .. 2) /\ Cardinality(1 .. 2) = 2
  <2>1. \A a, b \in Int : IsFiniteSet(a .. b)
    BY FS_Interval
  <2>2. \A a, b \in Int : Cardinality(a .. b) = IF a > b THEN 0 ELSE b - a + 1
    BY FS_Interval
  <2>3. 1 \in Int /\ 2 \in Int
    OBVIOUS
  <2>4. IsFiniteSet(1 .. 2) /\ Cardinality(1 .. 2) = IF 1 > 2 THEN 0 ELSE 2 - 1 + 1
    BY <2>1, <2>2, <2>3, Zenon
  <2> QED  BY <2>4
<1>2. S = 1 .. 2
  BY <1>1, FS_Subset
<1> QED  BY <1>2

(* Which slots go into the new witness, and in which order. *)
LEMMA TwoTaken ==
  ASSUME NEW filled, filled \subseteq 1 .. 3, NEW order \in filled, NEW n \in filled,
         n # order,
         Least(filled) \in {order, n} \/ Least(filled) \notin 1 .. 3,
         \/ Least(filled \ {Least(filled)}) \in {order, n}
         \/ Least(filled \ {Least(filled)}) \notin 1 .. 3
  PROVE  /\ Least(filled) = IF order < n THEN order ELSE n
         /\ Least(filled \ {Least(filled)}) = IF order < n THEN n ELSE order
<1>a. PICK first : first = Least(filled)
  OBVIOUS
<1>b. PICK second : second = Least(filled \ {first})
  OBVIOUS
<1>1. first \in filled /\ \A l \in filled : first <= l
  BY <1>a, LeastIs
<1>2. second \in filled \ {first} /\ \A l \in filled \ {first} : second <= l
  <2>1. filled \ {first} \subseteq 1 .. 3 /\ filled \ {first} # {}
    BY <1>1
  <2> QED  BY <1>b, <2>1, LeastIs
<1>3. first \in {order, n} /\ second \in {order, n}
  BY <1>a, <1>b, <1>1, <1>2
<1>4. order \in 1 .. 3 /\ n \in 1 .. 3
  OBVIOUS
<1>5. first # second /\ first <= second
  <2>1. \A l \in filled \ {first} : first <= l
    BY <1>1
  <2> QED  BY <1>2, <2>1
<1>6. /\ first = IF order < n THEN order ELSE n
      /\ second = IF order < n THEN n ELSE order
  BY <1>3, <1>4, <1>5
<1> QED  BY <1>a, <1>b, <1>6, Zenon

(* The lengths of signatures are not those of free slots. *)
LEMMA Wide == \A l \in 71 .. 104 : l > 1
OBVIOUS

(* The items are the signature and the one that was there, in the order of *)
(* the keys, before the script of the keys.                                *)
SignedItems(slots, keys, order, sig, items) ==
  \E n \in 1 .. 3 :
    /\ n # order /\ Len(slots[n]) \in 71 .. 104
    /\ items = <<<<>>, IF order < n THEN sig ELSE slots[n],
                  IF order < n THEN slots[n] ELSE sig, Tail(gen_scriptcode(keys))>>

(* What WitnessWithSig made. *)
LEMMA NewWitness ==
  ASSUME NEW slots, DOMAIN slots = 1 .. 3,
         NEW keys, NEW order \in 1 .. 3, NEW sig,
         WitnessWithSig(slots, keys, order, sig).ok
  PROVE  /\ Len(sig) \in 71 .. 72
         /\ SignedItems(slots, keys, order, sig,
                        WitnessWithSig(slots, keys, order, sig).val.items)
<1> DEFINE ins == Inserted(slots, order, sig)
           w == gen_new_witness(ins, keys)
           r == WitnessWithSig(slots, keys, order, sig)
<1>0. ~ Failed.ok
  BY ReadFields DEF Failed
<1>1. /\ OneFilled(slots) /\ Insertable(slots, order, sig)
      /\ r = update_tx_after_signed(slots, w)
  BY <1>0 DEF WitnessWithSig
<1> HIDE DEF w
<1>2. /\ get_sigs_num_from_witness(slots) = 1
      /\ get_sigs_num_from_witness(SubSeq(w.items, 2, 3)) = 2
      /\ r.val = w
  <2> HIDE DEF r
  <2>1. /\ get_sigs_num_from_witness(slots) = 1
        /\ get_sigs_num_from_witness(SubSeq(w.items, 2, 3)) = 2
    BY <1>0, <1>1, Zenon DEF update_tx_after_signed, r
  <2>2. r = [ok |-> TRUE, val |-> w]
    BY <1>1, <2>1, Zenon DEF update_tx_after_signed
  <2> QED  BY <2>1, <2>2, Zenon
<1>3. Len(sig) \in 71 .. 72 /\ Len(slots[order]) = 1
  BY <1>1 DEF Insertable
<1>4. DOMAIN slots = 1 .. 3
  OBVIOUS
<1>5. PICK n \in 1 .. 3 : {k \in 1 .. 3 : Len(slots[k]) > 1} = {n}
  BY <1>1, <1>4, OneOf DEF OneFilled
<1>a. \A k \in 1 .. 3 : Len(slots[k]) > 1 => k = n
  BY <1>5
<1>6. Len(slots[n]) \in 71 .. 104
  <2>1. PICK x \in 1 .. 3 : {k \in 1 .. 3 : Len(slots[k]) \in 71 .. 104} = {x}
    BY <1>2, <1>4, OneOf DEF get_sigs_num_from_witness
  <2>2. Len(slots[x]) \in 71 .. 104
    BY <2>1
  <2>3. x = n
    <3>1. Len(slots[x]) > 1
      BY <2>2, Wide, Zenon
    <3> QED  BY <1>a, <3>1, Zenon
  <2> QED  BY <2>2, <2>3
<1>7. n # order
  BY <1>3, <1>6
<1>8. /\ DOMAIN ins = 1 .. 3 /\ ins[order] = sig
      /\ \A k \in 1 .. 3 : k # order => ins[k] = slots[k]
  BY <1>4 DEF Inserted
<1> DEFINE filled == {k \in 1 .. 3 : Len(ins[k]) # 1}
           first == Least(filled)
           second == Least(filled \ {first})
<1>9. w = [value |-> <<>>,
           items |-> <<<<>>, ins[first], ins[second], Tail(gen_scriptcode(keys))>>]
  BY <1>8, Zenon DEF gen_new_witness, w
<1>10. filled \subseteq 1 .. 3 /\ order \in filled /\ n \in filled
  BY <1>3, <1>6, <1>7, <1>8
<1>11. Len(ins[first]) \in 71 .. 104 /\ Len(ins[second]) \in 71 .. 104
  <2>1. PICK a, b, s : a = ins[first] /\ b = ins[second] /\ s = Tail(gen_scriptcode(keys))
    OBVIOUS
  <2>2. PICK l : l = <<<<>>, a, b, s>>
    OBVIOUS
  <2>3. w.items = l
    BY <1>9, <2>1, <2>2
  <2>4. SubSeq(l, 2, 3) \in Fields({a, b}, 2) /\ From(SubSeq(l, 2, 3), l, 2, 2)
    <3>1. Over({a, b}, l, 2, 3)
      BY <2>2 DEF Over
    <3>2. 2 \in Int /\ 3 \in Int /\ 2 <= 3 /\ 2 = 3 - 2 + 1
      OBVIOUS
    <3> QED  BY <3>1, <3>2, SubFields
  <2>5. PICK p : p = SubSeq(w.items, 2, 3)
    OBVIOUS
  <2>6. DOMAIN p = 1 .. 2
    BY <2>3, <2>4, <2>5 DEF Fields
  <2>7. p[1] = a /\ p[2] = b
    <3>1. From(p, l, 2, 2)
      BY <2>3, <2>4, <2>5
    <3>2. p[1] = l[2] /\ p[2] = l[3]
      BY <3>1 DEF From
    <3> QED  BY <2>2, <3>2
  <2> DEFINE Y == {k \in 1 .. 2 : Len(p[k]) \in 71 .. 104}
  <2>8. Cardinality(Y) = 2
    BY <1>2, <2>5, <2>6 DEF get_sigs_num_from_witness
  <2>9. Y \subseteq 1 .. 2
    OBVIOUS
  <2>10. 1 \in Y /\ 2 \in Y
    <3> HIDE DEF Y
    <3> QED  BY <2>8, <2>9, BothOf
  <2> QED  BY <2>1, <2>7, <2>10
<1>12. \A k \in 1 .. 3 : Len(ins[k]) \in 71 .. 104 => k \in {order, n}
  <2> SUFFICES ASSUME NEW k \in 1 .. 3, Len(ins[k]) \in 71 .. 104, k # order
               PROVE  k = n
    OBVIOUS
  <2>1. Len(slots[k]) \in 71 .. 104
    BY <1>8
  <2>2. Len(slots[k]) > 1
    BY <2>1, Wide, Zenon
  <2> QED  BY <1>a, <2>2, Zenon
<1> HIDE DEF ins, r
<1>13. /\ first = IF order < n THEN order ELSE n
       /\ second = IF order < n THEN n ELSE order
  <2>1. first \in {order, n} \/ first \notin 1 .. 3
    BY <1>11, <1>12, Zenon
  <2>2. second \in {order, n} \/ second \notin 1 .. 3
    BY <1>11, <1>12, Zenon
  <2> HIDE DEF filled
  <2> QED  BY <1>7, <1>10, <2>1, <2>2, TwoTaken
<1>14. ins[first] = IF order < n THEN sig ELSE slots[n]
  BY <1>7, <1>8, <1>13, Zenon
<1>15. ins[second] = IF order < n THEN slots[n] ELSE sig
  BY <1>7, <1>8, <1>13, Zenon
<1> HIDE DEF first, second
<1>16. r.val.items = <<<<>>, IF order < n THEN sig ELSE slots[n],
                      IF order < n THEN slots[n] ELSE sig, Tail(gen_scriptcode(keys))>>
  BY <1>2, <1>9, <1>14, <1>15
<1> QED  BY <1>3, <1>6, <1>7, <1>16, Zenon DEF SignedItems, r

(* A signature is a text, of the length it is given. *)
LEMMA SignatureText ==
  ASSUME NEW pub, NEW text, NEW len \in 9 .. 73
  PROVE  /\ \E V : Signature(pub, text, len) \in Seq(V)
         /\ Len(Signature(pub, text, len)) = len
<1>1. PICK a, b : a = Digest(pub \o text) % 256 /\ b = Digest(pub \o text) \div 256
  OBVIOUS
<1>2. PICK V : V = {0, 1, 48, a, b}
  OBVIOUS
<1>3. PICK head : head = <<48, a, b>>
  OBVIOUS
<1>4. PICK zeros : zeros = [k \in 1 .. len - 4 |-> 0]
  OBVIOUS
<1>5. PICK end : end = <<1>>
  OBVIOUS
<1>6. head \in Seq(V) /\ end \in Seq(V) /\ Len(head) = 3 /\ Len(end) = 1
  BY <1>2, <1>3, <1>5
<1>7. zeros \in Seq(V) /\ Len(zeros) = len - 4
  <2>1. len - 4 \in Nat /\ zeros \in [1 .. len - 4 -> V]
    BY <1>2, <1>4
  <2> QED  BY <2>1, ListOf
<1>8. Signature(pub, text, len) = (head \o zeros) \o end
  BY <1>1, <1>3, <1>4, <1>5, Zenon DEF Signature
<1>9. /\ (head \o zeros) \o end \in Seq(V)
      /\ Len((head \o zeros) \o end) = (Len(head) + Len(zeros)) + Len(end)
  <2>1. \A a1, b1, c1 \in Seq(V) :
          /\ (a1 \o b1) \o c1 \in Seq(V)
          /\ Len((a1 \o b1) \o c1) = (Len(a1) + Len(b1)) + Len(c1)
    BY Concat3
  <2> QED  BY <1>6, <1>7, <2>1, Zenon
<1>10. (3 + (len - 4)) + 1 = len
  OBVIOUS
<1> QED  BY <1>6, <1>7, <1>8, <1>9, <1>10

(* A path is four bytes of a push. *)
LEMMA PathText ==
  ASSUME NEW push
  PROVE  KeyIn(push).path \in Fields({push[j] : j \in 80 .. 83}, 4)
<1>1. PICK V : V = {push[j] : j \in 80 .. 83}
  OBVIOUS
<1>2. Over(V, push, 80, 83)
  BY <1>1 DEF Over
<1>3. 80 \in Int /\ 83 \in Int /\ 80 <= 83 /\ 4 = 83 - 80 + 1
  OBVIOUS
<1>4. SubSeq(push, 80, 83) \in Fields(V, 4)
  BY <1>2, <1>3, SubFields
<1> QED  BY <1>1, <1>4 DEF KeyIn

(* The keys of a script are three, with paths of four bytes. *)
LEMMA KeysText ==
  ASSUME NEW w, NEW keys, keys = get_publist_and_paths(w), keys # <<>>
  PROVE  /\ Len(w.items) = 5 /\ keys = [k \in 1 .. 3 |-> keys[k]]
         /\ \E V : \A k \in 1 .. 3 : keys[k].path \in Fields(V, 4)
<1>1. Len(w.items) = 5 /\ keys = KeysIn(parse_script(w.items[5]))
  BY DEF get_publist_and_paths
<1>2. PICK items : items = parse_script(w.items[5])
  OBVIOUS
<1>3. keys = [k \in 1 .. 3 |-> KeyIn(items[k + 1].val)]
  BY <1>1, <1>2, Zenon DEF KeysIn
<1>4. keys = [k \in 1 .. 3 |-> keys[k]]
  BY <1>3, Zenon
<1>5. PICK V : V = UNION {{items[k + 1].val[j] : j \in 80 .. 83} : k \in 1 .. 3}
  OBVIOUS
<1>6. ASSUME NEW k \in 1 .. 3 PROVE keys[k].path \in Fields(V, 4)
  <2>1. PICK p : p = keys[k].path
    OBVIOUS
  <2>2. PICK U : U = {items[k + 1].val[j] : j \in 80 .. 83}
    OBVIOUS
  <2>3. p \in Fields(U, 4)
    <3>1. keys[k] = KeyIn(items[k + 1].val)
      BY <1>3, Zenon
    <3> QED  BY <2>1, <2>2, <3>1, PathText
  <2>4. U \subseteq V
    BY <1>5, <2>2
  <2>5. p \in Seq(U) /\ Len(p) = 4
    BY <2>3 DEF Fields
  <2>6. p \in Seq(V)
    BY <2>4, <2>5, SeqMonotonic
  <2> QED  BY <2>1, <2>5, <2>6 DEF Fields
<1> QED  BY <1>1, <1>4, <1>6, Zenon

(* Input k of t is signed with the key in place m, beside the signature in *)
(* slot n.                                                                 *)
SignedAs(t, k, keys, m, n) ==
  /\ keys = get_publist_and_paths(t.witnesses[k])
  /\ keys = [j \in 1 .. 3 |-> keys[j]]
  /\ \E V : \A j \in 1 .. 3 : keys[j].path \in Fields(V, 4)
  /\ m \in 1 .. 3 /\ n \in 1 .. 3 /\ n # m
  /\ PubAt(Own, keys[m].path) = Pub(keys[m])
  /\ Len(Slots(t.witnesses[k])[n]) \in 71 .. 104
  /\ sign_single_input(t, k).val.items
     = <<<<>>, IF m < n THEN gen_sig(t, k, keys, m) ELSE Slots(t.witnesses[k])[n],
         IF m < n THEN Slots(t.witnesses[k])[n] ELSE gen_sig(t, k, keys, m),
         Tail(gen_scriptcode(keys))>>

(* The slots of a witness with five items. *)
LEMMA SlotsText ==
  ASSUME NEW w, w.items \in Seq(Text), Len(w.items) = 5
  PROVE  Slots(w) \in Fields(Text, 3)
<1>1. PICK items : items = w.items
  OBVIOUS
<1>2. \A j \in 1 .. 5 : items[j] \in Text
  BY <1>1, ElementOfSeq
<1>3. Over(Text, items, 2, 4)
  BY <1>2 DEF Over
<1>4. 2 \in Int /\ 4 \in Int /\ 2 <= 4 /\ 3 = 4 - 2 + 1
  OBVIOUS
<1>5. SubSeq(items, 2, 4) \in Fields(Text, 3)
  BY <1>3, <1>4, SubFields
<1> QED  BY <1>1, <1>5 DEF Slots

(* What a signed input was signed with, and what was made of it. *)
LEMMA SignedInput ==
  ASSUME NEW t, NEW k, sign_single_input(t, k).ok,
         t.witnesses[k].items \in Seq(Text)
  PROVE  /\ k \in DOMAIN t.witnesses
         /\ Slots(t.witnesses[k]) \in Fields(Text, 3)
         /\ \E keys, m, n : SignedAs(t, k, keys, m, n)
<1>0. ~ Failed.ok
  BY ReadFields DEF Failed
<1>1. PICK w, r, keys, order, sig, slots :
        /\ w = t.witnesses[k] /\ r = sign_single_input(t, k)
        /\ keys = get_publist_and_paths(w) /\ order = get_order_and_paths(keys)
        /\ sig = gen_sig(t, k, keys, order) /\ slots = Slots(w)
  OBVIOUS
<1>2. k \in DOMAIN t.witnesses /\ r = SignInputWith(t, k, keys)
  BY <1>0, <1>1 DEF sign_single_input
<1>3. keys # <<>> /\ r = SignWithKeys(t, k, keys, order)
  BY <1>0, <1>1, <1>2 DEF SignInputWith
<1>4. order # 0 /\ r = WitnessWithSig(slots, keys, order, sig)
  BY <1>0, <1>1, <1>3 DEF SignWithKeys
<1>5. /\ Len(w.items) = 5 /\ keys = [j \in 1 .. 3 |-> keys[j]]
      /\ \E V : \A j \in 1 .. 3 : keys[j].path \in Fields(V, 4)
  BY <1>1, <1>3, KeysText
<1>6. slots \in Fields(Text, 3)
  BY <1>1, <1>5, SlotsText
<1>7. DOMAIN slots = 1 .. 3
  BY <1>6 DEF Fields
<1>8. order \in 1 .. 3 /\ PubAt(Own, keys[order].path) = Pub(keys[order])
  <2> DEFINE K == {j \in DOMAIN keys : PubAt(Own, keys[j].path) = Pub(keys[j])}
  <2>1. order = Least(K)
    BY <1>1 DEF get_order_and_paths
  <2>2. DOMAIN keys = 1 .. 3
    BY <1>5, Zenon
  <2>3. K \subseteq 1 .. 3
    BY <2>2
  <2>4. order \in K
    <3> HIDE DEF K
    <3>1. K # {}
      BY <1>4, <2>1 DEF Least
    <3> QED  BY <2>1, <2>3, <3>1, LeastIs
  <2> QED  BY <2>3, <2>4
<1>9. PICK n \in 1 .. 3 :
        /\ n # order /\ Len(slots[n]) \in 71 .. 104
        /\ r.val.items = <<<<>>, IF order < n THEN sig ELSE slots[n],
                           IF order < n THEN slots[n] ELSE sig, Tail(gen_scriptcode(keys))>>
  <2>1. WitnessWithSig(slots, keys, order, sig).ok
    BY <1>1, <1>4
  <2>2. SignedItems(slots, keys, order, sig,
                    WitnessWithSig(slots, keys, order, sig).val.items)
    BY <1>7, <1>8, <2>1, NewWitness
  <2>3. SignedItems(slots, keys, order, sig, r.val.items)
    BY <1>4, <2>2, Zenon
  <2> QED  BY <2>3, Zenon DEF SignedItems
<1>10. SignedAs(t, k, keys, order, n)
  BY <1>1, <1>5, <1>8, <1>9, Zenon DEF SignedAs
<1> QED  BY <1>1, <1>2, <1>6, <1>10

-----------------------------------------------------------------------------
(* The size of the answer. *)

(* A sequence of four. *)
LEMMA Four ==
  ASSUME NEW S, NEW a \in S, NEW b \in S, NEW c \in S, NEW d \in S
  PROVE  <<a, b, c, d>> \in Seq(S)
OBVIOUS

(* A sequence over a set is one over any larger set. *)
LEMMA Wider ==
  ASSUME NEW S, NEW T, S \subseteq T, NEW a \in Seq(S)
  PROVE  a \in Seq(T)
BY SeqMonotonic

(* Every input has been signed. *)
AllSigned == pc \in {"sign", "write", "answered"} /\ i = Len(orig.inputs)

(* So it is when there is an answer. *)
LEMMA AnswerSigned == ASSUME JInv, pc = "answered" PROVE AllSigned
BY DEF JInv, IInv, Stage, AllSigned

(* Every input was signed so, with a signature of the length that came     *)
(* with the request.                                                       *)
LEMMA Signed ==
  ASSUME JInv, AllSigned, NEW k \in 1 .. Len(orig.inputs)
  PROVE  /\ k \in DOMAIN orig.witnesses /\ siglen[k] \in 9 .. 73
         /\ Slots(orig.witnesses[k]) \in Fields(Text, 3)
         /\ \E keys, m, n : SignedAs(orig, k, keys, m, n)
         /\ tx.witnesses[k] = sign_single_input(orig, k).val
<1>1. sign_single_input(orig, k).ok /\ tx.witnesses[k] = sign_single_input(orig, k).val
  BY DEF JInv, IInv, Stage, SignedUpTo, SignedFrom, AllSigned
<1>2. orig = init_tx(datum).val /\ init_tx(datum).ok /\ orig \in Txs
  BY CameDatum, ParsedTx DEF JInv, Parsed, AllSigned
<1>3. k \in DOMAIN orig.witnesses
  BY <1>1, SignedHasWitness
<1>4. PICK list : list = orig.witnesses
  OBVIOUS
<1>5. list \in Seq(Witnesses) /\ k \in 1 .. Len(list)
  <2>1. list \in Seq(Witnesses)
    BY <1>2, <1>4 DEF Txs
  <2> QED  BY <1>3, <1>4, <2>1, LenProperties
<1>6. orig.witnesses[k].items \in Seq(Text)
  <2>1. list[k] \in Witnesses
    BY <1>5, ElementOfSeq
  <2> QED  BY <1>4, <2>1 DEF Witnesses
<1>7. siglen[k] \in 9 .. 73
  <2>1. PICK r \in Requests : datum = r.datum /\ siglen = r.siglen
    BY DEF JInv, Came
  <2>2. siglen \in Seq(9 .. 73)
    BY <2>1, SignTxAssumption
  <2>3. Len(list) <= Len(siglen)
    BY <1>2, <1>4, <2>1, SignTxAssumption
  <2>4. k \in 1 .. Len(siglen)
    <3>1. Len(list) \in Nat /\ Len(siglen) \in Nat
      BY <1>5, <2>2, LenProperties
    <3> QED  BY <1>5, <2>3, <3>1
  <2> QED  BY <2>2, <2>4, ElementOfSeq
<1> QED  BY <1>1, <1>3, <1>6, <1>7, SignedInput

(* What was made of an input is texts over one set. *)
LEMMA ItemsText ==
  ASSUME JInv, AllSigned, NEW k \in 1 .. Len(orig.inputs)
  PROVE  \E U : tx.witnesses[k].items \in Seq(Seq(U))
<1>1. PICK keys, m, n : SignedAs(orig, k, keys, m, n)
  BY Signed
<1>2. /\ siglen[k] \in 9 .. 73 /\ Slots(orig.witnesses[k]) \in Fields(Text, 3)
      /\ tx.witnesses[k] = sign_single_input(orig, k).val
  BY Signed
<1>3. PICK sig, slot, script :
        /\ sig = gen_sig(orig, k, keys, m) /\ slot = Slots(orig.witnesses[k])[n]
        /\ script = Tail(gen_scriptcode(keys))
  OBVIOUS
<1>4. tx.witnesses[k].items
      = <<<<>>, IF m < n THEN sig ELSE slot, IF m < n THEN slot ELSE sig, script>>
  BY <1>1, <1>2, <1>3, Zenon DEF SignedAs
<1>5. PICK V1 : sig \in Seq(V1)
  BY <1>2, <1>3, SignatureText DEF gen_sig
<1>6. slot \in Seq(Byte)
  <2>1. n \in 1 .. 3
    BY <1>1 DEF SignedAs
  <2> QED  BY <1>2, <1>3, <2>1, FieldAt DEF Text
<1>7. PICK V3 : script \in Seq(V3)
  <2>1. keys = [j \in 1 .. 3 |-> keys[j]]
    BY <1>1, Zenon DEF SignedAs
  <2>2. PICK V : \A j \in 1 .. 3 : keys[j].path \in Fields(V, 4)
    BY <1>1, Zenon DEF SignedAs
  <2>3. PICK W : W = {0, 33, 82, 83, 105, 174} \cup V \cup {keys[j].xpub[78] : j \in 1 .. 3}
    OBVIOUS
  <2>4. {0, 33, 82, 83, 105, 174} \subseteq W /\ V \subseteq W
    BY <2>3
  <2>5. \A j \in 1 .. 3 : keys[j].xpub[78] \in W
    BY <2>3
  <2>6. \A j \in 1 .. 3 : keys[j].path \in Fields(W, 4)
    <3> SUFFICES ASSUME NEW j \in 1 .. 3 PROVE keys[j].path \in Fields(W, 4)
      OBVIOUS
    <3>1. PICK p : p = keys[j].path
      OBVIOUS
    <3>2. p \in Seq(V) /\ Len(p) = 4
      BY <2>2, <3>1 DEF Fields
    <3>3. p \in Seq(W)
      BY <2>4, <3>2, Wider
    <3> QED  BY <3>1, <3>2, <3>3 DEF Fields
  <2>7. script \in Fields(W, 105)
    <3>1. KeysOver(W, keys)
      BY <2>1, <2>4, <2>5, <2>6 DEF KeysOver
    <3>2. ScriptOver(W, keys, script)
      BY <1>3, <3>1, Scriptcode, Zenon
    <3> QED  BY <3>2, Zenon DEF ScriptOver
  <2> QED  BY <2>7, Zenon DEF Fields
<1>8. PICK U : U = V1 \cup Byte \cup V3
  OBVIOUS
<1>9. V1 \subseteq U /\ Byte \subseteq U /\ V3 \subseteq U
  BY <1>8, Zenon
<1>10. sig \in Seq(U) /\ slot \in Seq(U) /\ script \in Seq(U)
  BY <1>5, <1>6, <1>7, <1>9, Wider
<1>11. PICK X : X = Seq(U)
  OBVIOUS
<1>12. <<>> \in X /\ sig \in X /\ slot \in X /\ script \in X
  BY <1>10, <1>11, EmptySeq
<1>13. /\ (IF m < n THEN sig ELSE slot) \in X /\ (IF m < n THEN slot ELSE sig) \in X
  BY <1>12, Zenon
<1>14. tx.witnesses[k].items \in Seq(X)
  BY <1>4, <1>12, <1>13, Four, Zenon
<1> QED  BY <1>11, <1>14

(* The lists as they were read, over any set with the bytes in it. *)
LEMMA ListsOver ==
  ASSUME NEW S, Nat \subseteq S, NEW t \in Txs
  PROVE  /\ t.inputs \in Seq(InputsOver(S)) /\ t.outputs \in Seq(OutputsOver(S))
         /\ t.nversion \in Fields(S, 4) /\ t.lock_time \in Fields(S, 4)
<1>1. Byte \subseteq S
  BY DEF Byte
<1>2. \A a \in Text : a \in Seq(S)
  BY <1>1, Wider DEF Text
<1>3. \A n : Texts(n) \subseteq Fields(S, n)
  BY <1>2, Zenon DEF Texts, Fields
<1>4. Inputs \subseteq InputsOver(S)
  BY <1>2, <1>3 DEF Inputs, InputsOver
<1>5. Outputs \subseteq OutputsOver(S)
  BY <1>2, <1>3 DEF Outputs, OutputsOver
<1>6. /\ t.inputs \in Seq(Inputs) /\ t.outputs \in Seq(Outputs)
      /\ t.nversion \in Texts(4) /\ t.lock_time \in Texts(4)
  BY DEF Txs
<1> QED  BY <1>3, <1>4, <1>5, <1>6, Wider

(* What has been signed is lists of texts over one set, with the bytes in  *)
(* it.                                                                     *)
LEMMA SignedOver ==
  ASSUME JInv, AllSigned, tx.witnesses # <<>>
  PROVE  \E S :
           /\ Nat \subseteq S
           /\ tx.inputs \in Seq(InputsOver(S)) /\ tx.outputs \in Seq(OutputsOver(S))
           /\ tx.nversion \in Fields(S, 4) /\ tx.lock_time \in Fields(S, 4)
           /\ Len(tx.witnesses) \in Nat
           /\ \A k \in 1 .. Len(tx.witnesses) : tx.witnesses[k].items \in Seq(Seq(S))
<1>3. orig = init_tx(datum).val /\ init_tx(datum).ok
  BY DEF JInv, Parsed, AllSigned
<1>4. /\ orig \in Txs
      /\ orig.witnesses = <<>> \/ Len(orig.witnesses) = Len(orig.inputs)
  BY <1>3, CameDatum, ParsedTx DEF JInv
<1>5. /\ tx.inputs = orig.inputs /\ tx.outputs = orig.outputs
      /\ tx.nversion = orig.nversion /\ tx.lock_time = orig.lock_time
      /\ DOMAIN tx.witnesses = DOMAIN orig.witnesses
  BY DEF JInv, IInv, SameBody
<1>6. PICK l, W : l = orig.witnesses /\ W = tx.witnesses
  OBVIOUS
<1>7. PICK N \in Nat : N = Len(l) /\ DOMAIN l = 1 .. N
  <2>1. l \in Seq(Witnesses)
    BY <1>4, <1>6 DEF Txs
  <2> QED  BY <2>1, LenProperties
<1>8. W = [k \in 1 .. N |-> W[k]]
  BY <1>5, <1>6, <1>7, Zenon DEF JInv, IsList
<1>9. Len(W) = N
  <2>1. W \in [1 .. N -> {W[k] : k \in 1 .. N}]
    BY <1>8, Zenon
  <2> QED  BY <2>1, ListOf
<1>10. N = Len(orig.inputs)
  <2>1. W # <<>>
    BY <1>6
  <2>2. l # <<>>
    <3> SUFFICES ASSUME l = <<>> PROVE FALSE
      OBVIOUS
    <3>1. N = 0
      BY <1>7
    <3>2. W = [k \in 1 .. 0 |-> W[k]]
      BY <1>8, <3>1, Zenon
    <3>3. W = <<>>
      BY <3>2
    <3> QED  BY <2>1, <3>3
  <2> QED  BY <1>4, <1>6, <1>7, <2>2
<1> DEFINE U(k) == CHOOSE V : W[k].items \in Seq(Seq(V))
<1>11. PICK S : S = Nat \cup UNION {U(k) : k \in 1 .. N}
  BY Zenon
<1>12. \A k \in 1 .. N : W[k].items \in Seq(Seq(S))
  <2> SUFFICES ASSUME NEW k \in 1 .. N PROVE W[k].items \in Seq(Seq(S))
    OBVIOUS
  <2>1. W[k].items \in Seq(Seq(U(k)))
    BY <1>6, <1>10, ItemsText, Zenon
  <2>2. PICK V : V = U(k)
    BY Zenon
  <2>3. V \subseteq S
    BY <1>11, <2>2, Zenon
  <2> HIDE DEF U
  <2>4. Seq(V) \subseteq Seq(S)
    BY <2>3, Wider
  <2> QED  BY <2>1, <2>2, <2>4, Wider
<1> HIDE DEF U
<1>13. Nat \subseteq S
  BY <1>11
<1>14. /\ tx.inputs \in Seq(InputsOver(S)) /\ tx.outputs \in Seq(OutputsOver(S))
       /\ tx.nversion \in Fields(S, 4) /\ tx.lock_time \in Fields(S, 4)
  BY <1>4, <1>5, <1>13, ListsOver
<1>15. /\ Len(tx.witnesses) \in Nat
       /\ \A k \in 1 .. Len(tx.witnesses) : tx.witnesses[k].items \in Seq(Seq(S))
  BY <1>6, <1>9, <1>12
<1> QED  BY <1>13, <1>14, <1>15

(* serialize_tx writes as many bytes as get_tx_hex_len counts, whatever    *)
(* was signed: the buffer that the answer is written to has the right size *)
(* for every length of the lists and of what is in them.                   *)
THEOREM BufferFilledThm == Spec => []BufferFilled
<1>1. JInv => BufferFilled
  <2> SUFFICES ASSUME JInv, pc = "answered" PROVE Len(res) = reslen
    BY DEF BufferFilled
  <2>1. /\ res = serialize_tx(tx) /\ reslen = get_tx_hex_len(tx) /\ get_tx_hex_len(tx) # 0
    BY DEF JInv, Measured
  <2>2. /\ tx.inputs # <<>> /\ tx.outputs # <<>> /\ tx.witnesses # <<>>
    BY <2>1 DEF get_tx_hex_len
  <2>3. AllSigned
    BY AnswerSigned
  <2>4. PICK S :
          /\ Nat \subseteq S
          /\ tx.inputs \in Seq(InputsOver(S)) /\ tx.outputs \in Seq(OutputsOver(S))
          /\ tx.nversion \in Fields(S, 4) /\ tx.lock_time \in Fields(S, 4)
          /\ Len(tx.witnesses) \in Nat
          /\ \A k \in 1 .. Len(tx.witnesses) : tx.witnesses[k].items \in Seq(Seq(S))
    BY <2>2, <2>3, SignedOver
  <2> QED  BY <2>1, <2>2, <2>4, TxLen
<1> QED  BY <1>1, JInit, JNext, PTL DEF Spec

-----------------------------------------------------------------------------
(* What the network sees. *)

(* A script of 105 bytes has a length of one byte before it. *)
LEMMA OpScript ==
  ASSUME NEW script, Len(script) = 105
  PROVE  serialize_single_op_item(script) = <<105>> \o script
<1>1. gen_varint(105) = <<105>>
  BY SMT DEF gen_varint
<1> QED  BY <1>1, Zenon DEF serialize_single_op_item

(* The keys of the request as the network reads them from the script of an *)
(* answer.                                                                 *)
LEMMA AnswerScript ==
  ASSUME NEW keys, keys = [j \in 1 .. 3 |-> keys[j]], NEW V,
         \A j \in 1 .. 3 : keys[j].path \in Fields(V, 4), NEW m \in 1 .. 3,
         PubAt(Own, keys[m].path) = Pub(keys[m])
  PROVE  LET script == Tail(gen_scriptcode(keys))
         IN  /\ serialize_single_op_item(script) = gen_scriptcode(keys)
             /\ PlainKey(script, m) = PubAt(Own, keys[m].path)
             /\ PlainKey(script, m)[1] = Own
<1>3. PICK W : W = {0, 33, 82, 83, 105, 174, Own} \cup V \cup {keys[j].xpub[78] : j \in 1 .. 3}
  OBVIOUS
<1>4. {0, 33, 82, 83, 105, 174} \subseteq W /\ V \subseteq W /\ Own \in W /\ 0 \in W
  BY <1>3
<1>5. \A j \in 1 .. 3 : keys[j].xpub[78] \in W
  BY <1>3
<1>6. \A j \in 1 .. 3 : keys[j].path \in Fields(W, 4)
  <2> SUFFICES ASSUME NEW j \in 1 .. 3 PROVE keys[j].path \in Fields(W, 4)
    OBVIOUS
  <2>1. PICK p : p = keys[j].path
    OBVIOUS
  <2>2. p \in Seq(V) /\ Len(p) = 4
    BY <2>1 DEF Fields
  <2>3. p \in Seq(W)
    BY <1>4, <2>2, Wider
  <2> QED  BY <2>1, <2>2, <2>3 DEF Fields
<1>7. PICK script : script = Tail(gen_scriptcode(keys))
  OBVIOUS
<1>8. /\ script \in Fields(W, 105) /\ <<105>> \o script = gen_scriptcode(keys)
      /\ PlainKey(script, m) = Pub(keys[m])
  <2>1. KeysOver(W, keys)
    BY <1>4, <1>5, <1>6 DEF KeysOver
  <2>2. ScriptOver(W, keys, script)
    BY <1>7, <2>1, Scriptcode, Zenon
  <2> QED  BY <2>2, Zenon DEF ScriptOver
<1>9. serialize_single_op_item(script) = gen_scriptcode(keys)
  <2>1. Len(script) = 105
    BY <1>8, Zenon DEF Fields
  <2> QED  BY <1>8, <2>1, OpScript, Zenon
<1>10. PubAt(Own, keys[m].path)[1] = Own
  <2>1. keys[m].path \in Fields(W, 4)
    BY <1>6
  <2> QED  BY <1>4, <2>1, PubText
<1> QED  BY <1>7, <1>8, <1>9, <1>10, Zenon

(* Every input of an answer carries two signatures in the order of their   *)
(* keys: the node's own, over the text that the network makes of the       *)
(* answer, and the one that came with the request.                         *)
THEOREM AnswerVerifiesThm == Spec => []AnswerVerifies
<1>1. JInv => AnswerVerifies
  <2> SUFFICES ASSUME JInv, pc = "answered", NEW k \in 1 .. Len(tx.inputs)
               PROVE  InputVerifies(k, tx.witnesses[k].items, Slots(orig.witnesses[k]))
    BY DEF AnswerVerifies
  <2>1. /\ tx.inputs = orig.inputs /\ tx.outputs = orig.outputs
        /\ tx.nversion = orig.nversion /\ tx.lock_time = orig.lock_time
    BY DEF JInv, IInv, SameBody
  <2>2. k \in 1 .. Len(orig.inputs)
    BY <2>1
  <2>3. PICK keys, m, n : SignedAs(orig, k, keys, m, n)
    BY <2>2, AnswerSigned, Signed
  <2>4. tx.witnesses[k] = sign_single_input(orig, k).val
    BY <2>2, AnswerSigned, Signed
  <2>5. PICK sig, slots, script, items :
          /\ sig = gen_sig(orig, k, keys, m) /\ slots = Slots(orig.witnesses[k])
          /\ script = Tail(gen_scriptcode(keys)) /\ items = tx.witnesses[k].items
    OBVIOUS
  <2>6. /\ m \in 1 .. 3 /\ n \in 1 .. 3 /\ n # m /\ Len(slots[n]) \in 71 .. 104
        /\ items = <<<<>>, IF m < n THEN sig ELSE slots[n],
                     IF m < n THEN slots[n] ELSE sig, script>>
    BY <2>3, <2>4, <2>5, Zenon DEF SignedAs
  <2>7. /\ serialize_single_op_item(script) = gen_scriptcode(keys)
        /\ PlainKey(script, m) = PubAt(Own, keys[m].path)
        /\ PlainKey(script, m)[1] = Own
    <3>1. keys = [j \in 1 .. 3 |-> keys[j]] /\ PubAt(Own, keys[m].path) = Pub(keys[m])
      BY <2>3, Zenon DEF SignedAs
    <3>2. PICK V : \A j \in 1 .. 3 : keys[j].path \in Fields(V, 4)
      BY <2>3, Zenon DEF SignedAs
    <3> QED  BY <2>5, <2>6, <3>1, <3>2, AnswerScript, Zenon
  <2>8. /\ Len(items) = 4 /\ items[1] = <<>> /\ items[4] = script
        /\ items[2] = IF m < n THEN sig ELSE slots[n]
        /\ items[3] = IF m < n THEN slots[n] ELSE sig
    BY <2>6
  <2>9. SignedText(k, orig.witnesses[k].value) = gen_preimage(orig, k, keys)
    BY <2>1, <2>5, <2>7, <2>8, Zenon DEF SignedText, gen_preimage
  <2>10. sig = Ours(k, script, m)
    BY <2>5, <2>7, <2>9, Zenon DEF gen_sig, Ours
  <2>11. InputVerifies(k, items, slots)
    <3>1. /\ m # n
          /\ items[IF m < n THEN 2 ELSE 3] = Ours(k, items[4], m)
          /\ items[IF m < n THEN 3 ELSE 2] = slots[n]
      BY <2>6, <2>8, <2>10, Zenon
    <3> QED  BY <2>6, <2>7, <2>8, <3>1, Zenon DEF InputVerifies
  <2> QED  BY <2>5, <2>11, Zenon
<1> QED  BY <1>1, JInit, JNext, PTL DEF Spec

-----------------------------------------------------------------------------
(* What the ground sends half signed. *)

(* Of three slots one is free for the node, one free and one signed: the   *)
(* signature is taken, and the new witness made of the two.                *)
LEMMA SlotSigned ==
  ASSUME NEW slots, DOMAIN slots = 1 .. 3, NEW keys, NEW sig, Len(sig) \in 71 .. 72,
         NEW m \in 1 .. 3, NEW n \in 1 .. 3, NEW o \in 1 .. 3, {m, n, o} = 1 .. 3,
         Len(slots[m]) = 1, Len(slots[o]) = 1, Len(slots[n]) \in 71 .. 104
  PROVE  WitnessWithSig(slots, keys, m, sig).ok
<1> DEFINE ins == Inserted(slots, m, sig)
           w == gen_new_witness(ins, keys)
           filled == {k \in 1 .. 3 : Len(ins[k]) # 1}
           first == Least(filled)
           second == Least(filled \ {first})
<1>1. m # n /\ o # n /\ o # m /\ \A k \in 1 .. 3 : k = m \/ k = n \/ k = o
  <2>1. o # n /\ m # n
    OBVIOUS
  <2>2. 1 \in {m, n, o} /\ 2 \in {m, n, o} /\ 3 \in {m, n, o}
    OBVIOUS
  <2> QED  BY <2>1, <2>2
<1>2. \A x : Cardinality({x}) = 1
  BY FS_Singleton
<1>3. OneFilled(slots)
  <2>a. Len(slots[n]) > 1 /\ ~ (Len(slots[m]) > 1) /\ ~ (Len(slots[o]) > 1)
    <3>1. PICK ln, lm, lo : ln = Len(slots[n]) /\ lm = Len(slots[m]) /\ lo = Len(slots[o])
      OBVIOUS
    <3>2. ln \in 71 .. 104 /\ lm = 1 /\ lo = 1
      BY <3>1, Zenon
    <3>3. ln > 1 /\ ~ (lm > 1) /\ ~ (lo > 1)
      BY <3>2
    <3> QED  BY <3>1, <3>3, Zenon
  <2>1. {k \in DOMAIN slots : Len(slots[k]) > 1} = {n}
    BY <1>1, <2>a, Zenon
  <2> QED  BY <1>2, <2>1 DEF OneFilled
<1>4. get_sigs_num_from_witness(slots) = 1
  <2>1. {k \in DOMAIN slots : Len(slots[k]) \in 71 .. 104} = {n}
    BY <1>1
  <2> QED  BY <1>2, <2>1 DEF get_sigs_num_from_witness
<1>5. /\ DOMAIN ins = 1 .. 3 /\ ins[m] = sig
      /\ \A k \in 1 .. 3 : k # m => ins[k] = slots[k]
  BY DEF Inserted
<1> HIDE DEF ins
<1>6. filled = {m, n}
  BY <1>1, <1>5
<1>7. first \in {m, n} /\ second \in {m, n}
  <2> HIDE DEF filled
  <2>1. first \in filled
    BY <1>6, LeastIs
  <2>2. filled \ {first} \subseteq 1 .. 3 /\ filled \ {first} # {}
    BY <1>1, <1>6, <2>1
  <2>3. second \in filled \ {first}
    BY <2>2, LeastIs
  <2> QED  BY <1>6, <2>1, <2>3
<1>8. w = [value |-> <<>>,
           items |-> <<<<>>, ins[first], ins[second], Tail(gen_scriptcode(keys))>>]
  BY <1>5, Zenon DEF gen_new_witness
<1> HIDE DEF w, first, second
<1>9. Len(ins[first]) \in 71 .. 104 /\ Len(ins[second]) \in 71 .. 104
  <2>1. Len(ins[m]) \in 71 .. 104 /\ Len(ins[n]) \in 71 .. 104
    BY <1>1, <1>5
  <2> QED  BY <1>7, <2>1
<1>10. get_sigs_num_from_witness(SubSeq(w.items, 2, 3)) = 2
  <2>1. PICK a, b, s : a = ins[first] /\ b = ins[second] /\ s = Tail(gen_scriptcode(keys))
    OBVIOUS
  <2>2. PICK l : l = <<<<>>, a, b, s>>
    OBVIOUS
  <2>3. w.items = l
    BY <1>8, <2>1, <2>2
  <2>4. SubSeq(l, 2, 3) \in Fields({a, b}, 2) /\ From(SubSeq(l, 2, 3), l, 2, 2)
    <3>1. Over({a, b}, l, 2, 3)
      BY <2>2 DEF Over
    <3>2. 2 \in Int /\ 3 \in Int /\ 2 <= 3 /\ 2 = 3 - 2 + 1
      OBVIOUS
    <3> QED  BY <3>1, <3>2, SubFields
  <2>5. PICK p : p = SubSeq(w.items, 2, 3)
    OBVIOUS
  <2>6. DOMAIN p = 1 .. 2
    BY <2>3, <2>4, <2>5 DEF Fields
  <2>7. p[1] = a /\ p[2] = b
    <3>1. From(p, l, 2, 2)
      BY <2>3, <2>4, <2>5
    <3>2. p[1] = l[2] /\ p[2] = l[3]
      BY <3>1 DEF From
    <3> QED  BY <2>2, <3>2
  <2>8. {k \in DOMAIN p : Len(p[k]) \in 71 .. 104} = 1 .. 2
    BY <1>9, <2>1, <2>6, <2>7
  <2>9. Cardinality(1 .. 2) = 2
    <3>1. \A a1, b1 \in Int : Cardinality(a1 .. b1) = IF a1 > b1 THEN 0 ELSE b1 - a1 + 1
      BY FS_Interval
    <3>2. 1 \in Int /\ 2 \in Int
      OBVIOUS
    <3>3. Cardinality(1 .. 2) = IF 1 > 2 THEN 0 ELSE 2 - 1 + 1
      BY <3>1, <3>2, Zenon
    <3> QED  BY <3>3
  <2> QED  BY <2>5, <2>8, <2>9 DEF get_sigs_num_from_witness
<1>11. Insertable(slots, m, sig) /\ Len(sig) >= 70
  <2>1. \A l \in 71 .. 72 : l >= 70
    OBVIOUS
  <2>2. Len(sig) >= 70
    BY <2>1, Zenon
  <2> QED  BY <2>2, Zenon DEF Insertable
<1>12. WitnessWithSig(slots, keys, m, sig) = update_tx_after_signed(slots, w)
  BY <1>3, <1>11 DEF WitnessWithSig, w, ins
<1>13. update_tx_after_signed(slots, w) = [ok |-> TRUE, val |-> w]
  BY <1>4, <1>10 DEF update_tx_after_signed
<1> QED  BY <1>12, <1>13

(* Of the three keys, with paths over V, the m-th is the node's first.     *)
OwnFirst(keys, V, m) ==
  /\ keys = [k \in 1 .. 3 |-> keys[k]] /\ \A k \in 1 .. 3 : keys[k].path \in Fields(V, 4)
  /\ keys[m].xpub[78] = Own /\ \A l \in 1 .. m - 1 : keys[l].xpub[78] # Own

(* The node takes the place of its first key, by the last byte of the      *)
(* extended keys.                                                          *)
LEMMA OrderIs ==
  ASSUME NEW keys, NEW V, NEW m \in 1 .. 3, OwnFirst(keys, V, m)
  PROVE  get_order_and_paths(keys) = m
<1>0. /\ keys = [k \in 1 .. 3 |-> keys[k]] /\ \A k \in 1 .. 3 : keys[k].path \in Fields(V, 4)
      /\ keys[m].xpub[78] = Own /\ \A l \in 1 .. m - 1 : keys[l].xpub[78] # Own
  BY Zenon DEF OwnFirst
<1> USE <1>0
<1> DEFINE K == {k \in DOMAIN keys : PubAt(Own, keys[k].path) = Pub(keys[k])}
<1>1. PICK W : W = V \cup {0, Own} \cup {keys[k].xpub[78] : k \in 1 .. 3}
  OBVIOUS
<1>2. 0 \in W /\ Own \in W /\ V \subseteq W /\ \A k \in 1 .. 3 : keys[k].xpub[78] \in W
  BY <1>1
<1>3. \A k \in 1 .. 3 : keys[k].path \in Fields(W, 4)
  BY <1>2, Wider DEF Fields
<1>4. ASSUME NEW k \in 1 .. 3
      PROVE  PubAt(Own, keys[k].path)[1] = Own /\ Pub(keys[k])[1] = keys[k].xpub[78]
  <2>1. PICK path, last : path = keys[k].path /\ last = keys[k].xpub[78]
    OBVIOUS
  <2>2. path \in Fields(W, 4) /\ last \in W /\ Own \in W /\ 0 \in W
    BY <1>2, <1>3, <2>1
  <2>3. PubAt(Own, path)[1] = Own /\ PubAt(last, path)[1] = last
    BY <2>2, PubText
  <2> QED  BY <2>1, <2>3 DEF Pub
<1>5. DOMAIN keys = 1 .. 3
  BY Zenon
<1>6. m \in K
  BY <1>5 DEF Pub
<1>7. \A k \in K : keys[k].xpub[78] = Own
  BY <1>4, <1>5
<1>8. K \subseteq 1 .. 3
  BY <1>5
<1> HIDE DEF K
<1>9. Least(K) \in K /\ Least(K) <= m
  BY <1>6, <1>8, LeastIs
<1>10. Least(K) \notin 1 .. m - 1
  BY <1>7, <1>9
<1>11. Least(K) = m
  BY <1>8, <1>9, <1>10
<1> QED  BY <1>11 DEF get_order_and_paths, K

(* An input that is half signed gets its second signature. *)
LEMMA HalfSignedInput ==
  ASSUME NEW t, NEW k \in DOMAIN t.witnesses, t.outputs # <<>>,
         t.witnesses[k].items \in Seq(Text), siglen[k] \in 71 .. 72,
         InputHalfSigned(Slots(t.witnesses[k]), get_publist_and_paths(t.witnesses[k]))
  PROVE  sign_single_input(t, k).ok
<1>1. PICK w, keys, slots :
        w = t.witnesses[k] /\ keys = get_publist_and_paths(w) /\ slots = Slots(w)
  OBVIOUS
<1>2. PICK m, n, o \in 1 .. 3 :
        /\ {m, n, o} = 1 .. 3
        /\ keys[m].xpub[78] = Own
        /\ \A l \in 1 .. m - 1 : keys[l].xpub[78] # Own
        /\ Len(slots[m]) = 1 /\ Len(slots[o]) = 1
        /\ Len(slots[n]) \in 71 .. 104
  <2>1. InputHalfSigned(slots, keys)
    BY <1>1
  <2> QED  BY <2>1 DEF InputHalfSigned
<1>3. keys # <<>>
  BY <1>1 DEF InputHalfSigned
<1>4. /\ Len(w.items) = 5 /\ keys = [j \in 1 .. 3 |-> keys[j]]
      /\ \E V : \A j \in 1 .. 3 : keys[j].path \in Fields(V, 4)
  BY <1>1, <1>3, KeysText
<1>5. PICK sig : sig = gen_sig(t, k, keys, m)
  OBVIOUS
<1>6. Len(sig) \in 71 .. 72
  <2>1. siglen[k] \in 9 .. 73
    OBVIOUS
  <2> QED  BY <1>5, <2>1, SignatureText DEF gen_sig
<1>7. get_order_and_paths(keys) = m
  <2>1. PICK V : OwnFirst(keys, V, m)
    BY <1>2, <1>4, Zenon DEF OwnFirst
  <2> QED  BY <2>1, OrderIs, Zenon
<1>8. DOMAIN slots = 1 .. 3
  BY <1>1, <1>4, SlotsText DEF Fields
<1>9. WitnessWithSig(slots, keys, m, sig).ok
  BY <1>2, <1>6, <1>8, SlotSigned
<1>10. sign_single_input(t, k) = SignInputWith(t, k, keys)
  BY <1>1 DEF sign_single_input
<1>11. SignInputWith(t, k, keys) = SignWithKeys(t, k, keys, m)
  BY <1>3, <1>7 DEF SignInputWith
<1>12. SignWithKeys(t, k, keys, m) = WitnessWithSig(slots, keys, m, sig)
  <2>1. m # 0
    OBVIOUS
  <2> QED  BY <1>1, <1>5, <2>1 DEF SignWithKeys
<1> QED  BY <1>9, <1>10, <1>11, <1>12

(* Transactions of bytes, over any set with the bytes in it. *)
LEMMA TxOver ==
  ASSUME NEW S, Nat \subseteq S, NEW t \in Txs
  PROVE  t \in TxsOver(S)
<1>1. /\ t.inputs \in Seq(InputsOver(S)) /\ t.outputs \in Seq(OutputsOver(S))
      /\ t.nversion \in Fields(S, 4) /\ t.lock_time \in Fields(S, 4)
  BY ListsOver
<1>2. \A a \in Text : a \in Seq(S)
  <2>1. Byte \subseteq S
    BY DEF Byte
  <2> QED  BY <2>1, Wider DEF Text
<1>3. Witnesses \subseteq WitnessesOver(S)
  <2>1. Texts(8) \subseteq Fields(S, 8)
    BY <1>2, Zenon DEF Texts, Fields
  <2>2. Seq(Text) \subseteq Seq(Seq(S))
    BY <1>2, SeqMonotonic
  <2> QED  BY <2>1, <2>2 DEF Witnesses, WitnessesOver
<1>4. t.witnesses \in Seq(WitnessesOver(S))
  <2>1. t.witnesses \in Seq(Witnesses)
    BY DEF Txs
  <2> QED  BY <1>3, <2>1, Wider
<1>5. t = [nversion |-> t.nversion, inputs |-> t.inputs, outputs |-> t.outputs,
           witnesses |-> t.witnesses, lock_time |-> t.lock_time]
  BY DEF Txs
<1> QED  BY <1>1, <1>4, <1>5 DEF TxsOver

(* What the ground sent half signed is what init_tx returns. *)
LEMMA SentRead ==
  ASSUME Came, NEW t \in Sent, IsPrefix(PartialTx(t), datum.data), HalfSigned(t)
  PROVE  init_tx(datum).ok /\ init_tx(datum).val = t
<1>1. t \in Txs /\ Len(t.witnesses) = Len(t.inputs)
  BY SignTxAssumption
<1>2. t.inputs # <<>> /\ t.outputs # <<>>
  BY DEF HalfSigned
<1>3. ASSUME NEW k \in 1 .. Len(t.witnesses) PROVE t.witnesses[k].items # <<>>
  <2>1. PICK w, keys : w = t.witnesses[k] /\ keys = get_publist_and_paths(w)
    OBVIOUS
  <2>2. keys # <<>>
    BY <1>1, <2>1 DEF HalfSigned, InputHalfSigned
  <2>3. Len(w.items) = 5
    BY <2>1, <2>2, KeysText
  <2>4. \A a : Len(a) = 5 => a # <<>>
    OBVIOUS
  <2> QED  BY <2>1, <2>3, <2>4, Zenon
<1>4. Readable(t)
  BY <1>1, <1>2, <1>3 DEF Readable
<1>5. t \in TxsOver(Nat)
  BY <1>1, TxOver
<1>6. init_tx(datum) = Read(t, 1 + Len(PartialTx(t)))
  BY <1>4, <1>5, CameDatum, WrittenIsRead
<1> QED  BY <1>6, ReadFields

(* Its inputs are all signed, whatever has been signed before. *)
LEMMA SentSigned ==
  ASSUME JInv, pc = "sign", NEW t \in Sent, IsPrefix(PartialTx(t), datum.data), HalfSigned(t),
         \A k \in 1 .. Len(t.inputs) : siglen[k] \in 71 .. 72,
         i < Len(tx.inputs)
  PROVE  sign_single_input(tx, i + 1).ok
<1>1. orig = t
  BY SentRead DEF JInv, Parsed
<1>2. t \in Txs /\ Len(t.witnesses) = Len(t.inputs)
  BY SignTxAssumption
<1>3. /\ SameBody /\ UntouchedBehind /\ i \in Nat
  BY DEF JInv, IInv, Stage
<1>4. PICK list : list = t.witnesses
  OBVIOUS
<1>5. list \in Seq(Witnesses) /\ Len(t.inputs) \in Nat
  <2>1. t.inputs \in Seq(Inputs) /\ t.witnesses \in Seq(Witnesses)
    BY <1>2 DEF Txs
  <2> QED  BY <1>4, <2>1, LenProperties
<1>6. PICK k : k = i + 1
  OBVIOUS
<1>7. k \in 1 .. Len(list) /\ k \in Nat /\ k > i /\ k \in 1 .. Len(t.inputs)
  BY <1>1, <1>2, <1>3, <1>4, <1>5, <1>6 DEF SameBody
<1>8. k \in DOMAIN list
  BY <1>5, <1>7, LenProperties
<1>9. t.witnesses[k].items \in Seq(Text)
  <2>1. list[k] \in Witnesses
    BY <1>5, <1>7, ElementOfSeq
  <2> QED  BY <1>4, <2>1 DEF Witnesses
<1>10. sign_single_input(t, k).ok
  <2>1. /\ t.outputs # <<>> /\ siglen[k] \in 71 .. 72
        /\ InputHalfSigned(Slots(t.witnesses[k]), get_publist_and_paths(t.witnesses[k]))
    BY <1>7 DEF HalfSigned
  <2> QED  BY <1>4, <1>8, <1>9, <2>1, HalfSignedInput
<1>11. sign_single_input(tx, k) = sign_single_input(t, k)
  <2>1. /\ tx.nversion = t.nversion /\ tx.inputs = t.inputs /\ tx.outputs = t.outputs
        /\ tx.lock_time = t.lock_time /\ DOMAIN tx.witnesses = DOMAIN t.witnesses
    BY <1>1, <1>3 DEF SameBody
  <2>2. tx.witnesses[k] = t.witnesses[k]
    BY <1>1, <1>3, <1>4, <1>7, <1>8 DEF UntouchedBehind
  <2> QED  BY <2>1, <2>2, SameSigned
<1> QED  BY <1>6, <1>10, <1>11

(* What has been signed of it has a size. *)
LEMMA SentMeasured ==
  ASSUME JInv, pc = "sign", NEW t \in Sent, IsPrefix(PartialTx(t), datum.data), HalfSigned(t),
         i = Len(tx.inputs)
  PROVE  get_tx_hex_len(tx) # 0
<1>1. orig = t
  BY SentRead DEF JInv, Parsed
<1>2. t \in Txs /\ Len(t.witnesses) = Len(t.inputs)
  BY SignTxAssumption
<1>3. SameBody
  BY DEF JInv, IInv
<1>4. /\ tx.inputs = t.inputs /\ tx.outputs = t.outputs /\ AllSigned
      /\ DOMAIN tx.witnesses = DOMAIN t.witnesses
  BY <1>1, <1>3 DEF SameBody, AllSigned
<1>5. tx.inputs # <<>> /\ tx.outputs # <<>>
  BY <1>4 DEF HalfSigned
<1>6. tx.witnesses # <<>>
  <2>1. PICK ins, wits : ins = t.inputs /\ wits = t.witnesses
    OBVIOUS
  <2>2. ins \in Seq(Inputs) /\ wits \in Seq(Witnesses) /\ Len(wits) = Len(ins) /\ ins # <<>>
    BY <1>2, <1>4, <1>5, <2>1 DEF Txs
  <2>3. 1 \in DOMAIN wits
    BY <2>2
  <2>4. 1 \in DOMAIN tx.witnesses
    BY <1>4, <2>1, <2>3
  <2> QED  BY <2>4
<1>7. PICK S :
        /\ Nat \subseteq S
        /\ tx.inputs \in Seq(InputsOver(S)) /\ tx.outputs \in Seq(OutputsOver(S))
        /\ tx.nversion \in Fields(S, 4) /\ tx.lock_time \in Fields(S, 4)
        /\ Len(tx.witnesses) \in Nat
        /\ \A k \in 1 .. Len(tx.witnesses) : tx.witnesses[k].items \in Seq(Seq(S))
  BY <1>4, <1>6, SignedOver
<1>8. /\ get_inputs_hex_len(tx.inputs) \in Nat /\ get_outputs_hex_len(tx.outputs) \in Nat
      /\ get_witnesses_hex_len(tx.witnesses) \in Nat
  BY <1>7, InputsLen, OutputsLen, WitnessesLen
<1>9. get_tx_hex_len(tx)
      = 4 + 2 + get_inputs_hex_len(tx.inputs) + get_outputs_hex_len(tx.outputs)
        + get_witnesses_hex_len(tx.witnesses) + 4
  BY <1>5, <1>6 DEF get_tx_hex_len
<1> QED  BY <1>8, <1>9

(* None of the three refusals can be the next step for such a transaction. *)
LEMMA RefusedNext ==
  ASSUME JInv, HalfSignedAnswered, [Next]_vars
  PROVE  HalfSignedAnswered'
<1> SUFFICES ASSUME pc' = "refused", SentWith(71 .. 72)'
             PROVE  FALSE
  BY DEF HalfSignedAnswered
<1>1. UNCHANGED <<datum, siglen>>
  BY DEF Next, Parse, ParseRefused, SignInput, SignRefused, Measure, MeasureRefused,
         Write, Refuse, vars
<1>2. PICK t \in Sent :
        /\ IsPrefix(PartialTx(t), datum.data)
        /\ HalfSigned(t)
        /\ \A k \in 1 .. Len(t.inputs) : siglen[k] \in 71 .. 72
  BY <1>1 DEF SentWith
<1>3. pc # "refused"
  BY <1>2 DEF HalfSignedAnswered, SentWith
<1>4. ~ ParseRefused
  BY <1>2, SentRead DEF ParseRefused, JInv
<1>5. ~ SignRefused
  BY <1>2, SentSigned DEF SignRefused
<1>6. ~ MeasureRefused
  BY <1>2, SentMeasured DEF MeasureRefused
<1> QED  BY <1>3, <1>4, <1>5, <1>6
         DEF Next, Parse, SignInput, Measure, Write, vars

(* A transaction that the ground sent half signed, with anything behind    *)
(* it, is never refused, however many inputs it has and wherever in their  *)
(* witnesses the keys and the signatures stand, unless a signature of the  *)
(* node comes out with a length that insert_new_sig_to_list does not take: *)
(* every check of init_tx, sign_tx and get_tx_hex_len lets it pass.        *)
THEOREM HalfSignedAnsweredThm == Spec => []HalfSignedAnswered
<1>1. Init => HalfSignedAnswered
  BY DEF Init, HalfSignedAnswered
<1>2. JInv /\ HalfSignedAnswered /\ [Next]_vars => HalfSignedAnswered'
  BY RefusedNext
<1> QED  BY <1>1, <1>2, JInit, JNext, PTL DEF Spec
====
