--------------------------- MODULE TxCodec_proofs ---------------------------
(***************************************************************************)
(* What the readers and writers of transactions do, for data, lists and    *)
(* fields of any length: what init_tx takes from data is what the data     *)
(* begins with in the partial form, from data that begins with the partial *)
(* form of a transaction it takes that one, and get_tx_hex_len counts the  *)
(* bytes that serialize_tx writes.                                         *)
(*                                                                         *)
(* The readers are functions over the number of elements and the writers   *)
(* concatenate lists, so the lemmas on them go by induction: on the set of *)
(* the numbers for which they hold.                                        *)
(***************************************************************************)
EXTENDS TxCodec, SequenceTheorems, WellFoundedInduction, TLAPS

-----------------------------------------------------------------------------
(* Induction over the natural numbers, for a set. *)
LEMMA Induction ==
  ASSUME NEW S, 0 \in S, \A n \in Nat : n \in S => n + 1 \in S
  PROVE  Nat \subseteq S
<1> SUFFICES ASSUME Nat \ S # {} PROVE FALSE
  OBVIOUS
<1>1. PICK m \in Nat \ S : \A n \in Nat \ S : ~ <<n, m>> \in OpToRel(<, Nat)
  BY NatLessThanWellFounded, WFMin
<1>2. m \in Nat /\ m # 0
  BY <1>1
<1>3. m - 1 \in Nat /\ <<m - 1, m>> \in OpToRel(<, Nat)
  BY <1>2 DEF OpToRel
<1>4. m - 1 \in S
  BY <1>1, <1>3
<1>5. (m - 1) + 1 = m
  BY <1>2
<1> QED
  BY <1>3, <1>4, <1>5

-----------------------------------------------------------------------------
(* f[k] is the concatenation of the first k texts. *)
IsFlat(f, texts, S, n) ==
  /\ f \in [0 .. n -> Seq(S)]
  /\ f[0] = <<>>
  /\ \A k \in 1 .. n : f[k] = f[k - 1] \o texts[k]

(* A sequence of texts has its concatenations, one text after the other. *)
LEMMA FlatExists ==
  ASSUME NEW S, NEW texts \in Seq(Seq(S))
  PROVE  \E f : IsFlat(f, texts, S, Len(texts))
<1> DEFINE N == {n \in Nat : n <= Len(texts) => \E f : IsFlat(f, texts, S, n)}
<1>1. 0 \in N
  <2> DEFINE g == [k \in 0 .. 0 |-> <<>>]
  <2>1. IsFlat(g, texts, S, 0)
    BY EmptySeq DEF IsFlat
  <2> QED  BY <2>1
<1>2. ASSUME NEW n \in Nat, n \in N PROVE n + 1 \in N
  <2> SUFFICES ASSUME n + 1 <= Len(texts) PROVE \E f : IsFlat(f, texts, S, n + 1)
    OBVIOUS
  <2>0. Len(texts) \in Nat /\ n <= Len(texts)
    BY LenProperties
  <2>1. PICK f : IsFlat(f, texts, S, n)
    BY <1>2, <2>0
  <2>2. texts[n + 1] \in Seq(S) /\ f[n] \in Seq(S)
    BY <2>0, <2>1, ElementOfSeq DEF IsFlat
  <2>3. f[n] \o texts[n + 1] \in Seq(S)
    BY <2>2, ConcatProperties
  <2> DEFINE g == [k \in 0 .. n + 1 |-> IF k <= n THEN f[k] ELSE f[n] \o texts[n + 1]]
  <2>4. g \in [0 .. n + 1 -> Seq(S)]
    BY <2>1, <2>3 DEF IsFlat
  <2>5. g[0] = <<>>
    BY <2>1 DEF IsFlat
  <2>6. ASSUME NEW k \in 0 .. n PROVE g[k] = f[k]
    <3>1. k \in 0 .. n + 1 /\ k <= n
      OBVIOUS
    <3> QED  BY <3>1
  <2>7. g[n + 1] = f[n] \o texts[n + 1]
    <3>1. n + 1 \in 0 .. n + 1 /\ ~ (n + 1 <= n)
      OBVIOUS
    <3> QED  BY <3>1, Zenon
  <2> HIDE DEF g
  <2>8. ASSUME NEW k \in 1 .. n + 1 PROVE g[k] = g[k - 1] \o texts[k]
    <3>0. k - 1 \in 0 .. n /\ (k \in 1 .. n \/ k = n + 1)
      OBVIOUS
    <3>1. CASE k \in 1 .. n
      <4>1. g[k] = f[k] /\ g[k - 1] = f[k - 1]
        BY <3>0, <3>1, <2>6
      <4> QED  BY <4>1, <3>1, <2>1 DEF IsFlat
    <3>2. CASE k = n + 1
      <4>1. g[k] = f[n] \o texts[k] /\ g[k - 1] = f[n]
        <5>1. k - 1 = n /\ n \in 0 .. n
          BY <3>2
        <5>2. g[n] = f[n]
          BY <5>1, <2>6
        <5> QED  BY <3>2, <5>1, <5>2, <2>7
      <4> QED  BY <4>1
    <3> QED  BY <3>0, <3>1, <3>2
  <2> QED  BY <2>4, <2>5, <2>8 DEF IsFlat
<1> HIDE DEF N
<1>3. Nat \subseteq N
  BY <1>1, <1>2, Induction
<1> QED  BY <1>3, LenProperties DEF N

(* FlattenSeq returns the last of them. *)
LEMMA FlattenIs ==
  ASSUME NEW S, NEW texts \in Seq(Seq(S)), NEW f, IsFlat(f, texts, S, Len(texts))
  PROVE  FlattenSeq(texts) = f[Len(texts)]
<1> DEFINE n == Len(texts)
           Flatten(g) == [q \in 1 .. n |-> IF q = 1 THEN texts[q] ELSE g[q - 1] \o texts[q]]
           h == [q \in 1 .. n |-> f[q]]
           g == CHOOSE x : x = Flatten(x)
<1>0. n \in Nat /\ n = Len(texts)
  BY LenProperties
<1>1. CASE n = 0
  <2>1. texts = <<>>
    BY <1>1, EmptySeq
  <2> QED  BY <1>1, <2>1 DEF FlattenSeq, IsFlat
<1>2. CASE n > 0
  <2>0. n # 0
    BY <1>2, <1>0
  <2>1. FlattenSeq(texts) = g[n]
    BY <2>0 DEF FlattenSeq
  <2>2. ASSUME NEW x
        PROVE  /\ Flatten(x)[1] = texts[1]
               /\ \A q \in 2 .. n : Flatten(x)[q] = x[q - 1] \o texts[q]
               /\ Flatten(x) = [q \in 1 .. n |-> Flatten(x)[q]]
    <3>1. 1 \in 1 .. n
      BY <1>2, <1>0
    <3>2. ASSUME NEW q \in 2 .. n PROVE Flatten(x)[q] = x[q - 1] \o texts[q]
      <4>1. q \in 1 .. n /\ q # 1
        BY <1>0
      <4> QED  BY <4>1
    <3>3. Flatten(x) = [q \in 1 .. n |-> Flatten(x)[q]]
      OBVIOUS
    <3> QED  BY <3>1, <3>2, <3>3
  <2>3. h = [q \in 1 .. n |-> h[q]] /\ \A q \in 1 .. n : h[q] = f[q]
    OBVIOUS
  <2> HIDE DEF h, n
  <2>4. /\ f[0] = <<>>
        /\ \A q \in 1 .. n : f[q] = f[q - 1] \o texts[q]
    BY <1>0 DEF IsFlat
  <2>5. f[1] = texts[1]
    <3>1. 1 \in 1 .. n /\ 1 - 1 = 0
      BY <1>2, <1>0
    <3>2. texts[1] \in Seq(S)
      BY <3>1, <1>0, ElementOfSeq
    <3>3. f[1] = f[0] \o texts[1]
      BY <3>1, <2>4
    <3> QED  BY <2>4, <3>2, <3>3, ConcatEmptySeq
  <2> HIDE DEF Flatten
  <2>6. h = Flatten(h)
    <3>1. ASSUME NEW q \in 1 .. n PROVE h[q] = Flatten(h)[q]
      <4>1. CASE q = 1
        BY <4>1, <2>2, <2>3, <2>5
      <4>2. CASE q # 1
        <5>1. q \in 2 .. n /\ q - 1 \in 1 .. n
          BY <4>2, <1>0
        <5>2. f[q] = f[q - 1] \o texts[q]
          BY <2>4
        <5>3. Flatten(h)[q] = h[q - 1] \o texts[q] /\ h[q - 1] = f[q - 1] /\ h[q] = f[q]
          BY <5>1, <2>2, <2>3
        <5> QED  BY <5>2, <5>3
      <4> QED  BY <4>1, <4>2
    <3> QED  BY <3>1, <2>2, <2>3
  <2>7. g = Flatten(g)
    BY <2>6
  <2> HIDE DEF g
  <2> DEFINE N == {m \in Nat : m + 1 <= n => g[m + 1] = f[m + 1]}
  <2>8. 0 \in N
    <3>1. Flatten(g)[1] = texts[1]
      BY <2>2
    <3>2. g[1] = f[1]
      BY <3>1, <2>5, <2>7, Zenon
    <3> QED  BY <3>2
  <2>9. ASSUME NEW m \in Nat, m \in N PROVE m + 1 \in N
    <3> SUFFICES ASSUME m + 2 <= n PROVE g[m + 2] = f[m + 2]
      BY <1>0
    <3>1. m + 2 \in 2 .. n /\ m + 2 \in 1 .. n /\ (m + 2) - 1 = m + 1 /\ m + 1 <= n
      BY <1>0
    <3>2. g[m + 1] = f[m + 1]
      BY <2>9, <3>1
    <3>3. f[m + 2] = f[m + 1] \o texts[m + 2]
      BY <2>4, <3>1
    <3>4. Flatten(g)[m + 2] = g[m + 1] \o texts[m + 2]
      BY <2>2, <3>1
    <3> QED  BY <2>7, <3>2, <3>3, <3>4
  <2> HIDE DEF N
  <2>10. Nat \subseteq N
    BY <2>8, <2>9, Induction
  <2>11. n - 1 \in N /\ (n - 1) + 1 = n
    BY <1>2, <1>0, <2>10
  <2>12. g[n] = f[n]
    BY <2>11, <1>0 DEF N
  <2> QED  BY <2>1, <2>12, <1>0
<1> QED  BY <1>0, <1>1, <1>2

(* What the concatenation of a sequence of texts is, one text at a time. *)
LEMMA FlattenFacts ==
  ASSUME NEW S, NEW texts \in Seq(Seq(S))
  PROVE  /\ FlattenSeq(texts) \in Seq(S)
         /\ texts = <<>> => FlattenSeq(texts) = <<>>
<1>1. PICK f : IsFlat(f, texts, S, Len(texts))
  BY FlatExists
<1>2. FlattenSeq(texts) = f[Len(texts)] /\ Len(texts) \in Nat
  BY <1>1, FlattenIs, LenProperties
<1>3. texts = <<>> => Len(texts) = 0
  BY EmptySeq
<1> QED  BY <1>1, <1>2, <1>3 DEF IsFlat

(* One text more at the end. *)
LEMMA FlattenAppend ==
  ASSUME NEW S, NEW texts \in Seq(Seq(S)), NEW t \in Seq(S)
  PROVE  FlattenSeq(Append(texts, t)) = FlattenSeq(texts) \o t
<1> DEFINE more == Append(texts, t)
           n == Len(texts)
<1>0. n \in Nat
  BY LenProperties
<1>1. PICK f : IsFlat(f, more, S, Len(more))
  BY FlatExists, AppendProperties
<1>2. /\ more \in Seq(Seq(S)) /\ Len(more) = n + 1 /\ more[n + 1] = t
      /\ \A k \in 1 .. n : more[k] = texts[k]
  BY AppendProperties
<1>3. FlattenSeq(more) = f[n + 1]
  BY <1>1, <1>2, FlattenIs
<1> HIDE DEF more
<1>4. f[n + 1] = f[n] \o t
  <2>1. n + 1 \in 1 .. Len(more) /\ (n + 1) - 1 = n
    BY <1>0, <1>2
  <2> QED  BY <2>1, <1>1, <1>2 DEF IsFlat
<1> DEFINE h == [k \in 0 .. n |-> f[k]]
<1>5. IsFlat(h, texts, S, n)
  <2>1. h \in [0 .. n -> Seq(S)] /\ h[0] = <<>>
    BY <1>0, <1>1, <1>2 DEF IsFlat
  <2>2. ASSUME NEW k \in 1 .. n PROVE h[k] = h[k - 1] \o texts[k]
    <3>1. k \in 0 .. n /\ k - 1 \in 0 .. n /\ k \in 1 .. Len(more)
      BY <1>0, <1>2
    <3>2. f[k] = f[k - 1] \o more[k]
      BY <3>1, <1>1 DEF IsFlat
    <3>3. h[k] = f[k] /\ h[k - 1] = f[k - 1]
      BY <3>1
    <3> QED  BY <3>2, <3>3, <1>2
  <2> HIDE DEF h
  <2> QED  BY <2>1, <2>2 DEF IsFlat
<1>6. FlattenSeq(texts) = f[n]
  <2>1. FlattenSeq(texts) = h[n]
    BY <1>5, FlattenIs
  <2> QED  BY <2>1, <1>0
<1> QED  BY <1>3, <1>4, <1>6 DEF more

(* The sum of a sequence of lengths is the length of the concatenation. *)
LEMMA TotalIs ==
  ASSUME NEW numbers, Len(numbers) \in Nat, NEW f,
         f[0] = 0, \A k \in 1 .. Len(numbers) : f[k] = f[k - 1] + numbers[k]
  PROVE  Total(numbers) = f[Len(numbers)]
<1> DEFINE n == Len(numbers)
           Sums(x) == [q \in 0 .. n |-> IF q = 0 THEN 0 ELSE x[q - 1] + numbers[q]]
           h == [q \in 0 .. n |-> f[q]]
           g == CHOOSE x : x = Sums(x)
<1>0. n \in Nat /\ n = Len(numbers)
  OBVIOUS
<1>1. Total(numbers) = g[n]
  BY DEF Total
<1>2. ASSUME NEW x
      PROVE  /\ Sums(x)[0] = 0
             /\ \A q \in 1 .. n : Sums(x)[q] = x[q - 1] + numbers[q]
             /\ Sums(x) = [q \in 0 .. n |-> Sums(x)[q]]
  <2>1. 0 \in 0 .. n
    BY <1>0
  <2>2. ASSUME NEW q \in 1 .. n PROVE Sums(x)[q] = x[q - 1] + numbers[q]
    <3>1. q \in 0 .. n /\ q # 0
      BY <1>0
    <3> QED  BY <3>1
  <2>3. Sums(x) = [q \in 0 .. n |-> Sums(x)[q]]
    OBVIOUS
  <2> QED  BY <2>1, <2>2, <2>3
<1>3. h = [q \in 0 .. n |-> h[q]] /\ \A q \in 0 .. n : h[q] = f[q]
  OBVIOUS
<1>4. \A q \in 1 .. n : f[q] = f[q - 1] + numbers[q]
  OBVIOUS
<1> HIDE DEF h, n, Sums
<1>5. h = Sums(h)
  <2>1. ASSUME NEW q \in 0 .. n PROVE h[q] = Sums(h)[q]
    <3>1. CASE q = 0
      BY <3>1, <1>2, <1>3
    <3>2. CASE q # 0
      <4>1. q \in 1 .. n /\ q - 1 \in 0 .. n
        BY <3>2, <1>0
      <4>2. Sums(h)[q] = h[q - 1] + numbers[q] /\ h[q - 1] = f[q - 1] /\ h[q] = f[q]
        BY <4>1, <1>2, <1>3
      <4>3. f[q] = f[q - 1] + numbers[q]
        BY <4>1, <1>4
      <4> QED  BY <4>2, <4>3
    <3> QED  BY <3>1, <3>2
  <2> QED  BY <2>1, <1>2, <1>3
<1>6. g = Sums(g)
  BY <1>5
<1> HIDE DEF g
<1> DEFINE N == {m \in Nat : m <= n => g[m] = f[m]}
<1>7. 0 \in N
  <2>1. Sums(g)[0] = 0
    BY <1>2
  <2>2. g[0] = f[0]
    BY <2>1, <1>6, Zenon
  <2> QED  BY <2>2
<1>8. ASSUME NEW m \in Nat, m \in N PROVE m + 1 \in N
  <2> SUFFICES ASSUME m + 1 <= n PROVE g[m + 1] = f[m + 1]
    BY <1>0
  <2>1. m + 1 \in 1 .. n /\ (m + 1) - 1 = m /\ m <= n
    BY <1>0
  <2>2. g[m] = f[m]
    BY <1>8, <2>1
  <2>3. f[m + 1] = f[m] + numbers[m + 1]
    BY <1>4, <2>1
  <2>4. Sums(g)[m + 1] = g[m] + numbers[m + 1]
    BY <1>2, <2>1
  <2> QED  BY <1>6, <2>2, <2>3, <2>4
<1> HIDE DEF N
<1>9. Nat \subseteq N
  BY <1>7, <1>8, Induction
<1>10. g[n] = f[n]
  BY <1>9, <1>0 DEF N
<1> QED  BY <1>0, <1>1, <1>10

(* As long as all the texts together. *)
LEMMA LenFlatten ==
  ASSUME NEW S, NEW texts \in Seq(Seq(S)),
         NEW numbers, Len(numbers) = Len(texts),
         \A k \in 1 .. Len(texts) : numbers[k] = Len(texts[k])
  PROVE  Len(FlattenSeq(texts)) = Total(numbers)
<1> DEFINE n == Len(texts)
<1>0. n \in Nat /\ Len(numbers) = n
  BY LenProperties
<1>1. PICK f : IsFlat(f, texts, S, n)
  BY FlatExists
<1> DEFINE g == [k \in 0 .. n |-> Len(f[k])]
<1>2. g[0] = 0
  <2>1. f[0] = <<>>
    BY <1>1 DEF IsFlat
  <2> QED  BY <1>0, <2>1, EmptySeq
<1>3. ASSUME NEW k \in 1 .. n PROVE g[k] = g[k - 1] + numbers[k]
  <2>1. k \in 0 .. n /\ k - 1 \in 0 .. n
    BY <1>0
  <2>2. f[k] = f[k - 1] \o texts[k] /\ f[k - 1] \in Seq(S)
    BY <2>1, <1>1 DEF IsFlat
  <2>3. texts[k] \in Seq(S)
    BY ElementOfSeq
  <2>4. Len(f[k]) = Len(f[k - 1]) + Len(texts[k])
    BY <2>2, <2>3, ConcatProperties
  <2>5. g[k] = Len(f[k]) /\ g[k - 1] = Len(f[k - 1])
    BY <2>1
  <2> QED  BY <2>4, <2>5
<1>4. g[n] = Len(f[n])
  BY <1>0
<1>5. FlattenSeq(texts) = f[n]
  BY <1>1, FlattenIs
<1> HIDE DEF g
<1>6. Total(numbers) = g[n]
  BY <1>0, <1>2, <1>3, TotalIs
<1> QED  BY <1>4, <1>5, <1>6

-----------------------------------------------------------------------------
(* The fields of what a reader returns. *)
LEMMA ReadFields ==
  /\ \A v, m : Read(v, m).ok /\ Read(v, m).val = v /\ Read(v, m).next = m
  /\ \A v : ~ Stopped(v).ok
BY DEF Read, Stopped

(* What reading at a position may return: a failure, or a value and the    *)
(* position behind it; if that is within data, G relates the value to the  *)
(* bytes it was read from.                                                 *)
Sound(e, data, G, q) ==
  e.ok =>
    \E v, m :
      /\ e = Read(v, m) /\ m \in Nat /\ m > q
      /\ m <= Len(data) + 1 => <<v, SubSeq(data, q, m - 1)>> \in G

(* k elements have been read from p on: values v, up to position m. *)
ReadAs(v, m, data, G, V, p, k) ==
  /\ m \in Nat /\ m >= p
  /\ m <= Len(data) + 1 =>
       /\ v \in Seq(V) /\ Len(v) = k
       /\ \E texts \in Seq(Text) :
            /\ Len(texts) = k /\ SubSeq(data, p, m - 1) = FlattenSeq(texts)
            /\ \A j \in 1 .. k : <<v[j], texts[j]>> \in G

ReadSoFar(acc, data, G, V, p, k) ==
  acc.ok => \E v, m : acc = Read(v, m) /\ ReadAs(v, m, data, G, V, p, k)

(* One element more is read, or the list ends in a failure. *)
LEMMA ReadMore ==
  ASSUME NEW data \in Text, NEW V, NEW G, G \subseteq V \X Text,
         NEW at, DOMAIN at = 1 .. Len(data),
         \A q \in 1 .. Len(data) : Sound(at[q], data, G, q),
         NEW p \in Nat \ {0}, NEW k \in Nat, NEW acc,
         ReadSoFar(acc, data, G, V, p, k)
  PROVE  ReadSoFar(ExtendedFrom(at, acc), data, G, V, p, k + 1)
<1> DEFINE r == ExtendedFrom(at, acc)
<1>1. CASE ~ acc.ok \/ acc.next \notin DOMAIN at \/ ~ at[acc.next].ok
  <2>1. r = Stopped(acc.val)
    BY <1>1 DEF ExtendedFrom, Extended
  <2> QED  BY <2>1, ReadFields DEF ReadSoFar
<1>2. CASE acc.ok /\ acc.next \in DOMAIN at /\ at[acc.next].ok
  <2>0. PICK v, m : acc = Read(v, m) /\ ReadAs(v, m, data, G, V, p, k)
    BY <1>2 DEF ReadSoFar
  <2>1. /\ acc = Read(v, m) /\ m \in Nat /\ m >= p
        /\ m <= Len(data) + 1 =>
             /\ v \in Seq(V) /\ Len(v) = k
             /\ \E texts \in Seq(Text) :
                  /\ Len(texts) = k /\ SubSeq(data, p, m - 1) = FlattenSeq(texts)
                  /\ \A j \in 1 .. k : <<v[j], texts[j]>> \in G
    BY <2>0 DEF ReadAs
  <2>2. acc.next = m /\ acc.val = v /\ m \in 1 .. Len(data) /\ at[m].ok
    BY <1>2, <2>1, ReadFields
  <2>3. PICK w, s :
          /\ at[m] = Read(w, s) /\ s \in Nat /\ s > m
          /\ s <= Len(data) + 1 => <<w, SubSeq(data, m, s - 1)>> \in G
    BY <2>2 DEF Sound
  <2>4. r = Read(Append(v, w), s)
    BY <1>2, <2>2, <2>3, ReadFields DEF ExtendedFrom, Extended
  <2>6. ASSUME s <= Len(data) + 1
        PROVE  /\ Append(v, w) \in Seq(V) /\ Len(Append(v, w)) = k + 1
               /\ \E texts \in Seq(Text) :
                    /\ Len(texts) = k + 1 /\ SubSeq(data, p, s - 1) = FlattenSeq(texts)
                    /\ \A j \in 1 .. k + 1 : <<Append(v, w)[j], texts[j]>> \in G
    <3>0. Len(data) \in Nat
      BY LenProperties DEF Text
    <3>1. m <= Len(data) + 1
      BY <2>2, <3>0
    <3>2. PICK texts \in Seq(Text) :
            /\ Len(texts) = k /\ SubSeq(data, p, m - 1) = FlattenSeq(texts)
            /\ \A j \in 1 .. k : <<v[j], texts[j]>> \in G
      BY <2>1, <3>1
    <3>3. v \in Seq(V) /\ Len(v) = k
      BY <2>1, <3>1
    <3> DEFINE t == SubSeq(data, m, s - 1)
               more == Append(texts, t)
    <3>4. <<w, t>> \in G /\ w \in V /\ t \in Text
      BY <2>2, <2>3, <2>6
    <3>5. /\ Append(v, w) \in Seq(V) /\ Len(Append(v, w)) = k + 1
          /\ Append(v, w)[k + 1] = w /\ \A j \in 1 .. k : Append(v, w)[j] = v[j]
      BY <3>3, <3>4, AppendProperties
    <3>6. /\ more \in Seq(Text) /\ Len(more) = k + 1
          /\ more[k + 1] = t /\ \A j \in 1 .. k : more[j] = texts[j]
      <4>1. t \in Text /\ texts \in Seq(Text) /\ Len(texts) = k
        BY <3>2, <3>4
      <4> HIDE DEF t
      <4> QED  BY <4>1, AppendProperties
    <3>7. FlattenSeq(more) = FlattenSeq(texts) \o t
      BY <3>4, FlattenAppend DEF Text
    <3>8. SubSeq(data, p, m - 1) \o t = SubSeq(data, p, s - 1)
      <4>1. /\ p \in 1 .. Len(data) + 1 /\ m - 1 \in p - 1 .. Len(data)
            /\ s - 1 \in m - 1 .. Len(data) /\ (m - 1) + 1 = m
        BY <3>0, <2>1, <2>2, <2>3, <2>6
      <4> QED  BY <4>1, ConcatAdjacentSubSeq DEF Text
    <3>9. \A j \in 1 .. k + 1 : <<Append(v, w)[j], more[j]>> \in G
      <4> SUFFICES ASSUME NEW j \in 1 .. k + 1 PROVE <<Append(v, w)[j], more[j]>> \in G
        OBVIOUS
      <4>1. j \in 1 .. k \/ j = k + 1
        OBVIOUS
      <4> HIDE DEF t, more
      <4> QED  BY <4>1, <3>2, <3>4, <3>5, <3>6
    <3>10. SubSeq(data, p, s - 1) = FlattenSeq(more)
      BY <3>2, <3>7, <3>8, Zenon
    <3> HIDE DEF t, more
    <3> QED  BY <3>5, <3>6, <3>9, <3>10, Zenon
  <2>7. s >= p
    BY <2>1, <2>2, <2>3
  <2>8. ReadAs(Append(v, w), s, data, G, V, p, k + 1)
    BY <2>3, <2>6, <2>7, Zenon DEF ReadAs
  <2> QED  BY <2>4, <2>8, Zenon DEF ReadSoFar
<1> QED  BY <1>1, <1>2

Reads(at, p, n, f) ==
  [k \in 0 .. n |-> IF k = 0 THEN Read(<<>>, p) ELSE ExtendedFrom(at, f[k - 1])]

(* The results for 0, 1, .. n elements exist. *)
LEMMA ReadExists ==
  ASSUME NEW at, NEW p, NEW n \in Nat
  PROVE  \E f : f = Reads(at, p, n, f)
<1> USE DEF Reads
<1> DEFINE N == {m \in Nat : \E f : f = Reads(at, p, m, f)}
<1>1. 0 \in N
  <2> DEFINE g == [k \in 0 .. 0 |-> Read(<<>>, p)]
  <2>1. \A k \in 0 .. 0 : k = 0
    OBVIOUS
  <2>2. g = Reads(at, p, 0, g)
    BY <2>1
  <2> QED  BY <2>2
<1>2. ASSUME NEW m \in Nat, m \in N PROVE m + 1 \in N
  <2>1. PICK f : f = Reads(at, p, m, f)
    BY <1>2
  <2> DEFINE g == Reads(at, p, m + 1, f)
             h == Reads(at, p, m + 1, g)
  <2>2. ASSUME NEW k \in 0 .. m PROVE g[k] = f[k]
    <3>1. k \in 0 .. m + 1
      OBVIOUS
    <3>2. g[k] = Reads(at, p, m, f)[k]
      BY <3>1
    <3> HIDE DEF g, Reads
    <3> QED  BY <2>1, <3>2
  <2>3. ASSUME NEW k \in 0 .. m + 1 PROVE g[k] = h[k]
    <3>1. CASE k = 0
      BY <3>1
    <3>2. CASE k # 0
      <4>1. k - 1 \in 0 .. m
        BY <3>2
      <4>2. g[k - 1] = f[k - 1]
        BY <4>1, <2>2
      <4>3. g[k] = ExtendedFrom(at, f[k - 1]) /\ h[k] = ExtendedFrom(at, g[k - 1])
        BY <3>2
      <4> QED  BY <4>2, <4>3
    <3> QED  BY <3>1, <3>2
  <2>4. g = [k \in 0 .. m + 1 |-> g[k]] /\ h = [k \in 0 .. m + 1 |-> h[k]]
    OBVIOUS
  <2>5. g = h
    <3> HIDE DEF g, h
    <3> QED  BY <2>3, <2>4
  <2> HIDE DEF g, Reads
  <2> QED  BY <2>5
<1> HIDE DEF N
<1>3. Nat \subseteq N
  BY <1>1, <1>2, Induction
<1> QED  BY <1>3 DEF N

(* Whatever the reader: n elements that lie within the data were read from *)
(* adjacent pieces of it.                                                  *)
LEMMA ReadFromSound ==
  ASSUME NEW data \in Text, NEW V, NEW G, G \subseteq V \X Text,
         NEW at, DOMAIN at = 1 .. Len(data),
         \A q \in 1 .. Len(data) : Sound(at[q], data, G, q),
         NEW p \in Nat \ {0}, NEW n \in Nat
  PROVE  ReadSoFar(ReadFrom(at, p, n), data, G, V, p, n)
<1> DEFINE R(f) == Reads(at, p, n, f)
           read == CHOOSE f : f = R(f)
           P(k) == ReadSoFar(read[k], data, G, V, p, k)
           N == {k \in Nat : k <= n => P(k)}
<1>1. ReadFrom(at, p, n) = read[n]
  BY DEF ReadFrom, Reads
<1>2. ASSUME NEW f
      PROVE  /\ R(f)[0] = Read(<<>>, p)
             /\ \A k \in 1 .. n : R(f)[k] = ExtendedFrom(at, f[k - 1])
  <2>1. 0 \in 0 .. n
    OBVIOUS
  <2>2. ASSUME NEW k \in 1 .. n PROVE R(f)[k] = ExtendedFrom(at, f[k - 1])
    <3>1. k \in 0 .. n /\ k # 0
      OBVIOUS
    <3> QED  BY <3>1 DEF Reads
  <2> QED  BY <2>1, <2>2 DEF Reads
<1>3. read = R(read)
  <2>1. \E f : f = R(f)
    BY ReadExists, Zenon
  <2> HIDE DEF R
  <2> QED  BY <2>1
<1> HIDE DEF R, read
<1>4. 0 \in N
  <2>1. read[0] = Read(<<>>, p)
    <3>1. R(read)[0] = Read(<<>>, p)
      BY <1>2
    <3> QED  BY <1>3, <3>1, Zenon
  <2>2. SubSeq(data, p, p - 1) = FlattenSeq(<<>>) /\ <<>> \in Seq(Text) /\ Len(<<>>) = 0
    <3>1. p \in Int /\ p - 1 \in Int /\ p - 1 < p
      OBVIOUS
    <3>2. SubSeq(data, p, p - 1) = <<>>
      BY <3>1, SubSeqEmpty
    <3>3. <<>> \in Seq(Seq(Byte)) /\ Len(<<>>) = 0
      BY EmptySeq
    <3>4. FlattenSeq(<<>>) = <<>>
      BY <3>3, FlattenFacts
    <3> QED  BY <3>2, <3>3, <3>4 DEF Text
  <2>3. <<>> \in Seq(V)
    BY EmptySeq
  <2>4. \E texts \in Seq(Text) :
          /\ Len(texts) = 0 /\ SubSeq(data, p, p - 1) = FlattenSeq(texts)
          /\ \A j \in 1 .. 0 : <<<<>>[j], texts[j]>> \in G
    <3>1. \A j \in 1 .. 0 : FALSE
      OBVIOUS
    <3> QED  BY <2>2, <3>1, Zenon
  <2>5. p \in Nat /\ p >= p
    OBVIOUS
  <2>6. ReadAs(<<>>, p, data, G, V, p, 0)
    BY <2>2, <2>3, <2>4, <2>5, Zenon DEF ReadAs
  <2> QED  BY <2>1, <2>6, Zenon DEF ReadSoFar
<1>5. ASSUME NEW k \in Nat, k \in N PROVE k + 1 \in N
  <2> SUFFICES ASSUME k + 1 <= n PROVE P(k + 1)
    OBVIOUS
  <2>1. k + 1 \in 1 .. n /\ (k + 1) - 1 = k /\ k <= n
    OBVIOUS
  <2>2. R(read)[k + 1] = ExtendedFrom(at, read[k])
    BY <1>2, <2>1
  <2>3. read[k + 1] = ExtendedFrom(at, read[k])
    BY <1>3, <2>2, Zenon
  <2>4. P(k)
    <3> HIDE DEF P
    <3> QED  BY <1>5, <2>1
  <2> HIDE DEF N
  <2>5. ReadSoFar(ExtendedFrom(at, read[k]), data, G, V, p, k + 1)
    BY <2>4, ReadMore
  <2> QED  BY <2>3, <2>5
<1> HIDE DEF N
<1>6. Nat \subseteq N
  BY <1>4, <1>5, Induction
<1>7. P(n)
  <2> HIDE DEF P
  <2> QED  BY <1>6 DEF N
<1> QED  BY <1>1, <1>7

-----------------------------------------------------------------------------
(* Bytes and the integers made of them. *)

(* A datum is bytes, too few of them to make a number huge. *)
IsDatum(d) == d.data \in Text /\ d.beyond \in Byte /\ Len(d.data) < Huge

(* A piece of a text. *)
LEMMA InText ==
  ASSUME NEW data \in Text, NEW p \in Nat \ {0}, NEW m \in Int, m <= Len(data)
  PROVE  /\ \A j \in p .. m : data[j] \in Byte
         /\ SubSeq(data, p, m) \in Text
         /\ Len(SubSeq(data, p, m)) = IF p <= m THEN m - p + 1 ELSE 0
         /\ \A j \in 1 .. m - p + 1 : SubSeq(data, p, m)[j] = data[p + j - 1]
<1>1. ASSUME NEW j \in p .. m PROVE data[j] \in Byte
  <2>1. Len(data) \in Nat
    BY LenProperties DEF Text
  <2>2. j \in 1 .. Len(data)
    BY <2>1
  <2> QED  BY <2>2, ElementOfSeq DEF Text
<1>2. p \in Int
  OBVIOUS
<1> QED  BY <1>1, <1>2, SubSeqProperties DEF Text

(* A byte at a position, and a field of n bytes: where a datum reaches it  *)
(* is read from the datum.                                                 *)
LEMMA AtByte ==
  ASSUME NEW d, IsDatum(d), NEW p \in Nat \ {0}
  PROVE  At(d, p) \in Byte /\ (p <= Len(d.data) => At(d, p) = d.data[p])
<1>1. CASE p <= Len(d.data)
  <2>1. p \in 1 .. Len(d.data)
    BY <1>1, LenProperties DEF IsDatum, Text
  <2> QED  BY <1>1, <2>1, ElementOfSeq DEF At, IsDatum, Text
<1>2. CASE ~ (p <= Len(d.data))
  BY <1>2 DEF At, IsDatum
<1> QED  BY <1>1, <1>2

(* A field of n bytes. *)
LEMMA TakeText ==
  ASSUME NEW d, IsDatum(d), NEW p \in Nat \ {0}, NEW n \in Nat
  PROVE  /\ Take(d, p, n) \in Text
         /\ p + n - 1 <= Len(d.data) =>
              Take(d, p, n) = SubSeq(d.data, p, p + n - 1) /\ Len(Take(d, p, n)) = n
<1>1. Len(d.data) \in Nat
  BY LenProperties DEF IsDatum, Text
<1>2. CASE p + n - 1 <= Len(d.data)
  <2>1. Take(d, p, n) = SubSeq(d.data, p, p + n - 1)
    BY <1>2 DEF Take
  <2>2. /\ SubSeq(d.data, p, p + n - 1) \in Text
        /\ Len(SubSeq(d.data, p, p + n - 1)) = IF p <= p + n - 1 THEN (p + n - 1) - p + 1 ELSE 0
    BY <1>2, InText DEF IsDatum
  <2> QED  BY <2>1, <2>2
<1>3. CASE ~ (p + n - 1 <= Len(d.data))
  <2>1. Take(d, p, n) = <<>>
    BY <1>3 DEF Take
  <2> QED  BY <1>3, <2>1, EmptySeq DEF Text
<1> QED  BY <1>2, <1>3

(* Bytes that lie one behind the other. *)
LEMMA SubOne ==
  ASSUME NEW data \in Text, NEW p \in Nat \ {0}, p <= Len(data)
  PROVE  SubSeq(data, p, p) = <<data[p]>>
<1> DEFINE s == SubSeq(data, p, p)
           t == <<data[p]>>
<1>0. p \in Int /\ p <= p /\ (p) - p + 1 = 1
  OBVIOUS
<1>1. /\ s \in Text /\ Len(s) = 1 /\ \A j \in 1 .. 1 : s[j] = data[p + j - 1]
      /\ \A j \in p .. p : data[j] \in Byte
  BY <1>0, InText
<1>2. t \in Seq(Byte) /\ Len(t) = 1 /\ \A j \in 1 .. 1 : t[j] = data[p + j - 1]
  BY <1>1
<1> HIDE DEF s, t
<1>3. s = t
  <2>1. Len(s) = Len(t) /\ \A j \in 1 .. Len(s) : s[j] = t[j]
    BY <1>1, <1>2
  <2> QED  BY <1>1, <1>2, <2>1, SeqEqual DEF Text
<1> QED  BY <1>3 DEF s, t

(* Three bytes. *)
LEMMA SubThree ==
  ASSUME NEW data \in Text, NEW p \in Nat \ {0}, p + 2 <= Len(data)
  PROVE  SubSeq(data, p, p + 2) = <<data[p], data[p + 1], data[p + 2]>>
<1> DEFINE s == SubSeq(data, p, p + 2)
           t == <<data[p], data[p + 1], data[p + 2]>>
<1>0. p + 2 \in Int /\ p <= p + 2 /\ (p + 2) - p + 1 = 3
  OBVIOUS
<1>1. /\ s \in Text /\ Len(s) = 3 /\ \A j \in 1 .. 3 : s[j] = data[p + j - 1]
      /\ \A j \in p .. p + 2 : data[j] \in Byte
  BY <1>0, InText
<1>2. t \in Seq(Byte) /\ Len(t) = 3 /\ \A j \in 1 .. 3 : t[j] = data[p + j - 1]
  <2>0. p \in p .. p + 2 /\ p + 1 \in p .. p + 2 /\ p + 2 \in p .. p + 2
    OBVIOUS
  <2>1. data[p] \in Byte /\ data[p + 1] \in Byte /\ data[p + 2] \in Byte
    BY <1>1, <2>0, Zenon
  <2>2. p + 1 - 1 = p /\ p + 2 - 1 = p + 1 /\ p + 3 - 1 = p + 2
    OBVIOUS
  <2>3. t[1] = data[p] /\ t[2] = data[p + 1] /\ t[3] = data[p + 2] /\ Len(t) = 3
    OBVIOUS
  <2>4. t \in Seq(Byte)
    BY <2>1
  <2>5. \A j \in 1 .. 3 : j = 1 \/ j = 2 \/ j = 3
    OBVIOUS
  <2> HIDE DEF t
  <2> QED  BY <2>2, <2>3, <2>4, <2>5
<1> HIDE DEF s, t
<1>3. s = t
  <2>1. Len(s) = Len(t) /\ \A j \in 1 .. Len(s) : s[j] = t[j]
    BY <1>1, <1>2
  <2> QED  BY <1>1, <1>2, <2>1, SeqEqual DEF Text
<1> QED  BY <1>3 DEF s, t

(* Five bytes. *)
LEMMA SubFive ==
  ASSUME NEW data \in Text, NEW p \in Nat \ {0}, p + 4 <= Len(data)
  PROVE  SubSeq(data, p, p + 4)
         = <<data[p], data[p + 1], data[p + 2], data[p + 3], data[p + 4]>>
<1> DEFINE s == SubSeq(data, p, p + 4)
           t == <<data[p], data[p + 1], data[p + 2], data[p + 3], data[p + 4]>>
<1>0. p + 4 \in Int /\ p <= p + 4 /\ (p + 4) - p + 1 = 5
  OBVIOUS
<1>1. /\ s \in Text /\ Len(s) = 5 /\ \A j \in 1 .. 5 : s[j] = data[p + j - 1]
      /\ \A j \in p .. p + 4 : data[j] \in Byte
  BY <1>0, InText
<1>2. t \in Seq(Byte) /\ Len(t) = 5 /\ \A j \in 1 .. 5 : t[j] = data[p + j - 1]
  <2>1. data[p] \in Byte /\ data[p + 1] \in Byte /\ data[p + 2] \in Byte /\ data[p + 3] \in Byte /\ data[p + 4] \in Byte
    BY <1>1
  <2>2. p + 1 - 1 = p /\ p + 2 - 1 = p + 1 /\ p + 3 - 1 = p + 2 /\ p + 4 - 1 = p + 3 /\ p + 5 - 1 = p + 4
    OBVIOUS
  <2>3. t[1] = data[p] /\ t[2] = data[p + 1] /\ t[3] = data[p + 2] /\ t[4] = data[p + 3] /\ t[5] = data[p + 4] /\ Len(t) = 5
    OBVIOUS
  <2>4. t \in Seq(Byte)
    BY <2>1
  <2>5. \A j \in 1 .. 5 : j = 1 \/ j = 2 \/ j = 3 \/ j = 4 \/ j = 5
    OBVIOUS
  <2> HIDE DEF t
  <2> QED  BY <2>2, <2>3, <2>4, <2>5
<1> HIDE DEF s, t
<1>3. s = t
  <2>1. Len(s) = Len(t) /\ \A j \in 1 .. Len(s) : s[j] = t[j]
    BY <1>1, <1>2
  <2> QED  BY <1>1, <1>2, <2>1, SeqEqual DEF Text
<1> QED  BY <1>3 DEF s, t

(* Two and three bytes as a number, the lowest first. *)
TwoBytes(a, b) == a + 256 * b
ThreeBytes(a, b, c) == a + 256 * b + 65536 * c

(* Little in two bytes. *)
LEMMA LittleTwo ==
  ASSUME NEW d, IsDatum(d), NEW p \in Nat \ {0}
  PROVE  Little(d, p, 2) = TwoBytes(At(d, p), At(d, p + 1))
<1>1. \A k \in 3 .. 2 - 1 : FALSE
  OBVIOUS
<1>2. At(d, p) \in Byte /\ At(d, p + 1) \in Byte
  BY AtByte
<1>3. Little(d, p, 2) = At(d, p) + 256 * At(d, p + 1) + 0
  BY <1>1, SMT DEF Little
<1>4. PICK a \in Byte : a = At(d, p)
  BY <1>2
<1>5. PICK b \in Byte : b = At(d, p + 1)
  BY <1>2
<1>6. a + 256 * b + 0 = a + 256 * b
  BY SMT DEF Byte
<1>7. Little(d, p, 2) = a + 256 * b
  BY <1>3, <1>4, <1>5, <1>6
<1> QED  BY <1>4, <1>5, <1>7 DEF TwoBytes

(* Little in four bytes: with a fourth byte the number is one of the huge  *)
(* ones.                                                                   *)
LEMMA LittleFour ==
  ASSUME NEW d, IsDatum(d), NEW p \in Nat \ {0}
  PROVE  Little(d, p, 4) = IF At(d, p + 3) # 0 THEN Huge
                           ELSE ThreeBytes(At(d, p), At(d, p + 1), At(d, p + 2))
<1>1. \A k \in 3 .. 4 - 1 : k = 3
  OBVIOUS
<1>2. 3 \in 3 .. 4 - 1
  OBVIOUS
<1> QED  BY <1>1, <1>2, SMT DEF Little, ThreeBytes

(* Eight bytes hold a number that is huge or not minimally encoded. *)
LEMMA LittleEight ==
  ASSUME NEW d, IsDatum(d), NEW p \in Nat \ {0}
  PROVE  read_varint(d, p, 8) \in {NotMinimal, Huge}
<1>1. CASE \A k \in 4 .. 7 : At(d, p + k) = 0
  BY <1>1, SMT DEF read_varint
<1>2. CASE ~ \A k \in 4 .. 7 : At(d, p + k) = 0
  <2>1. \E k \in 3 .. 8 - 1 : At(d, p + k) # 0
    BY <1>2
  <2>2. Little(d, p, 8) = Huge
    BY <2>1, SMT DEF Little
  <2>3. read_varint(d, p, 8) = Minimal(8, Little(d, p, 8))
    BY <1>2, SMT DEF read_varint
  <2> QED  BY <2>2, <2>3, SMT DEF Minimal
<1> QED  BY <1>1, <1>2

(* An integer that Minimal lets pass is the one gen_varint writes. *)
LEMMA WrittenTwo ==
  ASSUME NEW a \in Byte, NEW b \in Byte, NEW v,
         v = Minimal(2, TwoBytes(a, b)), v # NotMinimal
  PROVE  /\ v \in Nat /\ v >= 253 /\ v = TwoBytes(a, b)
         /\ gen_varint(v) = <<253, a, b>>
<1>1. v = a + 256 * b /\ v >= 253 /\ v <= 65535 /\ v \in Nat
  BY SMT DEF Minimal, TwoBytes, Byte
<1>2. v % 256 = a /\ v \div 256 = b
  BY <1>1, SMT DEF Byte
<1>3. gen_varint(v) = <<253, v % 256, v \div 256>>
  BY <1>1, SMT DEF gen_varint
<1>4. gen_varint(v) = <<253, a, b>>
  BY <1>2, <1>3
<1> QED  BY <1>1, <1>4, SMT DEF TwoBytes

(* The same in four bytes. *)
LEMMA WrittenFour ==
  ASSUME NEW a \in Byte, NEW b \in Byte, NEW c \in Byte, NEW v,
         v = Minimal(4, ThreeBytes(a, b, c)), v # NotMinimal
  PROVE  v \in Nat /\ gen_varint(v) = <<254, a, b, c, 0>>
<1>1. v = a + 256 * b + 65536 * c /\ ~ (v < 253) /\ ~ (v <= 65535) /\ v \in Nat
  BY SMT DEF Minimal, ThreeBytes, Byte
<1>2. v = a + 256 * (b + 256 * c) /\ v = (a + 256 * b) + 65536 * c
  BY <1>1, SMT DEF Byte
<1>3. v % 256 = a /\ v \div 256 = b + 256 * c
  BY <1>2, SMT DEF Byte
<1>4. (b + 256 * c) % 256 = b
  BY SMT DEF Byte
<1>5. v \div 65536 = c
  BY <1>2, SMT DEF Byte
<1>6. c % 256 = c
  BY SMT DEF Byte
<1>7. gen_varint(v) = <<254, v % 256, (v \div 256) % 256, (v \div 65536) % 256, 0>>
  BY <1>1, SMT DEF gen_varint
<1>8. gen_varint(v) = <<254, a, b, c, 0>>
  BY <1>3, <1>4, <1>5, <1>6, <1>7, SMT
<1> QED  BY <1>1, <1>8

(* The integer behind a head byte, when it is not refused. *)
LEMMA VarintTwo ==
  ASSUME NEW d, IsDatum(d), NEW p \in Nat \ {0}, NEW v,
         v = read_varint(d, p + 1, 2), v # NotMinimal
  PROVE  /\ v \in Nat /\ v >= 253 /\ v = Little(d, p + 1, 2)
         /\ At(d, p) = 253 /\ p + 2 <= Len(d.data) =>
              SubSeq(d.data, p, p + 2) = gen_varint(v)
<1>1. At(d, p + 1) \in Byte /\ At(d, p + 2) \in Byte
  BY AtByte
<1>2. Little(d, p + 1, 2) = TwoBytes(At(d, p + 1), At(d, p + 2))
  <2>1. (p + 1) + 1 = p + 2 /\ p + 1 \in Nat \ {0}
    OBVIOUS
  <2> QED  BY <2>1, LittleTwo
<1>3. v = Minimal(2, Little(d, p + 1, 2))
  BY SMT DEF read_varint
<1>4. /\ v \in Nat /\ v >= 253 /\ v = TwoBytes(At(d, p + 1), At(d, p + 2))
      /\ gen_varint(v) = <<253, At(d, p + 1), At(d, p + 2)>>
  BY <1>1, <1>2, <1>3, WrittenTwo
<1>5. ASSUME At(d, p) = 253, p + 2 <= Len(d.data)
      PROVE  SubSeq(d.data, p, p + 2) = gen_varint(v)
  <2>1. Len(d.data) \in Nat
    BY LenProperties DEF IsDatum, Text
  <2>2. /\ At(d, p) = d.data[p] /\ At(d, p + 1) = d.data[p + 1]
        /\ At(d, p + 2) = d.data[p + 2]
    BY <1>5, <2>1, AtByte
  <2>3. SubSeq(d.data, p, p + 2) = <<d.data[p], d.data[p + 1], d.data[p + 2]>>
    <3>1. d.data \in Text
      BY DEF IsDatum
    <3> QED  BY <1>5, <3>1, SubThree
  <2> QED  BY <1>4, <1>5, <2>2, <2>3
<1> QED  BY <1>2, <1>4, <1>5

(* The same in four bytes; a huge one is not written. *)
LEMMA VarintFour ==
  ASSUME NEW d, IsDatum(d), NEW p \in Nat \ {0}, NEW v,
         v = read_varint(d, p + 1, 4), v # NotMinimal
  PROVE  /\ v \in Nat
         /\ At(d, p) = 254 /\ p + 4 <= Len(d.data) /\ v # Huge =>
              SubSeq(d.data, p, p + 4) = gen_varint(v)
<1>1. /\ At(d, p + 1) \in Byte /\ At(d, p + 2) \in Byte /\ At(d, p + 3) \in Byte
  BY AtByte
<1> DEFINE n == ThreeBytes(At(d, p + 1), At(d, p + 2), At(d, p + 3))
<1>2. Little(d, p + 1, 4) = IF At(d, p + 4) # 0 THEN Huge ELSE n
  <2>1. /\ (p + 1) + 1 = p + 2 /\ (p + 1) + 2 = p + 3 /\ (p + 1) + 3 = p + 4
        /\ p + 1 \in Nat \ {0}
    OBVIOUS
  <2> QED  BY <2>1, LittleFour
<1>3. v = Minimal(4, Little(d, p + 1, 4))
  BY SMT DEF read_varint
<1>4. CASE At(d, p + 4) # 0
  <2>1. v = Minimal(4, Huge)
    BY <1>2, <1>3, <1>4
  <2>2. v = Huge /\ v \in Nat
    BY <2>1, SMT DEF Minimal, Huge
  <2> QED  BY <2>2
<1>5. CASE At(d, p + 4) = 0
  <2>1. v = Minimal(4, n)
    BY <1>2, <1>3, <1>5
  <2>2. v \in Nat /\ gen_varint(v) = <<254, At(d, p + 1), At(d, p + 2), At(d, p + 3), 0>>
    BY <1>1, <2>1, WrittenFour
  <2>3. ASSUME At(d, p) = 254, p + 4 <= Len(d.data)
        PROVE  SubSeq(d.data, p, p + 4) = gen_varint(v)
    <3>1. Len(d.data) \in Nat
      BY LenProperties DEF IsDatum, Text
    <3>2. /\ At(d, p) = d.data[p] /\ At(d, p + 1) = d.data[p + 1]
          /\ At(d, p + 2) = d.data[p + 2] /\ At(d, p + 3) = d.data[p + 3]
          /\ At(d, p + 4) = d.data[p + 4]
      BY <2>3, <3>1, AtByte
    <3>3. SubSeq(d.data, p, p + 4)
          = <<d.data[p], d.data[p + 1], d.data[p + 2], d.data[p + 3], d.data[p + 4]>>
      BY <2>3, SubFive DEF IsDatum
    <3> QED  BY <1>5, <2>2, <2>3, <3>2, <3>3
  <2> QED  BY <2>2, <2>3
<1> QED  BY <1>4, <1>5

-----------------------------------------------------------------------------
(* Counts and lengths. *)

(* A byte is a number. *)
LEMMA ByteNat == \A b \in Byte : b \in Nat
BY DEF Byte

(* A value that was read is related to its bytes. *)
LEMMA SoundIs ==
  ASSUME NEW data, NEW G, NEW q, NEW v, NEW m \in Nat, m > q,
         m <= Len(data) + 1 => <<v, SubSeq(data, q, m - 1)>> \in G,
         NEW e, e = Read(v, m)
  PROVE  Sound(e, data, G, q)
BY Zenon DEF Sound

(* A failure claims nothing. *)
LEMMA SoundFailed ==
  ASSUME NEW data, NEW G, NEW q, NEW e, e = Failed
  PROVE  Sound(e, data, G, q)
BY ReadFields DEF Sound, Failed

(* What a head byte says of the bytes behind it. *)
LEMMA HeadKinds ==
  ASSUME NEW h \in Byte
  PROVE  \/ h < 253 /\ read_varint_len(h) = 0
         \/ h = 253 /\ read_varint_len(h) = 2
         \/ h = 254 /\ read_varint_len(h) = 4
         \/ h = 255 /\ read_varint_len(h) = 8
BY SMT DEF read_varint_len, Byte

(* Bytes that hold the number n, up to position m. *)
Holds(d, p, m, n) == m <= Len(d.data) + 1 => SubSeq(d.data, p, m - 1) = gen_varint(n)

(* A head byte and what follows it hold the number that is read, unless    *)
(* the head is 255.                                                        *)
LEMMA HeadRead ==
  ASSUME NEW d, IsDatum(d), NEW p \in Nat \ {0}, At(d, p) # 255,
         NEW more, more = read_varint_len(At(d, p)), NEW n,
         n = IF more = 0 THEN At(d, p) ELSE read_varint(d, p + 1, more),
         n # NotMinimal
  PROVE  n \in Nat /\ more \in {0, 2, 4} /\ (n # Huge => Holds(d, p, p + 1 + more, n))
<1>0. At(d, p) \in Byte /\ Len(d.data) \in Nat
  BY AtByte, LenProperties DEF IsDatum, Text
<1>1. CASE At(d, p) < 253 /\ more = 0
  <2>0. n = At(d, p)
    BY <1>1
  <2>1. n = At(d, p) /\ n \in Nat
    BY <1>0, <2>0, ByteNat, Zenon
  <2>2. gen_varint(n) = <<n>>
    BY <1>1, <2>1, SMT DEF gen_varint
  <2>3. ASSUME p <= Len(d.data) PROVE SubSeq(d.data, p, p) = <<n>>
    BY <2>1, <2>3, AtByte, SubOne DEF IsDatum
  <2>4. p + 1 + more = p + 1 /\ (p + 1) - 1 = p /\ (p + 1 <= Len(d.data) + 1 => p <= Len(d.data))
    BY <1>0, <1>1
  <2>5. Holds(d, p, p + 1, n)
    <3> SUFFICES ASSUME p + 1 <= Len(d.data) + 1
                 PROVE  SubSeq(d.data, p, (p + 1) - 1) = gen_varint(n)
      BY Zenon DEF Holds
    <3>1. SubSeq(d.data, p, p) = <<n>>
      BY <2>3, <2>4
    <3> QED  BY <2>2, <2>4, <3>1, Zenon
  <2> QED  BY <1>1, <2>1, <2>4, <2>5
<1>2. CASE At(d, p) = 253 /\ more = 2
  <2>1. n = read_varint(d, p + 1, 2)
    BY <1>2
  <2>2. n \in Nat /\ (p + 2 <= Len(d.data) => SubSeq(d.data, p, p + 2) = gen_varint(n))
    BY <1>2, <2>1, VarintTwo
  <2>3. p + 1 + more = p + 3 /\ (p + 3) - 1 = p + 2
        /\ (p + 3 <= Len(d.data) + 1 => p + 2 <= Len(d.data))
    BY <1>0, <1>2
  <2>4. Holds(d, p, p + 3, n)
    BY <2>2, <2>3 DEF Holds
  <2> QED  BY <1>2, <2>2, <2>3, <2>4
<1>3. CASE At(d, p) = 254 /\ more = 4
  <2>1. n = read_varint(d, p + 1, 4)
    BY <1>3
  <2>2. n \in Nat /\ (p + 4 <= Len(d.data) /\ n # Huge =>
                        SubSeq(d.data, p, p + 4) = gen_varint(n))
    BY <1>3, <2>1, VarintFour
  <2>3. p + 1 + more = p + 5 /\ (p + 5) - 1 = p + 4
        /\ (p + 5 <= Len(d.data) + 1 => p + 4 <= Len(d.data))
    BY <1>0, <1>3
  <2>4. n # Huge => Holds(d, p, p + 5, n)
    BY <2>2, <2>3 DEF Holds
  <2> QED  BY <1>3, <2>2, <2>3, <2>4
<1> QED  BY <1>0, <1>1, <1>2, <1>3, HeadKinds

(* A count that is not beyond the length of the datum was written as       *)
(* gen_varint writes it.                                                   *)
LEMMA CounterRead ==
  ASSUME NEW d, IsDatum(d), NEW p \in Nat \ {0}, NEW c, c = Counter(d, p)
  PROVE  /\ c.n \in Int /\ c.next \in Nat /\ c.next > p
         /\ c.n > 0 /\ c.n <= Len(d.data) => Holds(d, p, c.next, c.n)
<1> DEFINE more == read_varint_len(At(d, p))
           n == IF more = 0 THEN At(d, p) ELSE read_varint(d, p + 1, more)
<1>0. At(d, p) \in Byte /\ Len(d.data) \in Nat /\ Len(d.data) < Huge
  BY AtByte, LenProperties DEF IsDatum, Text
<1>1. c.n = n /\ c.next = p + 1 + more
  BY DEF Counter
<1>2. CASE At(d, p) = 255
  <2>1. more = 8
    BY <1>0, <1>2, HeadKinds
  <2>2. p + 1 \in Nat \ {0}
    OBVIOUS
  <2>3. n = read_varint(d, p + 1, 8)
    BY <2>1
  <2>4. n \in {NotMinimal, Huge}
    BY <2>2, <2>3, LittleEight
  <2>5. n \in Int /\ ~ (n > 0 /\ n <= Len(d.data))
    <3> HIDE DEF n
    <3>1. CASE n = NotMinimal
      BY <3>1, SMT DEF NotMinimal
    <3>2. CASE n = Huge
      BY <1>0, <3>2, SMT DEF Huge
    <3> QED  BY <2>4, <3>1, <3>2
  <2>6. p + 1 + more \in Nat /\ p + 1 + more > p
    BY <2>1
  <2> HIDE DEF n, more
  <2> QED  BY <1>1, <2>5, <2>6
<1>3. CASE At(d, p) # 255 /\ n = NotMinimal
  <2>1. more \in {0, 2, 4, 8}
    BY <1>0, HeadKinds
  <2> HIDE DEF n, more
  <2>2. p + 1 + more \in Nat /\ p + 1 + more > p
    BY <2>1
  <2>3. n \in Int /\ ~ (n > 0)
    BY <1>3, SMT DEF NotMinimal
  <2> QED  BY <1>1, <2>2, <2>3
<1>4. CASE At(d, p) # 255 /\ n # NotMinimal
  <2>1. n \in Nat /\ more \in {0, 2, 4} /\ (n # Huge => Holds(d, p, p + 1 + more, n))
    BY <1>4, HeadRead
  <2> HIDE DEF n, more
  <2>2. p + 1 + more \in Nat /\ p + 1 + more > p
    BY <2>1
  <2>3. n <= Len(d.data) => n # Huge
    BY <1>0, <2>1, SMT DEF Huge
  <2> QED  BY <1>1, <2>1, <2>2, <2>3
<1> QED  BY <1>2, <1>3, <1>4

ItemOf(d) ==
  {g \in Text \X Text : LongText(d, g[1]) \/ g[2] = serialize_single_op_item(g[1])}

(* A length and so many bytes are read as serialize_single_op_item writes  *)
(* them.                                                                   *)
LEMMA SizedSound ==
  ASSUME NEW d, IsDatum(d), NEW p \in Nat \ {0}
  PROVE  Sound(Sized(d, p), d.data, ItemOf(d), p)
<1> DEFINE more == read_varint_len(At(d, p))
           n == IF more = 0 THEN At(d, p)
                ELSE read_varint(d, p + 1, IF more = 8 THEN 2 ELSE more)
           q == p + 1 + more
           e == Sized(d, p)
<1>0. At(d, p) \in Byte /\ Len(d.data) \in Nat /\ Len(d.data) < Huge
  BY AtByte, LenProperties DEF IsDatum, Text
<1>1. e = Bytes(d, q, n)
  BY DEF Sized
<1>2. CASE n = NotMinimal
  <2>1. e = Failed
    BY <1>1, <1>2 DEF Bytes
  <2> HIDE DEF e
  <2>2. ~ e.ok
    BY <2>1, ReadFields DEF Failed
  <2> QED  BY <2>2 DEF e, Sound
<1>3. CASE n # NotMinimal
  <2>1. e = Read(Take(d, q, n), q + n)
    BY <1>1, <1>3 DEF Bytes
  <2>2. /\ n \in Nat /\ more \in {0, 2, 4, 8}
        /\ At(d, p) # 255 => (n # Huge => Holds(d, p, q, n))
        /\ At(d, p) = 255 => more = 8 /\ n >= 253 /\ n = Little(d, p + 1, 2)
    <3>1. CASE At(d, p) = 255
      <4>1. more = 8
        BY <1>0, <3>1, HeadKinds
      <4>2. n = read_varint(d, p + 1, 2)
        BY <4>1
      <4> HIDE DEF n, more
      <4>3. n \in Nat /\ n >= 253 /\ n = Little(d, p + 1, 2)
        BY <1>3, <4>2, VarintTwo
      <4> QED  BY <3>1, <4>1, <4>3
    <3>2. CASE At(d, p) # 255
      <4>1. more # 8
        BY <1>0, <3>2, HeadKinds
      <4>2. n = IF more = 0 THEN At(d, p) ELSE read_varint(d, p + 1, more)
        BY <4>1
      <4> HIDE DEF n
      <4>3. n \in Nat /\ more \in {0, 2, 4} /\ (n # Huge => Holds(d, p, p + 1 + more, n))
        BY <1>3, <3>2, <4>2, HeadRead
      <4> QED  BY <3>2, <4>3
    <3> QED  BY <3>1, <3>2
  <2> HIDE DEF n, more, e
  <2>3. q \in Nat \ {0} /\ q > p /\ q + n \in Nat /\ q + n > p
    BY <2>2
  <2> DEFINE t == Take(d, q, n)
             s == SubSeq(d.data, p, (q + n) - 1)
  <2>4. ASSUME q + n <= Len(d.data) + 1 PROVE <<t, s>> \in ItemOf(d)
    <3>1. q + n - 1 <= Len(d.data)
      BY <1>0, <2>3, <2>4, <2>2
    <3>2. t \in Text /\ t = SubSeq(d.data, q, q + n - 1) /\ Len(t) = n
      BY <2>2, <2>3, <3>1, TakeText
    <3>3. s \in Text
      <4>1. (q + n) - 1 \in Int /\ (q + n) - 1 <= Len(d.data)
        BY <2>2, <2>3, <3>1
      <4> HIDE DEF q
      <4> QED  BY <4>1, InText DEF IsDatum
    <3>4. LongText(d, t) \/ s = serialize_single_op_item(t)
      <4>1. CASE At(d, p) = 255
        <5>0. q = p + 9
          BY <2>2, <4>1
        <5>1. p \in 1 .. Len(d.data) /\ p + 8 + n <= Len(d.data)
          BY <1>0, <2>2, <3>1, <5>0
        <5>2. d.data[p] = 255
          BY <4>1, <5>1, AtByte
        <5>3. q + n - 1 = p + 8 + n /\ Len(t) = n
          BY <2>2, <3>2, <5>0
        <5>4. Len(t) >= 253
          BY <2>2, <4>1, <5>3
        <5>5. /\ p \in 1 .. Len(d.data) /\ d.data[p] = 255
              /\ Little(d, p + 1, 2) = Len(t) /\ p + 8 + Len(t) <= Len(d.data)
              /\ SubSeq(d.data, p + 9, p + 8 + Len(t)) = t
          BY <2>2, <3>2, <4>1, <5>0, <5>1, <5>2, <5>3
        <5> QED  BY <5>4, <5>5, Zenon DEF LongText
      <4>2. CASE At(d, p) # 255
        <5>0. q - 1 <= Len(d.data) /\ q <= Len(d.data) + 1 /\ n <= Len(d.data)
          BY <1>0, <2>2, <2>3, <3>1
        <5>1. n # Huge
          BY <1>0, <2>2, <5>0, SMT DEF Huge
        <5>2. SubSeq(d.data, p, q - 1) = gen_varint(n)
          BY <2>2, <4>2, <5>0, <5>1 DEF Holds
        <5>3. SubSeq(d.data, p, q - 1) \o SubSeq(d.data, q, q + n - 1) = s
          <6>1. /\ p \in 1 .. Len(d.data) + 1 /\ q - 1 \in p - 1 .. Len(d.data)
                /\ q + n - 1 \in q - 1 .. Len(d.data) /\ (q - 1) + 1 = q
                /\ q + n - 1 = (q + n) - 1
            BY <1>0, <2>2, <2>3, <3>1, <5>0
          <6> HIDE DEF q
          <6> QED  BY <6>1, ConcatAdjacentSubSeq DEF IsDatum, Text
        <5> QED  BY <3>2, <5>2, <5>3 DEF serialize_single_op_item
      <4> QED  BY <4>1, <4>2
    <3> HIDE DEF t, s
    <3> QED  BY <3>2, <3>3, <3>4 DEF ItemOf
  <2>5. e = Read(t, q + n)
    BY <2>1
  <2> HIDE DEF t, q
  <2>6. Sound(e, d.data, ItemOf(d), p)
    <3>1. PICK m \in Nat : m = q + n
      BY <2>3
    <3>2. m > p /\ e = Read(t, m)
      BY <2>3, <2>5, <3>1
    <3>3. m <= Len(d.data) + 1 => <<t, SubSeq(d.data, p, m - 1)>> \in ItemOf(d)
      BY <2>4, <3>1, Zenon
    <3> QED  BY <3>2, <3>3, SoundIs, Zenon
  <2> QED  BY <2>6 DEF e
<1> QED  BY <1>2, <1>3

-----------------------------------------------------------------------------
(* Pieces of the data, inputs and outputs. *)

(* The bytes from position p on, up to but without position m. *)
Piece(data, p, m) == SubSeq(data, p, m - 1)

(* A piece of a text is a text. *)
LEMMA PieceText ==
  ASSUME NEW data \in Text, NEW p \in Nat \ {0}, NEW m \in Nat, p <= m, m <= Len(data) + 1
  PROVE  Piece(data, p, m) \in Text /\ Len(Piece(data, p, m)) = m - p
<1>0. Len(data) \in Nat
  BY LenProperties DEF Text
<1>1. m - 1 \in Int /\ m - 1 <= Len(data)
  BY <1>0
<1>2. /\ SubSeq(data, p, m - 1) \in Text
      /\ Len(SubSeq(data, p, m - 1)) = IF p <= m - 1 THEN (m - 1) - p + 1 ELSE 0
  BY <1>1, InText
<1>3. (IF p <= m - 1 THEN (m - 1) - p + 1 ELSE 0) = m - p
  OBVIOUS
<1> QED  BY <1>2, <1>3 DEF Piece

(* Two pieces that touch. *)
LEMMA PieceJoin ==
  ASSUME NEW data \in Text, NEW p \in Nat \ {0}, NEW m \in Nat, NEW q \in Nat,
         p <= m, m <= q, q <= Len(data) + 1
  PROVE  Piece(data, p, m) \o Piece(data, m, q) = Piece(data, p, q)
<1>0. Len(data) \in Nat
  BY LenProperties DEF Text
<1>1. /\ p \in 1 .. Len(data) + 1 /\ m - 1 \in p - 1 .. Len(data)
      /\ q - 1 \in m - 1 .. Len(data) /\ (m - 1) + 1 = m
  BY <1>0
<1> QED  BY <1>1, ConcatAdjacentSubSeq DEF Text, Piece

(* A field is a piece of the datum. *)
LEMMA TakePiece ==
  ASSUME NEW d, IsDatum(d), NEW p \in Nat \ {0}, NEW n \in Nat, NEW m, m = p + n
  PROVE  /\ Take(d, p, n) \in Text
         /\ m <= Len(d.data) + 1 =>
              Take(d, p, n) = Piece(d.data, p, m) /\ Len(Take(d, p, n)) = n
<1>0. Len(d.data) \in Nat
  BY LenProperties DEF IsDatum, Text
<1>1. m - 1 = p + n - 1 /\ (m <= Len(d.data) + 1 => p + n - 1 <= Len(d.data))
  BY <1>0
<1>2. /\ Take(d, p, n) \in Text
      /\ p + n - 1 <= Len(d.data) =>
           Take(d, p, n) = SubSeq(d.data, p, p + n - 1) /\ Len(Take(d, p, n)) = n
  BY TakeText
<1> QED  BY <1>1, <1>2 DEF Piece

(* A field that the datum reaches has its length. *)
LEMMA TakeTexts ==
  ASSUME NEW d, IsDatum(d), NEW p \in Nat \ {0}, NEW n \in Nat, NEW m, m = p + n,
         m <= Len(d.data) + 1
  PROVE  Take(d, p, n) \in Texts(n) /\ Take(d, p, n) = Piece(d.data, p, m)
BY TakePiece DEF Texts

(* An element and its bytes, as the ground writes it. *)
InputOf(d) ==
  {g \in Inputs \X Text : LongText(d, g[1].script) \/ g[2] = serialize_single_input(g[1])}
OutputOf(d) ==
  {g \in Outputs \X Text : LongText(d, g[1].script) \/ g[2] = serialize_single_output(g[1])}
WitnessOf(d) ==
  {g \in Witnesses \X Text : LongItem(d, g[1].items) \/ g[2] = PartialWitness(g[1])}

(* What was read as a length and so many bytes. *)
LEMMA SizedRead ==
  ASSUME NEW d, IsDatum(d), NEW p \in Nat \ {0}, Sized(d, p).ok
  PROVE  \E v, m :
           /\ Sized(d, p) = Read(v, m) /\ m \in Nat /\ m > p
           /\ m <= Len(d.data) + 1 =>
                /\ v \in Text
                /\ LongText(d, v) \/ Piece(d.data, p, m) = serialize_single_op_item(v)
<1>1. PICK v, m :
        /\ Sized(d, p) = Read(v, m) /\ m \in Nat /\ m > p
        /\ m <= Len(d.data) + 1 => <<v, SubSeq(d.data, p, m - 1)>> \in ItemOf(d)
  BY SizedSound DEF Sound
<1>2. m <= Len(d.data) + 1 =>
        /\ v \in Text
        /\ LongText(d, v) \/ Piece(d.data, p, m) = serialize_single_op_item(v)
  BY <1>1 DEF ItemOf, Piece
<1> QED  BY <1>1, <1>2, Zenon

(* An input is read from the bytes that serialize_single_input makes of    *)
(* it.                                                                     *)
LEMMA InputSound ==
  ASSUME NEW d, IsDatum(d), NEW p \in Nat \ {0}
  PROVE  Sound(get_single_input(d, p), d.data, InputOf(d), p)
<1> DEFINE s == Sized(d, p + 36)
           e == get_single_input(d, p)
<1>0. Len(d.data) \in Nat /\ p + 36 \in Nat \ {0} /\ d.data \in Text
  BY LenProperties DEF IsDatum, Text
<1>1. CASE ~ s.ok
  <2>1. e = Failed
    BY <1>1 DEF get_single_input, InputWith
  <2> HIDE DEF e
  <2>2. Sound(e, d.data, InputOf(d), p)
    BY <2>1, SoundFailed
  <2> QED  BY <2>2 DEF e
<1>2. CASE s.ok
  <2>1. PICK v, m :
          /\ s = Read(v, m) /\ m \in Nat /\ m > p + 36
          /\ m <= Len(d.data) + 1 =>
               /\ v \in Text
               /\ LongText(d, v) \/ Piece(d.data, p + 36, m) = serialize_single_op_item(v)
    BY <1>0, <1>2, SizedRead
  <2> DEFINE i == [outpoint |-> Take(d, p, 36), script |-> v, sequence |-> Take(d, m, 4)]
  <2>2. e = Read(i, m + 4)
    <3>1. s.val = v /\ s.next = m
      BY <2>1, ReadFields
    <3> HIDE DEF s
    <3>2. e = InputWith(d, p, s)
      BY DEF get_single_input, s
    <3> HIDE DEF e
    <3> QED  BY <1>2, <3>1, <3>2 DEF InputWith
  <2> HIDE DEF e, s
  <2>3. PICK n \in Nat : n = m + 4
    BY <2>1
  <2>4. n > p /\ e = Read(i, n)
    BY <2>1, <2>2, <2>3
  <2>5. ASSUME n <= Len(d.data) + 1
        PROVE  <<i, SubSeq(d.data, p, n - 1)>> \in InputOf(d)
    <3>0. /\ m <= Len(d.data) + 1 /\ p + 36 <= Len(d.data) + 1 /\ m \in Nat \ {0}
          /\ p <= p + 36 /\ p + 36 <= m /\ m <= n /\ p <= n /\ p <= m /\ p + 36 \in Nat
      BY <1>0, <2>1, <2>3, <2>5
    <3>1. Take(d, p, 36) \in Texts(36) /\ Take(d, p, 36) = Piece(d.data, p, p + 36)
      BY <3>0, TakeTexts
    <3>2. Take(d, m, 4) \in Texts(4) /\ Take(d, m, 4) = Piece(d.data, m, n)
      BY <2>3, <2>5, <3>0, TakeTexts
    <3>3. v \in Text
      BY <2>1, <3>0
    <3>4. i \in Inputs
      BY <3>1, <3>2, <3>3 DEF Inputs
    <3>5. Piece(d.data, p, n) \in Text
      BY <1>0, <2>5, <3>0, PieceText
    <3>6. ASSUME ~ LongText(d, v)
          PROVE  Piece(d.data, p, n) = serialize_single_input(i)
      <4>1. Piece(d.data, p + 36, m) = serialize_single_op_item(v)
        BY <2>1, <3>0, <3>6
      <4>2. Piece(d.data, p, p + 36) \o Piece(d.data, p + 36, m) = Piece(d.data, p, m)
        BY <1>0, <3>0, PieceJoin
      <4>3. Piece(d.data, p, m) \o Piece(d.data, m, n) = Piece(d.data, p, n)
        BY <1>0, <2>5, <3>0, PieceJoin
      <4>4. serialize_single_input(i)
            = (Take(d, p, 36) \o serialize_single_op_item(v)) \o Take(d, m, 4)
        BY DEF serialize_single_input
      <4> QED  BY <3>1, <3>2, <4>1, <4>2, <4>3, <4>4, Zenon
    <3>7. i.script = v
      OBVIOUS
    <3> HIDE DEF i
    <3> QED  BY <3>4, <3>5, <3>6, <3>7 DEF InputOf, Piece
  <2> HIDE DEF i
  <2>6. Sound(e, d.data, InputOf(d), p)
    BY <2>4, <2>5, SoundIs, Zenon
  <2> QED  BY <2>6 DEF e
<1> QED  BY <1>1, <1>2

(* An output is read from the bytes that serialize_single_output makes of  *)
(* it.                                                                     *)
LEMMA OutputSound ==
  ASSUME NEW d, IsDatum(d), NEW p \in Nat \ {0}
  PROVE  Sound(get_single_output(d, p), d.data, OutputOf(d), p)
<1> DEFINE s == Sized(d, p + 8)
           e == get_single_output(d, p)
<1>0. Len(d.data) \in Nat /\ p + 8 \in Nat \ {0} /\ d.data \in Text
  BY LenProperties DEF IsDatum, Text
<1>1. CASE ~ s.ok
  <2>1. e = Failed
    BY <1>1 DEF get_single_output, OutputWith
  <2> HIDE DEF e
  <2>2. Sound(e, d.data, OutputOf(d), p)
    BY <2>1, SoundFailed
  <2> QED  BY <2>2 DEF e
<1>2. CASE s.ok
  <2>1. PICK v, m :
          /\ s = Read(v, m) /\ m \in Nat /\ m > p + 8
          /\ m <= Len(d.data) + 1 =>
               /\ v \in Text
               /\ LongText(d, v) \/ Piece(d.data, p + 8, m) = serialize_single_op_item(v)
    BY <1>0, <1>2, SizedRead
  <2> DEFINE o == [value |-> Take(d, p, 8), script |-> v]
  <2>2. e = Read(o, m)
    <3>1. s.val = v /\ s.next = m
      BY <2>1, ReadFields
    <3> HIDE DEF s
    <3>2. e = OutputWith(d, p, s)
      BY DEF get_single_output, s
    <3> HIDE DEF e
    <3> QED  BY <1>2, <3>1, <3>2 DEF OutputWith
  <2> HIDE DEF e, s
  <2>3. m > p
    BY <2>1
  <2>4. ASSUME m <= Len(d.data) + 1
        PROVE  <<o, SubSeq(d.data, p, m - 1)>> \in OutputOf(d)
    <3>0. /\ p + 8 <= Len(d.data) + 1 /\ p <= p + 8 /\ p + 8 <= m /\ p <= m /\ p + 8 \in Nat
          /\ m \in Nat
      BY <1>0, <2>1, <2>4
    <3>1. Take(d, p, 8) \in Texts(8) /\ Take(d, p, 8) = Piece(d.data, p, p + 8)
      BY <3>0, TakeTexts
    <3>3. v \in Text
      BY <2>1, <2>4
    <3>4. o \in Outputs
      BY <3>1, <3>3 DEF Outputs
    <3>5. Piece(d.data, p, m) \in Text
      BY <1>0, <2>4, <3>0, PieceText
    <3>6. ASSUME ~ LongText(d, v)
          PROVE  Piece(d.data, p, m) = serialize_single_output(o)
      <4>1. Piece(d.data, p + 8, m) = serialize_single_op_item(v)
        BY <2>1, <2>4, <3>6
      <4>2. Piece(d.data, p, p + 8) \o Piece(d.data, p + 8, m) = Piece(d.data, p, m)
        BY <1>0, <2>4, <3>0, PieceJoin
      <4>3. serialize_single_output(o) = Take(d, p, 8) \o serialize_single_op_item(v)
        BY DEF serialize_single_output
      <4> QED  BY <3>1, <4>1, <4>2, <4>3, Zenon
    <3>7. o.script = v
      OBVIOUS
    <3> HIDE DEF o
    <3> QED  BY <3>4, <3>5, <3>6, <3>7 DEF OutputOf, Piece
  <2> HIDE DEF o
  <2>6. Sound(e, d.data, OutputOf(d), p)
    BY <2>1, <2>2, <2>3, <2>4, SoundIs, Zenon
  <2> QED  BY <2>6 DEF e
<1> QED  BY <1>1, <1>2

-----------------------------------------------------------------------------
(* Lists of elements. *)

(* A sequence that agrees with a function on its domain is that function. *)
LEMMA SameText ==
  ASSUME NEW texts \in Seq(Text), NEW f, f = [k \in 1 .. Len(texts) |-> f[k]],
         \A k \in 1 .. Len(texts) : texts[k] = f[k]
  PROVE  texts = f
<1>1. texts = [k \in 1 .. Len(texts) |-> texts[k]]
  BY LenProperties
<1> QED  BY <1>1, Zenon

(* A list was read from data whose lengths are read as they were written:  *)
(* the values, and the bytes of each.                                      *)
ListRead(v, data, G, V, p, m, n) ==
  /\ v \in Seq(V) /\ Len(v) = n
  /\ \E texts \in Seq(Text) :
       /\ Len(texts) = n /\ Piece(data, p, m) = FlattenSeq(texts)
       /\ \A j \in 1 .. n : <<v[j], texts[j]>> \in G

(* A list that was read from a table of readers. *)
LEMMA TableRead ==
  ASSUME NEW data \in Text, NEW V, NEW G, G \subseteq V \X Text,
         NEW at, DOMAIN at = 1 .. Len(data),
         \A q \in 1 .. Len(data) : Sound(at[q], data, G, q),
         NEW p \in Nat \ {0}, NEW n \in Nat,
         NEW e, e = ReadFrom(at, p, n), e.ok
  PROVE  \E v, m :
           /\ e = Read(v, m) /\ m \in Nat /\ m >= p
           /\ m <= Len(data) + 1 => ListRead(v, data, G, V, p, m, n)
<1>1. ReadSoFar(ReadFrom(at, p, n), data, G, V, p, n)
  BY ReadFromSound, Zenon
<1>2. PICK v, m : e = Read(v, m) /\ ReadAs(v, m, data, G, V, p, n)
  BY <1>1, Zenon DEF ReadSoFar
<1>3. /\ m \in Nat /\ m >= p
      /\ m <= Len(data) + 1 => ListRead(v, data, G, V, p, m, n)
  BY <1>2, Zenon DEF ReadAs, ListRead, Piece
<1> QED  BY <1>2, <1>3, Zenon

(* The items of a witness. *)
LEMMA ItemsRead ==
  ASSUME NEW d, IsDatum(d), NEW p \in Nat \ {0}, NEW n \in Nat,
         NEW e, e = Elements(Sized, d, p, n), e.ok
  PROVE  \E v, m :
           /\ e = Read(v, m) /\ m \in Nat /\ m >= p
           /\ m <= Len(d.data) + 1 => ListRead(v, d.data, ItemOf(d), Text, p, m, n)
<1> DEFINE at == [q \in 1 .. Len(d.data) |-> Sized(d, q)]
<1>0. d.data \in Text /\ Len(d.data) \in Nat
  BY LenProperties DEF IsDatum, Text
<1>1. e # Failed
  BY ReadFields DEF Failed
<1>2. e = ReadFrom(at, p, n)
  BY <1>1 DEF Elements
<1>3. DOMAIN at = 1 .. Len(d.data)
  OBVIOUS
<1>4. ASSUME NEW q \in 1 .. Len(d.data) PROVE Sound(at[q], d.data, ItemOf(d), q)
  <2>1. q \in Nat \ {0} /\ at[q] = Sized(d, q)
    BY <1>0
  <2> QED  BY <2>1, SizedSound
<1>5. ItemOf(d) \subseteq Text \X Text
  BY DEF ItemOf
<1> HIDE DEF at
<1> QED  BY <1>0, <1>2, <1>3, <1>4, <1>5, TableRead, Zenon

(* The inputs behind their count. *)
LEMMA InputsRead ==
  ASSUME NEW d, IsDatum(d), NEW p \in Nat \ {0}, NEW n \in Nat,
         NEW e, e = Elements(get_single_input, d, p, n), e.ok
  PROVE  \E v, m :
           /\ e = Read(v, m) /\ m \in Nat /\ m >= p
           /\ m <= Len(d.data) + 1 => ListRead(v, d.data, InputOf(d), Inputs, p, m, n)
<1> DEFINE at == [q \in 1 .. Len(d.data) |-> get_single_input(d, q)]
<1>0. d.data \in Text /\ Len(d.data) \in Nat
  BY LenProperties DEF IsDatum, Text
<1>1. e # Failed
  BY ReadFields DEF Failed
<1>2. e = ReadFrom(at, p, n)
  BY <1>1 DEF Elements
<1>3. DOMAIN at = 1 .. Len(d.data)
  OBVIOUS
<1>4. ASSUME NEW q \in 1 .. Len(d.data) PROVE Sound(at[q], d.data, InputOf(d), q)
  <2>1. q \in Nat \ {0} /\ at[q] = get_single_input(d, q)
    BY <1>0
  <2> QED  BY <2>1, InputSound
<1>5. InputOf(d) \subseteq Inputs \X Text
  BY DEF InputOf
<1> HIDE DEF at
<1> QED  BY <1>0, <1>2, <1>3, <1>4, <1>5, TableRead, Zenon

(* The outputs behind their count. *)
LEMMA OutputsRead ==
  ASSUME NEW d, IsDatum(d), NEW p \in Nat \ {0}, NEW n \in Nat,
         NEW e, e = Elements(get_single_output, d, p, n), e.ok
  PROVE  \E v, m :
           /\ e = Read(v, m) /\ m \in Nat /\ m >= p
           /\ m <= Len(d.data) + 1 => ListRead(v, d.data, OutputOf(d), Outputs, p, m, n)
<1> DEFINE at == [q \in 1 .. Len(d.data) |-> get_single_output(d, q)]
<1>0. d.data \in Text /\ Len(d.data) \in Nat
  BY LenProperties DEF IsDatum, Text
<1>1. e # Failed
  BY ReadFields DEF Failed
<1>2. e = ReadFrom(at, p, n)
  BY <1>1 DEF Elements
<1>3. DOMAIN at = 1 .. Len(d.data)
  OBVIOUS
<1>4. ASSUME NEW q \in 1 .. Len(d.data) PROVE Sound(at[q], d.data, OutputOf(d), q)
  <2>1. q \in Nat \ {0} /\ at[q] = get_single_output(d, q)
    BY <1>0
  <2> QED  BY <2>1, OutputSound
<1>5. OutputOf(d) \subseteq Outputs \X Text
  BY DEF OutputOf
<1> HIDE DEF at
<1> QED  BY <1>0, <1>2, <1>3, <1>4, <1>5, TableRead, Zenon

-----------------------------------------------------------------------------
(* Two bytes. *)
LEMMA SubTwo ==
  ASSUME NEW data \in Text, NEW p \in Nat \ {0}, p + 1 <= Len(data)
  PROVE  SubSeq(data, p, p + 1) = <<data[p], data[p + 1]>>
<1> DEFINE s == SubSeq(data, p, p + 1)
           t == <<data[p], data[p + 1]>>
<1>0. p + 1 \in Int /\ p <= p + 1 /\ (p + 1) - p + 1 = 2
  OBVIOUS
<1>1. /\ s \in Text /\ Len(s) = 2 /\ \A j \in 1 .. 2 : s[j] = data[p + j - 1]
      /\ \A j \in p .. p + 1 : data[j] \in Byte
  BY <1>0, InText
<1>2. t \in Seq(Byte) /\ Len(t) = 2 /\ \A j \in 1 .. 2 : t[j] = data[p + j - 1]
  <2>0. p \in p .. p + 1 /\ p + 1 \in p .. p + 1
    OBVIOUS
  <2>1. data[p] \in Byte /\ data[p + 1] \in Byte
    BY <1>1, <2>0, Zenon
  <2>2. p + 1 - 1 = p /\ p + 2 - 1 = p + 1
    OBVIOUS
  <2>3. t[1] = data[p] /\ t[2] = data[p + 1] /\ Len(t) = 2
    OBVIOUS
  <2>4. t \in Seq(Byte)
    BY <2>1
  <2>5. \A j \in 1 .. 2 : j = 1 \/ j = 2
    OBVIOUS
  <2> HIDE DEF t
  <2> QED  BY <2>2, <2>3, <2>4, <2>5
<1> HIDE DEF s, t
<1>3. s = t
  <2>1. Len(s) = Len(t) /\ \A j \in 1 .. Len(s) : s[j] = t[j]
    BY <1>1, <1>2
  <2> QED  BY <1>1, <1>2, <2>1, SeqEqual DEF Text
<1> QED  BY <1>3 DEF s, t

(* A witness is read from the bytes that PartialWitness makes of it. *)
LEMMA WitnessSound ==
  ASSUME NEW d, IsDatum(d), NEW p \in 1 .. Len(d.data)
  PROVE  Sound(init_single_witness(d, p), d.data, WitnessOf(d), p)
<1> DEFINE c == Counter(d, p + 15)
           l == Elements(Sized, d, c.next, c.n)
           e == init_single_witness(d, p)
<1>0. /\ Len(d.data) \in Nat /\ p \in Nat \ {0} /\ d.data \in Text
      /\ p + 15 \in Nat \ {0}
  BY LenProperties DEF IsDatum, Text
<1>1. CASE e = Failed
  <2> HIDE DEF e
  <2>1. Sound(e, d.data, WitnessOf(d), p)
    BY <1>1, SoundFailed
  <2> QED  BY <2>1 DEF e
<1>2. CASE e # Failed
  <2>1. /\ e = WitnessWith(Take(d, p + 5, 8), l)
        /\ At(d, p) = 254 /\ \A k \in 1 .. 4 : At(d, p + k) = 255
        /\ At(d, p + 13) = 0 /\ At(d, p + 14) = 0 /\ c.n > 0
    BY <1>2 DEF init_single_witness, get_op_items_counter
  <2>2. l.ok
    <3> HIDE DEF e
    <3> QED  BY <1>2, <2>1 DEF WitnessWith
  <2>3. /\ c.n \in Int /\ c.next \in Nat /\ c.next > p + 15
        /\ c.n > 0 /\ c.n <= Len(d.data) => Holds(d, p + 15, c.next, c.n)
    BY <1>0, CounterRead
  <2>4. c.n \in Nat /\ c.n <= Len(d.data) /\ Holds(d, p + 15, c.next, c.n)
    <3>1. l # Failed
      BY <2>2, ReadFields DEF Failed
    <3>2. ~ (c.n > Len(d.data))
      BY <3>1 DEF Elements
    <3> HIDE DEF c
    <3> QED  BY <1>0, <2>1, <2>3, <3>2
  <2>5. PICK v, m :
          /\ l = Read(v, m) /\ m \in Nat /\ m >= c.next
          /\ m <= Len(d.data) + 1 => ListRead(v, d.data, ItemOf(d), Text, c.next, m, c.n)
    <3> HIDE DEF c
    <3>1. c.next \in Nat \ {0}
      BY <2>3, <1>0
    <3> QED  BY <2>2, <2>4, <3>1, ItemsRead
  <2> DEFINE w == [value |-> Take(d, p + 5, 8), items |-> v]
  <2>6. e = Read(w, m)
    <3> HIDE DEF e, l
    <3>1. l.val = v /\ l.next = m
      BY <2>5, ReadFields, Zenon
    <3> QED  BY <2>1, <2>2, <3>1, Zenon DEF WitnessWith
  <2> HIDE DEF e, l, c
  <2>7. m > p
    BY <1>0, <2>3, <2>5
  <2>8. ASSUME m <= Len(d.data) + 1
        PROVE  <<w, SubSeq(d.data, p, m - 1)>> \in WitnessOf(d)
    <3>0. /\ c.next <= Len(d.data) + 1 /\ p + 15 <= Len(d.data) + 1
          /\ p + 13 <= Len(d.data) + 1 /\ p + 5 <= Len(d.data) + 1
          /\ p <= m /\ p <= c.next /\ p + 15 <= c.next /\ c.next \in Nat
          /\ p + 5 \in Nat \ {0} /\ p + 13 \in Nat \ {0} /\ p + 15 \in Nat \ {0}
          /\ p <= p + 5 /\ p + 5 <= p + 13 /\ p <= p + 13 /\ p + 13 <= p + 15 /\ p <= p + 15
          /\ p + 15 <= m /\ p + 5 \in Nat /\ p + 13 \in Nat /\ p + 15 \in Nat
      BY <1>0, <2>3, <2>5, <2>8
    <3>1. Take(d, p + 5, 8) \in Texts(8) /\ Take(d, p + 5, 8) = Piece(d.data, p + 5, p + 13)
      <4>1. p + 13 = (p + 5) + 8
        OBVIOUS
      <4> QED  BY <3>0, <4>1, TakeTexts
    <3>2. v \in Seq(Text) /\ Len(v) = c.n
      BY <2>5, <2>8 DEF ListRead
    <3>3. w \in Witnesses
      BY <3>1, <3>2 DEF Witnesses
    <3>4. Piece(d.data, p, m) \in Text
      BY <1>0, <2>5, <2>8, <3>0, PieceText
    <3>5. ASSUME ~ LongItem(d, v)
          PROVE  Piece(d.data, p, m) = PartialWitness(w)
      <4>1. Piece(d.data, p, p + 5) = <<254, 255, 255, 255, 255>>
        <5>0. /\ p <= Len(d.data) /\ p + 1 <= Len(d.data) /\ p + 2 <= Len(d.data)
              /\ p + 3 <= Len(d.data) /\ p + 4 <= Len(d.data)
              /\ p + 1 \in Nat \ {0} /\ p + 2 \in Nat \ {0}
              /\ p + 3 \in Nat \ {0} /\ p + 4 \in Nat \ {0}
          BY <1>0, <3>0
        <5>1. /\ At(d, p) = d.data[p] /\ At(d, p + 1) = d.data[p + 1]
              /\ At(d, p + 2) = d.data[p + 2] /\ At(d, p + 3) = d.data[p + 3]
              /\ At(d, p + 4) = d.data[p + 4]
          BY <1>0, <5>0, AtByte, Zenon
        <5>2. /\ At(d, p + 1) = 255 /\ At(d, p + 2) = 255
              /\ At(d, p + 3) = 255 /\ At(d, p + 4) = 255
          BY <2>1
        <5>3. p + 4 <= Len(d.data) /\ (p + 5) - 1 = p + 4
          BY <1>0, <3>0
        <5>4. SubSeq(d.data, p, p + 4)
              = <<d.data[p], d.data[p + 1], d.data[p + 2], d.data[p + 3], d.data[p + 4]>>
          BY <1>0, <5>3, SubFive
        <5>5. /\ d.data[p] = 254 /\ d.data[p + 1] = 255 /\ d.data[p + 2] = 255
              /\ d.data[p + 3] = 255 /\ d.data[p + 4] = 255
          <6>1. At(d, p) = 254
            BY <2>1, Zenon
          <6> QED  BY <5>1, <5>2, <6>1
        <5>6. Piece(d.data, p, p + 5) = SubSeq(d.data, p, p + 4)
          BY <5>3, Zenon DEF Piece
        <5> QED  BY <5>4, <5>5, <5>6, Zenon
      <4>2. Piece(d.data, p + 13, p + 15) = <<0, 0>>
        <5>1. (p + 13) + 2 = p + 15 /\ (p + 13) + 1 = p + 14
          OBVIOUS
        <5>2. p + 14 \in Nat \ {0} /\ p + 13 <= Len(d.data) /\ p + 14 <= Len(d.data)
          BY <1>0, <3>0
        <5>3. At(d, p + 13) = d.data[p + 13] /\ At(d, p + 14) = d.data[p + 14]
          BY <3>0, <5>2, AtByte
        <5>4. SubSeq(d.data, p + 13, (p + 13) + 1) = <<d.data[p + 13], d.data[(p + 13) + 1]>>
          BY <1>0, <3>0, <5>1, <5>2, SubTwo
        <5>5. (p + 15) - 1 = (p + 13) + 1
          OBVIOUS
        <5> QED  BY <2>1, <5>1, <5>3, <5>4, <5>5 DEF Piece
      <4>3. Piece(d.data, p + 15, c.next) = gen_varint(Len(v))
        BY <2>4, <3>0, <3>2 DEF Holds, Piece
      <4>4. Piece(d.data, c.next, m) = Joined(serialize_single_op_item, v)
        <5>1. PICK texts \in Seq(Text) :
                /\ Len(texts) = c.n /\ Piece(d.data, c.next, m) = FlattenSeq(texts)
                /\ \A j \in 1 .. c.n : <<v[j], texts[j]>> \in ItemOf(d)
          BY <2>5, <2>8 DEF ListRead
        <5> DEFINE f == [k \in 1 .. Len(v) |-> serialize_single_op_item(v[k])]
        <5>2. \A k \in 1 .. Len(texts) : texts[k] = f[k]
          <6> SUFFICES ASSUME NEW k \in 1 .. Len(v) PROVE texts[k] = f[k]
            BY <3>2, <5>1
          <6>1. <<v[k], texts[k]>> \in ItemOf(d)
            BY <3>2, <5>1
          <6>2. ~ LongText(d, v[k])
            BY <3>2, <3>5 DEF LongItem
          <6> QED  BY <6>1, <6>2 DEF ItemOf
        <5>3. f = [k \in 1 .. Len(texts) |-> f[k]]
          BY <3>2, <5>1
        <5> HIDE DEF f
        <5>4. texts = f
          BY <5>2, <5>3, SameText
        <5> QED  BY <5>1, <5>4 DEF f, Joined
      <4> DEFINE A == Piece(d.data, p, p + 5)
                 B == Piece(d.data, p + 5, p + 13)
                 C == Piece(d.data, p + 13, p + 15)
                 D == Piece(d.data, p + 15, c.next)
                 E == Piece(d.data, c.next, m)
      <4>5. PartialWitness(w) = (((A \o B) \o C) \o (D \o E))
        <5>1. w.value = B /\ w.items = v
          BY <3>1
        <5> HIDE DEF w, A, B, C, D, E
        <5>2. serialize_single_witness(w) = D \o E
          BY <4>3, <4>4, <5>1, Zenon DEF serialize_single_witness, D, E
        <5>3. PICK x, y : x = <<254, 255, 255, 255, 255>> /\ y = <<0, 0>>
          OBVIOUS
        <5>4. A = x /\ C = y
          BY <4>1, <4>2, <5>3, Zenon DEF A, C
        <5>5. PartialWitness(w) = ((x \o w.value) \o y) \o serialize_single_witness(w)
          BY <5>3, Zenon DEF PartialWitness
        <5> HIDE <5>3
        <5> QED  BY <5>1, <5>2, <5>4, <5>5, Zenon
      <4>6. A \o B = Piece(d.data, p, p + 13)
        BY <1>0, <3>0, PieceJoin, Zenon
      <4>7. Piece(d.data, p, p + 13) \o C = Piece(d.data, p, p + 15)
        BY <1>0, <3>0, PieceJoin, Zenon
      <4>8. D \o E = Piece(d.data, p + 15, m)
        BY <1>0, <2>5, <2>8, <3>0, PieceJoin
      <4>9. Piece(d.data, p, p + 15) \o Piece(d.data, p + 15, m) = Piece(d.data, p, m)
        BY <1>0, <2>5, <2>8, <3>0, PieceJoin, Zenon
      <4> HIDE DEF A, B, C, D, E
      <4> QED  BY <4>5, <4>6, <4>7, <4>8, <4>9, Zenon
    <3>6. w.items = v
      OBVIOUS
    <3> HIDE DEF w
    <3> QED  BY <3>3, <3>4, <3>5, <3>6 DEF WitnessOf, Piece
  <2> HIDE DEF w
  <2>9. Sound(e, d.data, WitnessOf(d), p)
    BY <2>5, <2>6, <2>7, <2>8, SoundIs, Zenon
  <2> QED  BY <2>9 DEF e
<1> QED  BY <1>1, <1>2

(* The witnesses, which have no count. *)
LEMMA WitnessesRead ==
  ASSUME NEW d, IsDatum(d), NEW p \in Nat \ {0}, NEW n \in Nat,
         NEW e, e = Elements(init_single_witness, d, p, n), e.ok
  PROVE  \E v, m :
           /\ e = Read(v, m) /\ m \in Nat /\ m >= p
           /\ m <= Len(d.data) + 1 => ListRead(v, d.data, WitnessOf(d), Witnesses, p, m, n)
<1> DEFINE at == [q \in 1 .. Len(d.data) |-> init_single_witness(d, q)]
<1>0. d.data \in Text /\ Len(d.data) \in Nat
  BY LenProperties DEF IsDatum, Text
<1>1. e # Failed
  BY ReadFields DEF Failed
<1>2. e = ReadFrom(at, p, n)
  BY <1>1 DEF Elements
<1>3. DOMAIN at = 1 .. Len(d.data)
  OBVIOUS
<1>4. ASSUME NEW q \in 1 .. Len(d.data) PROVE Sound(at[q], d.data, WitnessOf(d), q)
  BY WitnessSound
<1>5. WitnessOf(d) \subseteq Witnesses \X Text
  BY DEF WitnessOf
<1> HIDE DEF at
<1> QED  BY <1>0, <1>2, <1>3, <1>4, <1>5, TableRead, Zenon

-----------------------------------------------------------------------------
(* The whole transaction. *)

(* The list of inputs with its count, or no list at all. *)
LEMMA InputList ==
  ASSUME NEW d, IsDatum(d), NEW p \in Nat \ {0}, NEW e, e = init_inputs(d, p), e.ok
  PROVE  \E v, m :
           /\ e = Read(v, m) /\ m \in Nat /\ m >= p
           /\ m <= Len(d.data) + 1 =>
                /\ v \in Seq(Inputs)
                /\ v # <<>> => LongScript(d, v) \/ Piece(d.data, p, m) = serialize_inputs(v)
<1> DEFINE c == Counter(d, p)
           l == Elements(get_single_input, d, c.next, c.n)
<1>0. Len(d.data) \in Nat /\ d.data \in Text
  BY LenProperties DEF IsDatum, Text
<1>1. CASE e = NoneRead(p)
  <2>1. e = Read(<<>>, p) /\ <<>> \in Seq(Inputs) /\ p \in Nat /\ p >= p
    BY <1>1, EmptySeq DEF NoneRead
  <2> QED  BY <2>1, Zenon
<1>2. CASE e # NoneRead(p)
  <2>1. e = Listed(l, p) /\ ~ (c.n <= 0)
    BY <1>2 DEF init_inputs, ListFrom, get_inputs_counter
  <2>2. e = l /\ l.ok
    <3> HIDE DEF l
    <3>1. e # Failed
      BY ReadFields DEF Failed
    <3> QED  BY <1>2, <2>1, <3>1 DEF Listed
  <2>3. /\ c.n \in Int /\ c.next \in Nat /\ c.next > p
        /\ c.n > 0 /\ c.n <= Len(d.data) => Holds(d, p, c.next, c.n)
    BY CounterRead
  <2>4. ~ (c.n > Len(d.data))
    <3>1. l # Failed
      BY <2>2, ReadFields DEF Failed
    <3> QED  BY <3>1 DEF Elements
  <2> HIDE DEF c
  <2>5. c.n \in Nat /\ c.n <= Len(d.data) /\ Holds(d, p, c.next, c.n) /\ c.next \in Nat \ {0}
    BY <1>0, <2>1, <2>3, <2>4
  <2>6. PICK v, m :
          /\ l = Read(v, m) /\ m \in Nat /\ m >= c.next
          /\ m <= Len(d.data) + 1 => ListRead(v, d.data, InputOf(d), Inputs, c.next, m, c.n)
    BY <2>2, <2>5, InputsRead
  <2> HIDE DEF l
  <2>7. m >= p
    BY <2>3, <2>6
  <2>8. ASSUME m <= Len(d.data) + 1, ~ LongScript(d, v)
        PROVE  Piece(d.data, p, m) = serialize_inputs(v)
    <3>0. c.next <= Len(d.data) + 1 /\ p <= c.next /\ c.next <= m /\ c.next \in Nat
      BY <1>0, <2>3, <2>6, <2>8
    <3>1. v \in Seq(Inputs) /\ Len(v) = c.n
      BY <2>6, <2>8 DEF ListRead
    <3>2. Piece(d.data, p, c.next) = gen_varint(Len(v))
      BY <2>5, <3>0, <3>1 DEF Holds, Piece
    <3>3. Piece(d.data, c.next, m) = Joined(serialize_single_input, v)
      <4>1. PICK texts \in Seq(Text) :
              /\ Len(texts) = c.n /\ Piece(d.data, c.next, m) = FlattenSeq(texts)
              /\ \A j \in 1 .. c.n : <<v[j], texts[j]>> \in InputOf(d)
        BY <2>6, <2>8 DEF ListRead
      <4> DEFINE f == [k \in 1 .. Len(v) |-> serialize_single_input(v[k])]
      <4>2. \A k \in 1 .. Len(texts) : texts[k] = f[k]
        <5> SUFFICES ASSUME NEW k \in 1 .. Len(v) PROVE texts[k] = f[k]
          BY <3>1, <4>1
        <5>1. <<v[k], texts[k]>> \in InputOf(d)
          BY <3>1, <4>1
        <5>2. ~ LongText(d, v[k].script)
          BY <2>8, <3>1 DEF LongScript
        <5> QED  BY <5>1, <5>2 DEF InputOf
      <4>3. f = [k \in 1 .. Len(texts) |-> f[k]]
        BY <3>1, <4>1
      <4> HIDE DEF f
      <4>4. texts = f
        BY <4>2, <4>3, SameText
      <4> QED  BY <4>1, <4>4 DEF f, Joined
    <3>4. Piece(d.data, p, c.next) \o Piece(d.data, c.next, m) = Piece(d.data, p, m)
      BY <1>0, <2>6, <2>8, <3>0, PieceJoin, Zenon
    <3> QED  BY <3>2, <3>3, <3>4, Zenon DEF serialize_inputs
  <2>9. m <= Len(d.data) + 1 => v \in Seq(Inputs)
    BY <2>6 DEF ListRead
  <2> QED  BY <2>2, <2>6, <2>7, <2>8, <2>9, Zenon
<1> QED  BY <1>1, <1>2

(* The list of outputs with its count, or no list at all. *)
LEMMA OutputList ==
  ASSUME NEW d, IsDatum(d), NEW p \in Nat \ {0}, NEW e, e = init_outputs(d, p), e.ok
  PROVE  \E v, m :
           /\ e = Read(v, m) /\ m \in Nat /\ m >= p
           /\ m <= Len(d.data) + 1 =>
                /\ v \in Seq(Outputs)
                /\ v # <<>> => LongScript(d, v) \/ Piece(d.data, p, m) = serialize_outputs(v)
<1> DEFINE c == Counter(d, p)
           l == Elements(get_single_output, d, c.next, c.n)
<1>0. Len(d.data) \in Nat /\ d.data \in Text
  BY LenProperties DEF IsDatum, Text
<1>1. CASE e = NoneRead(p)
  <2>1. e = Read(<<>>, p) /\ <<>> \in Seq(Outputs) /\ p \in Nat /\ p >= p
    BY <1>1, EmptySeq DEF NoneRead
  <2> QED  BY <2>1, Zenon
<1>2. CASE e # NoneRead(p)
  <2>1. e = Listed(l, p) /\ ~ (c.n <= 0)
    BY <1>2 DEF init_outputs, ListFrom, get_outputs_counter
  <2>2. e = l /\ l.ok
    <3> HIDE DEF l
    <3>1. e # Failed
      BY ReadFields DEF Failed
    <3> QED  BY <1>2, <2>1, <3>1 DEF Listed
  <2>3. /\ c.n \in Int /\ c.next \in Nat /\ c.next > p
        /\ c.n > 0 /\ c.n <= Len(d.data) => Holds(d, p, c.next, c.n)
    BY CounterRead
  <2>4. ~ (c.n > Len(d.data))
    <3>1. l # Failed
      BY <2>2, ReadFields DEF Failed
    <3> QED  BY <3>1 DEF Elements
  <2> HIDE DEF c
  <2>5. c.n \in Nat /\ c.n <= Len(d.data) /\ Holds(d, p, c.next, c.n) /\ c.next \in Nat \ {0}
    BY <1>0, <2>1, <2>3, <2>4
  <2>6. PICK v, m :
          /\ l = Read(v, m) /\ m \in Nat /\ m >= c.next
          /\ m <= Len(d.data) + 1 => ListRead(v, d.data, OutputOf(d), Outputs, c.next, m, c.n)
    BY <2>2, <2>5, OutputsRead
  <2> HIDE DEF l
  <2>7. m >= p
    BY <2>3, <2>6
  <2>8. ASSUME m <= Len(d.data) + 1, ~ LongScript(d, v)
        PROVE  Piece(d.data, p, m) = serialize_outputs(v)
    <3>0. c.next <= Len(d.data) + 1 /\ p <= c.next /\ c.next <= m /\ c.next \in Nat
      BY <1>0, <2>3, <2>6, <2>8
    <3>1. v \in Seq(Outputs) /\ Len(v) = c.n
      BY <2>6, <2>8 DEF ListRead
    <3>2. Piece(d.data, p, c.next) = gen_varint(Len(v))
      BY <2>5, <3>0, <3>1 DEF Holds, Piece
    <3>3. Piece(d.data, c.next, m) = Joined(serialize_single_output, v)
      <4>1. PICK texts \in Seq(Text) :
              /\ Len(texts) = c.n /\ Piece(d.data, c.next, m) = FlattenSeq(texts)
              /\ \A j \in 1 .. c.n : <<v[j], texts[j]>> \in OutputOf(d)
        BY <2>6, <2>8 DEF ListRead
      <4> DEFINE f == [k \in 1 .. Len(v) |-> serialize_single_output(v[k])]
      <4>2. \A k \in 1 .. Len(texts) : texts[k] = f[k]
        <5> SUFFICES ASSUME NEW k \in 1 .. Len(v) PROVE texts[k] = f[k]
          BY <3>1, <4>1
        <5>1. <<v[k], texts[k]>> \in OutputOf(d)
          BY <3>1, <4>1
        <5>2. ~ LongText(d, v[k].script)
          BY <2>8, <3>1 DEF LongScript
        <5> QED  BY <5>1, <5>2 DEF OutputOf
      <4>3. f = [k \in 1 .. Len(texts) |-> f[k]]
        BY <3>1, <4>1
      <4> HIDE DEF f
      <4>4. texts = f
        BY <4>2, <4>3, SameText
      <4> QED  BY <4>1, <4>4 DEF f, Joined
    <3>4. Piece(d.data, p, c.next) \o Piece(d.data, c.next, m) = Piece(d.data, p, m)
      BY <1>0, <2>6, <2>8, <3>0, PieceJoin, Zenon
    <3> QED  BY <3>2, <3>3, <3>4, Zenon DEF serialize_outputs
  <2>9. m <= Len(d.data) + 1 => v \in Seq(Outputs)
    BY <2>6 DEF ListRead
  <2> QED  BY <2>2, <2>6, <2>7, <2>8, <2>9, Zenon
<1> QED  BY <1>1, <1>2

(* The list of witnesses, one for each input, or no list at all. *)
LEMMA WitnessList ==
  ASSUME NEW d, IsDatum(d), NEW p \in Nat \ {0}, NEW n \in Nat,
         NEW e, e = init_witnesses(d, p, n), e.ok
  PROVE  \E v, m :
           /\ e = Read(v, m) /\ m \in Nat /\ m >= p
           /\ m <= Len(d.data) + 1 =>
                /\ v \in Seq(Witnesses) /\ (v = <<>> \/ Len(v) = n)
                /\ v # <<>> =>
                     LongWitness(d, v) \/ Piece(d.data, p, m) = Joined(PartialWitness, v)
<1>1. CASE e = NoneRead(p)
  <2>1. e = Read(<<>>, p) /\ <<>> \in Seq(Witnesses) /\ p \in Nat /\ p >= p
    BY <1>1, EmptySeq DEF NoneRead
  <2> QED  BY <2>1, Zenon
<1>2. CASE e # NoneRead(p)
  <2>1. e = Elements(init_single_witness, d, p, n)
    BY <1>2 DEF init_witnesses
  <2>2. PICK v, m :
          /\ e = Read(v, m) /\ m \in Nat /\ m >= p
          /\ m <= Len(d.data) + 1 => ListRead(v, d.data, WitnessOf(d), Witnesses, p, m, n)
    BY <2>1, WitnessesRead
  <2>3. ASSUME m <= Len(d.data) + 1, ~ LongWitness(d, v)
        PROVE  Piece(d.data, p, m) = Joined(PartialWitness, v)
    <3>1. v \in Seq(Witnesses) /\ Len(v) = n
      BY <2>2, <2>3 DEF ListRead
    <3>2. PICK texts \in Seq(Text) :
            /\ Len(texts) = n /\ Piece(d.data, p, m) = FlattenSeq(texts)
            /\ \A j \in 1 .. n : <<v[j], texts[j]>> \in WitnessOf(d)
      BY <2>2, <2>3 DEF ListRead
    <3> DEFINE f == [k \in 1 .. Len(v) |-> PartialWitness(v[k])]
    <3>3. \A k \in 1 .. Len(texts) : texts[k] = f[k]
      <4> SUFFICES ASSUME NEW k \in 1 .. Len(v) PROVE texts[k] = f[k]
        BY <3>1, <3>2
      <4>1. <<v[k], texts[k]>> \in WitnessOf(d)
        BY <3>1, <3>2
      <4>2. ~ LongItem(d, v[k].items)
        BY <2>3, <3>1 DEF LongWitness
      <4> QED  BY <4>1, <4>2 DEF WitnessOf
    <3>4. f = [k \in 1 .. Len(texts) |-> f[k]]
      BY <3>1, <3>2
    <3> HIDE DEF f
    <3>5. texts = f
      BY <3>3, <3>4, SameText
    <3> QED  BY <3>2, <3>5 DEF f, Joined
  <2>4. m <= Len(d.data) + 1 => v \in Seq(Witnesses) /\ Len(v) = n
    BY <2>2 DEF ListRead
  <2> QED  BY <2>2, <2>3, <2>4, Zenon
<1> QED  BY <1>1, <1>2

-----------------------------------------------------------------------------
(* The transaction that init_tx returns, and how the data begins when none *)
(* of its lists was missing.                                               *)
LEMMA ParsedTx ==
  ASSUME NEW d, IsDatum(d), NEW r, r = init_tx(d), r.ok
  PROVE  /\ r.val \in Txs
         /\ r.val.witnesses = <<>> \/ Len(r.val.witnesses) = Len(r.val.inputs)
         /\ r.val.inputs # <<>> /\ r.val.outputs # <<>> /\ r.val.witnesses # <<>> =>
              LongLength(d, r.val) \/ IsPrefix(PartialTx(r.val), d.data)
<1> DEFINE ins == init_inputs(d, 13)
           outs == init_outputs(d, ins.next)
           wits == init_witnesses(d, outs.next, Len(ins.val))
           L == Len(d.data)
           t == [nversion |-> Take(d, 7, 4), inputs |-> ins.val,
                 outputs |-> outs.val, witnesses |-> wits.val,
                 lock_time |-> Take(d, wits.next, 4)]
<1>0. L \in Nat /\ d.data \in Text
  BY LenProperties DEF IsDatum, Text
<1>a. r # Failed
  BY ReadFields DEF Failed
<1>1. /\ 12 < L /\ \A k \in 1 .. 5 : At(d, k) = PartialLabel[k]
      /\ At(d, 6) = 0 /\ At(d, 11) = 0 /\ At(d, 12) = 1
      /\ r = OutputsAfter(d, ins)
  BY <1>a DEF init_tx
<1>2. Within(d, ins) /\ r = WitnessesAfter(d, ins, outs)
  <2> HIDE DEF ins
  <2> QED  BY <1>a, <1>1 DEF OutputsAfter
<1>3. Within(d, outs) /\ r = TxWith(d, ins, outs, wits)
  <2> HIDE DEF ins, outs
  <2> QED  BY <1>a, <1>2 DEF WitnessesAfter
<1>4. Within(d, wits) /\ wits.next + 4 - 1 <= L /\ r = Read(t, wits.next + 4)
  <2> HIDE DEF ins, outs, wits
  <2> QED  BY <1>a, <1>3 DEF TxWith
<1>5. PICK iv, im :
        /\ ins = Read(iv, im) /\ im \in Nat /\ im >= 13
        /\ im <= L + 1 =>
             /\ iv \in Seq(Inputs)
             /\ iv # <<>> => LongScript(d, iv) \/ Piece(d.data, 13, im) = serialize_inputs(iv)
  <2>1. ins.ok /\ 13 \in Nat \ {0}
    BY <1>2 DEF Within
  <2> QED  BY <2>1, InputList
<1>6. /\ ins.val = iv /\ ins.next = im /\ im <= L /\ im \in Nat \ {0} /\ iv \in Seq(Inputs)
      /\ iv # <<>> => LongScript(d, iv) \/ Piece(d.data, 13, im) = serialize_inputs(iv)
  <2> HIDE DEF ins
  <2> QED  BY <1>0, <1>2, <1>5, ReadFields DEF Within
<1>7. PICK ov, om :
        /\ outs = Read(ov, om) /\ om \in Nat /\ om >= im
        /\ om <= L + 1 =>
             /\ ov \in Seq(Outputs)
             /\ ov # <<>> => LongScript(d, ov) \/ Piece(d.data, im, om) = serialize_outputs(ov)
  <2> HIDE DEF ins
  <2>1. outs.ok
    BY <1>3 DEF Within
  <2> QED  BY <1>6, <2>1, OutputList
<1>8. /\ outs.val = ov /\ outs.next = om /\ om <= L /\ om \in Nat \ {0} /\ ov \in Seq(Outputs)
      /\ ov # <<>> => LongScript(d, ov) \/ Piece(d.data, im, om) = serialize_outputs(ov)
  <2> HIDE DEF ins, outs
  <2> QED  BY <1>0, <1>3, <1>6, <1>7, ReadFields DEF Within
<1>9. PICK wv, wm :
        /\ wits = Read(wv, wm) /\ wm \in Nat /\ wm >= om
        /\ wm <= L + 1 =>
             /\ wv \in Seq(Witnesses) /\ (wv = <<>> \/ Len(wv) = Len(iv))
             /\ wv # <<>> =>
                  LongWitness(d, wv) \/ Piece(d.data, om, wm) = Joined(PartialWitness, wv)
  <2> HIDE DEF ins, outs
  <2>1. wits.ok
    BY <1>4 DEF Within
  <2>2. Len(iv) \in Nat
    BY <1>6, LenProperties
  <2> QED  BY <1>6, <1>8, <2>1, <2>2, WitnessList
<1>10. /\ wits.val = wv /\ wits.next = wm /\ wm \in Nat \ {0} /\ wm + 4 <= L + 1
       /\ wv \in Seq(Witnesses) /\ (wv = <<>> \/ Len(wv) = Len(iv))
       /\ wv # <<>> => LongWitness(d, wv) \/ Piece(d.data, om, wm) = Joined(PartialWitness, wv)
  <2> HIDE DEF ins, outs, wits
  <2>1. wits.val = wv /\ wits.next = wm
    BY <1>9, ReadFields, Zenon
  <2>2. wm + 4 <= L + 1
    <3>1. wm + 4 - 1 <= L
      BY <1>4, <2>1
    <3>2. wm \in Nat
      BY <1>9
    <3> HIDE DEF L
    <3> QED  BY <1>0, <3>1, <3>2
  <2>3. wm \in Nat \ {0} /\ wm <= L + 1
    BY <1>0, <1>8, <1>9, <2>2
  <2> QED  BY <1>9, <2>1, <2>2, <2>3, Zenon
<1>11. r.val = t
  <2> HIDE DEF t
  <2> QED  BY <1>4, ReadFields
<1>12. Take(d, 7, 4) \in Texts(4) /\ Take(d, 7, 4) = Piece(d.data, 7, 11)
  <2>1. 7 \in Nat \ {0} /\ 4 \in Nat /\ 11 = 7 + 4 /\ 11 <= L + 1
    BY <1>0, <1>1
  <2> QED  BY <2>1, TakeTexts
<1>13. Take(d, wm, 4) \in Texts(4) /\ Take(d, wm, 4) = Piece(d.data, wm, wm + 4)
  BY <1>10, TakeTexts
<1> HIDE DEF ins, outs, wits
<1>14. t = [nversion |-> Take(d, 7, 4), inputs |-> iv, outputs |-> ov,
            witnesses |-> wv, lock_time |-> Take(d, wm, 4)]
  BY <1>6, <1>8, <1>10
<1> HIDE DEF t
<1>15. /\ t \in Txs /\ t.inputs = iv /\ t.outputs = ov /\ t.witnesses = wv
       /\ t.nversion = Take(d, 7, 4) /\ t.lock_time = Take(d, wm, 4)
  BY <1>6, <1>8, <1>10, <1>12, <1>13, <1>14 DEF Txs
<1>16. ASSUME iv # <<>>, ov # <<>>, wv # <<>>, ~ LongLength(d, t)
       PROVE  IsPrefix(PartialTx(t), d.data)
  <2>0. /\ 13 <= im /\ im <= om /\ om <= wm /\ wm <= wm + 4 /\ wm + 4 <= L + 1
        /\ 1 \in Nat \ {0} /\ 6 \in Nat /\ 7 \in Nat /\ 11 \in Nat /\ 13 \in Nat
        /\ 1 <= 6 /\ 6 <= 7 /\ 1 <= 7 /\ 7 <= 11 /\ 1 <= 11 /\ 11 <= 13 /\ 1 <= 13
        /\ 1 <= im /\ 1 <= om /\ 1 <= wm /\ 1 <= wm + 4
        /\ 6 <= L + 1 /\ 7 <= L + 1 /\ 11 <= L + 1 /\ 13 <= L + 1
        /\ im <= L + 1 /\ om <= L + 1 /\ wm <= L + 1
        /\ im \in Nat /\ om \in Nat /\ wm \in Nat /\ wm + 4 \in Nat
        /\ 6 \in Nat \ {0} /\ 7 \in Nat \ {0} /\ 11 \in Nat \ {0} /\ 13 \in Nat \ {0}
        /\ im \in Nat \ {0} /\ om \in Nat \ {0} /\ wm \in Nat \ {0}
    <3>1. /\ L \in Nat /\ 12 < L /\ im \in Nat /\ om \in Nat /\ wm \in Nat
          /\ im >= 13 /\ om >= im /\ wm >= om /\ wm + 4 <= L + 1
      BY <1>0, <1>1, <1>5, <1>7, <1>9, <1>10
    <3> HIDE DEF L
    <3> QED  BY <3>1
  <2>1. Piece(d.data, 1, 6) = PartialLabel
    <3>1. /\ At(d, 1) = d.data[1] /\ At(d, 2) = d.data[2] /\ At(d, 3) = d.data[3]
          /\ At(d, 4) = d.data[4] /\ At(d, 5) = d.data[5]
      <4>1. \A k \in {1, 2, 3, 4, 5} : k \in Nat \ {0} /\ k <= Len(d.data)
        BY <1>0, <1>1
      <4> SUFFICES \A k \in {1, 2, 3, 4, 5} : At(d, k) = d.data[k]
        OBVIOUS
      <4> QED  BY <1>0, <4>1, AtByte
    <3>2. SubSeq(d.data, 1, 1 + 4)
          = <<d.data[1], d.data[1 + 1], d.data[1 + 2], d.data[1 + 3], d.data[1 + 4]>>
      <4>1. 1 + 4 <= L /\ 1 \in Nat \ {0}
        BY <1>0, <1>1
      <4> QED  BY <1>0, <4>1, SubFive
    <3>3. /\ PartialLabel[1] = 69 /\ PartialLabel[2] = 80 /\ PartialLabel[3] = 84
          /\ PartialLabel[4] = 70 /\ PartialLabel[5] = 255
      BY DEF PartialLabel
    <3>4. /\ d.data[1] = 69 /\ d.data[2] = 80 /\ d.data[3] = 84
          /\ d.data[4] = 70 /\ d.data[5] = 255
      <4>1. /\ At(d, 1) = PartialLabel[1] /\ At(d, 2) = PartialLabel[2]
            /\ At(d, 3) = PartialLabel[3] /\ At(d, 4) = PartialLabel[4]
            /\ At(d, 5) = PartialLabel[5]
        BY <1>1
      <4> QED  BY <3>1, <3>3, <4>1
    <3>5. Piece(d.data, 1, 6) = SubSeq(d.data, 1, 1 + 4)
      BY DEF Piece
    <3> QED  BY <3>2, <3>4, <3>5 DEF PartialLabel
  <2>2. Piece(d.data, 6, 7) = <<0>>
    <3>1. At(d, 6) = d.data[6]
      BY <1>0, <1>1, AtByte
    <3>2. SubSeq(d.data, 6, 6) = <<d.data[6]>> /\ 7 - 1 = 6
      BY <1>0, <1>1, SubOne
    <3> QED  BY <1>1, <3>1, <3>2 DEF Piece
  <2>3. Piece(d.data, 11, 13) = <<0, 1>>
    <3>1. At(d, 11) = d.data[11] /\ At(d, 12) = d.data[12]
      BY <1>0, <1>1, AtByte
    <3>2. SubSeq(d.data, 11, 11 + 1) = <<d.data[11], d.data[11 + 1]>>
      BY <1>0, <1>1, SubTwo
    <3>3. 13 - 1 = 11 + 1 /\ 11 + 1 = 12
      OBVIOUS
    <3> QED  BY <1>1, <3>1, <3>2, <3>3 DEF Piece
  <2> DEFINE P(p, m) == Piece(d.data, p, m)
  <2>a. ~ LongScript(d, iv) /\ ~ LongScript(d, ov) /\ ~ LongWitness(d, wv)
    BY <1>15, <1>16 DEF LongLength
  <2>4. PartialTx(t) = ((((((P(1, 6) \o P(6, 7)) \o P(7, 11)) \o P(11, 13))
                       \o P(13, im)) \o P(im, om)) \o P(om, wm)) \o P(wm, wm + 4)
    BY <1>6, <1>8, <1>10, <1>12, <1>13, <1>15, <1>16, <2>1, <2>2, <2>3, <2>a, Zenon
       DEF PartialTx
  <2>5. P(1, 6) \o P(6, 7) = P(1, 7)
    BY <1>0, <2>0, PieceJoin, Zenon
  <2>6. P(1, 7) \o P(7, 11) = P(1, 11)
    BY <1>0, <2>0, PieceJoin, Zenon
  <2>7. P(1, 11) \o P(11, 13) = P(1, 13)
    BY <1>0, <2>0, PieceJoin, Zenon
  <2>8. P(1, 13) \o P(13, im) = P(1, im)
    BY <1>0, <2>0, PieceJoin, Zenon
  <2>9. P(1, im) \o P(im, om) = P(1, om)
    BY <1>0, <2>0, PieceJoin, Zenon
  <2>10. P(1, om) \o P(om, wm) = P(1, wm)
    BY <1>0, <2>0, PieceJoin, Zenon
  <2>11. P(1, wm) \o P(wm, wm + 4) = P(1, wm + 4)
    BY <1>0, <2>0, PieceJoin, Zenon
  <2> HIDE DEF P
  <2>12. PartialTx(t) = P(1, wm + 4)
    BY <2>4, <2>5, <2>6, <2>7, <2>8, <2>9, <2>10, <2>11, Zenon
  <2>13. /\ P(1, wm + 4) \in Text /\ Len(P(1, wm + 4)) = (wm + 4) - 1
    BY <1>0, <2>0, PieceText DEF P
  <2> DEFINE s == P(1, wm + 4)
  <2>14. SubSeq(s, 1, Len(s)) = s
    BY <2>13, SubSeqFull DEF Text
  <2>15. SubSeq(d.data, 1, Len(s)) = s
    BY <2>13 DEF P, Piece
  <2>16. Len(s) <= Len(d.data)
    BY <1>0, <2>0, <2>13
  <2> HIDE DEF s
  <2> QED  BY <2>12, <2>14, <2>15, <2>16 DEF s, IsPrefix
<1> QED  BY <1>10, <1>11, <1>15, <1>16, Zenon

-----------------------------------------------------------------------------
(* The lengths of what is written. *)

(* A function on 1 .. n is a sequence of that length. *)
LEMMA ListOf ==
  ASSUME NEW S, NEW n \in Nat, NEW f \in [1 .. n -> S]
  PROVE  f \in Seq(S) /\ Len(f) = n
OBVIOUS

(* The texts of the elements of a list, one behind the other. *)
LEMMA JoinedLen ==
  ASSUME NEW S, NEW n \in Nat, NEW texts \in [1 .. n -> Seq(S)],
         NEW numbers \in [1 .. n -> Nat],
         \A k \in 1 .. n : numbers[k] = Len(texts[k])
  PROVE  FlattenSeq(texts) \in Seq(S) /\ Len(FlattenSeq(texts)) = Total(numbers)
<1>1. texts \in Seq(Seq(S)) /\ Len(texts) = n
  BY ListOf
<1>2. Len(numbers) = n
  BY ListOf
<1>3. FlattenSeq(texts) \in Seq(S)
  BY <1>1, FlattenFacts
<1>4. Len(FlattenSeq(texts)) = Total(numbers)
  BY <1>1, <1>2, LenFlatten
<1> QED  BY <1>3, <1>4

(* gen_varint_len is the length of gen_varint. *)
LEMMA VarintLen ==
  ASSUME NEW S, Nat \subseteq S, NEW n \in Nat
  PROVE  gen_varint(n) \in Seq(S) /\ Len(gen_varint(n)) = gen_varint_len(n)
<1>1. CASE n < 253
  <2>1. gen_varint(n) = <<n>> /\ gen_varint_len(n) = 1
    BY <1>1, SMT DEF gen_varint, gen_varint_len
  <2> QED  BY <2>1
<1>2. CASE ~ (n < 253) /\ n <= 65535
  <2>1. gen_varint(n) = <<253, n % 256, n \div 256>> /\ gen_varint_len(n) = 3
    BY <1>2, SMT DEF gen_varint, gen_varint_len
  <2>2. n % 256 \in Nat /\ n \div 256 \in Nat /\ 253 \in Nat
    BY SMT
  <2>3. n % 256 \in S /\ n \div 256 \in S /\ 253 \in S
    BY <2>2
  <2> QED  BY <2>1, <2>3
<1>3. CASE ~ (n < 253) /\ ~ (n <= 65535)
  <2>1. /\ gen_varint(n) = <<254, n % 256, (n \div 256) % 256, (n \div 65536) % 256, 0>>
        /\ gen_varint_len(n) = 5
    BY <1>3, SMT DEF gen_varint, gen_varint_len
  <2>2. n % 256 \in Nat /\ (n \div 256) % 256 \in Nat /\ (n \div 65536) % 256 \in Nat
        /\ 254 \in Nat /\ 0 \in Nat
    BY SMT
  <2>3. n % 256 \in S /\ (n \div 256) % 256 \in S /\ (n \div 65536) % 256 \in S
        /\ 254 \in S /\ 0 \in S
    BY <2>2, SMT
  <2> QED  BY <2>1, <2>3, SMT
<1> QED  BY <1>1, <1>2, <1>3, SMT

(* A text behind its length. *)
LEMMA ItemLen ==
  ASSUME NEW S, Nat \subseteq S, NEW item \in Seq(S)
  PROVE  /\ serialize_single_op_item(item) \in Seq(S)
         /\ Len(serialize_single_op_item(item)) = get_single_op_item_hex_len(item)
         /\ Len(serialize_single_op_item(item)) = Len(item) + gen_varint_len(Len(item))
         /\ gen_varint_len(Len(item)) \in Nat
<1>1. Len(item) \in Nat
  BY LenProperties
<1>2. gen_varint(Len(item)) \in Seq(S) /\ Len(gen_varint(Len(item))) = gen_varint_len(Len(item))
  BY <1>1, VarintLen
<1>3. gen_varint_len(Len(item)) \in Nat
  BY <1>2, LenProperties
<1>4. /\ gen_varint(Len(item)) \o item \in Seq(S)
      /\ Len(gen_varint(Len(item)) \o item) = gen_varint_len(Len(item)) + Len(item)
  BY <1>2, ConcatProperties
<1> QED
  BY <1>1, <1>3, <1>4 DEF serialize_single_op_item, get_single_op_item_hex_len

-----------------------------------------------------------------------------
(* Transactions over any set of bytes: what is signed is not made of the   *)
(* bytes that were read alone.                                             *)
Fields(S, n) == {s \in Seq(S) : Len(s) = n}
InputsOver(S) == [outpoint : Fields(S, 36), script : Seq(S), sequence : Fields(S, 4)]
OutputsOver(S) == [value : Fields(S, 8), script : Seq(S)]

(* Three texts. *)
LEMMA Concat3 ==
  ASSUME NEW S, NEW a \in Seq(S), NEW b \in Seq(S), NEW c \in Seq(S)
  PROVE  (a \o b) \o c \in Seq(S) /\ Len((a \o b) \o c) = (Len(a) + Len(b)) + Len(c)
<1>1. a \o b \in Seq(S) /\ Len(a \o b) = Len(a) + Len(b)
  BY ConcatProperties
<1>2. PICK ab \in Seq(S) : ab = a \o b
  BY <1>1
<1>3. ab \o c \in Seq(S) /\ Len(ab \o c) = Len(ab) + Len(c)
  BY ConcatProperties
<1> QED  BY <1>1, <1>2, <1>3

(* What is counted of an input is what is written. *)
LEMMA InputLen ==
  ASSUME NEW S, Nat \subseteq S, NEW e \in InputsOver(S)
  PROVE  /\ serialize_single_input(e) \in Seq(S)
         /\ Len(serialize_single_input(e)) = get_single_input_hex_len(e)
<1>1. /\ e.outpoint \in Seq(S) /\ Len(e.outpoint) = 36 /\ e.script \in Seq(S)
      /\ e.sequence \in Seq(S) /\ Len(e.sequence) = 4
  BY DEF InputsOver, Fields
<1> DEFINE t == serialize_single_op_item(e.script)
<1>2. /\ t \in Seq(S) /\ Len(t) = Len(e.script) + gen_varint_len(Len(e.script))
      /\ gen_varint_len(Len(e.script)) \in Nat /\ Len(e.script) \in Nat
  BY <1>1, ItemLen, LenProperties
<1>3. serialize_single_input(e) = (e.outpoint \o t) \o e.sequence
  BY DEF serialize_single_input
<1> HIDE DEF t
<1>4. /\ (e.outpoint \o t) \o e.sequence \in Seq(S)
      /\ Len((e.outpoint \o t) \o e.sequence)
         = (Len(e.outpoint) + Len(t)) + Len(e.sequence)
  <2>1. \A a, b, c \in Seq(S) :
          (a \o b) \o c \in Seq(S) /\ Len((a \o b) \o c) = (Len(a) + Len(b)) + Len(c)
    BY Concat3
  <2>2. e.outpoint \in Seq(S) /\ t \in Seq(S) /\ e.sequence \in Seq(S)
    BY <1>1, <1>2
  <2> QED  BY <2>1, <2>2, Zenon
<1> QED  BY <1>1, <1>2, <1>3, <1>4 DEF get_single_input_hex_len

(* What is counted of an output is what is written. *)
LEMMA OutputLen ==
  ASSUME NEW S, Nat \subseteq S, NEW e \in OutputsOver(S)
  PROVE  /\ serialize_single_output(e) \in Seq(S)
         /\ Len(serialize_single_output(e)) = get_single_output_hex_len(e)
<1>1. e.value \in Seq(S) /\ Len(e.value) = 8 /\ e.script \in Seq(S)
  BY DEF OutputsOver, Fields
<1> DEFINE t == serialize_single_op_item(e.script)
<1>2. /\ t \in Seq(S) /\ Len(t) = Len(e.script) + gen_varint_len(Len(e.script))
      /\ gen_varint_len(Len(e.script)) \in Nat /\ Len(e.script) \in Nat
  BY <1>1, ItemLen, LenProperties
<1>3. serialize_single_output(e) = e.value \o t
  BY DEF serialize_single_output
<1> HIDE DEF t
<1>4. e.value \o t \in Seq(S) /\ Len(e.value \o t) = Len(e.value) + Len(t)
  BY <1>1, <1>2, ConcatProperties
<1> QED  BY <1>1, <1>2, <1>3, <1>4 DEF get_single_output_hex_len

(* What is counted of a witness is what is written. *)
LEMMA WitnessLen ==
  ASSUME NEW S, Nat \subseteq S, NEW w, w.items \in Seq(Seq(S))
  PROVE  /\ serialize_single_witness(w) \in Seq(S)
         /\ Len(serialize_single_witness(w)) = get_single_witness_hex_len(w)
<1> DEFINE l == w.items
           n == Len(l)
           texts == [k \in 1 .. n |-> serialize_single_op_item(l[k])]
           numbers == [k \in 1 .. n |-> get_single_op_item_hex_len(l[k])]
<1>1. n \in Nat /\ \A k \in 1 .. n : l[k] \in Seq(S)
  BY LenProperties, ElementOfSeq
<1> HIDE DEF l, n
<1>2. /\ texts \in [1 .. n -> Seq(S)] /\ numbers \in [1 .. n -> Nat]
      /\ \A k \in 1 .. n : numbers[k] = Len(texts[k])
  <2> SUFFICES ASSUME NEW k \in 1 .. n
               PROVE  /\ serialize_single_op_item(l[k]) \in Seq(S)
                      /\ get_single_op_item_hex_len(l[k]) \in Nat
                      /\ get_single_op_item_hex_len(l[k]) = Len(serialize_single_op_item(l[k]))
    BY Zenon
  <2>1. l[k] \in Seq(S)
    BY <1>1
  <2>2. /\ serialize_single_op_item(l[k]) \in Seq(S)
        /\ get_single_op_item_hex_len(l[k]) = Len(serialize_single_op_item(l[k]))
    BY <2>1, ItemLen
  <2> QED  BY <2>2, LenProperties
<1>3. /\ Joined(serialize_single_op_item, w.items) = FlattenSeq(texts)
      /\ SumOf(get_single_op_item_hex_len, w.items) = Total(numbers)
  BY DEF Joined, SumOf, l, n
<1> HIDE DEF texts, numbers
<1>4. FlattenSeq(texts) \in Seq(S) /\ Len(FlattenSeq(texts)) = Total(numbers)
  <2>1. \A x \in [1 .. n -> Seq(S)], y \in [1 .. n -> Nat] :
          (\A k \in 1 .. n : y[k] = Len(x[k])) =>
            FlattenSeq(x) \in Seq(S) /\ Len(FlattenSeq(x)) = Total(y)
    BY <1>1, JoinedLen
  <2> QED  BY <1>2, <2>1, Zenon
<1>5. gen_varint(n) \in Seq(S) /\ Len(gen_varint(n)) = gen_varint_len(n)
  BY <1>1, VarintLen
<1>6. /\ gen_varint(n) \o FlattenSeq(texts) \in Seq(S)
      /\ Len(gen_varint(n) \o FlattenSeq(texts)) = gen_varint_len(n) + Total(numbers)
  BY <1>4, <1>5, ConcatProperties
<1> QED
  BY <1>3, <1>6, Zenon DEF serialize_single_witness, get_single_witness_hex_len, n, l

(* What is counted of the inputs is what is written. *)
LEMMA InputsLen ==
  ASSUME NEW S, Nat \subseteq S, NEW l, l \in Seq(InputsOver(S))
  PROVE  /\ serialize_inputs(l) \in Seq(S)
         /\ Len(serialize_inputs(l)) = get_inputs_hex_len(l)
         /\ get_inputs_hex_len(l) \in Nat
<1> DEFINE n == Len(l)
           texts == [k \in 1 .. n |-> serialize_single_input(l[k])]
           numbers == [k \in 1 .. n |-> get_single_input_hex_len(l[k])]
<1>1. n \in Nat /\ \A k \in 1 .. n : l[k] \in InputsOver(S)
  BY LenProperties, ElementOfSeq
<1> HIDE DEF n
<1>2. /\ texts \in [1 .. n -> Seq(S)] /\ numbers \in [1 .. n -> Nat]
      /\ \A k \in 1 .. n : numbers[k] = Len(texts[k])
  <2> SUFFICES ASSUME NEW k \in 1 .. n
               PROVE  /\ serialize_single_input(l[k]) \in Seq(S)
                      /\ get_single_input_hex_len(l[k]) \in Nat
                      /\ get_single_input_hex_len(l[k]) = Len(serialize_single_input(l[k]))
    BY Zenon
  <2>1. l[k] \in InputsOver(S)
    BY <1>1
  <2>2. /\ serialize_single_input(l[k]) \in Seq(S)
        /\ get_single_input_hex_len(l[k]) = Len(serialize_single_input(l[k]))
    BY <2>1, InputLen
  <2> QED  BY <2>2, LenProperties
<1>3. /\ Joined(serialize_single_input, l) = FlattenSeq(texts)
      /\ SumOf(get_single_input_hex_len, l) = Total(numbers)
  BY DEF Joined, SumOf, n
<1> HIDE DEF texts, numbers
<1>4. FlattenSeq(texts) \in Seq(S) /\ Len(FlattenSeq(texts)) = Total(numbers)
  <2>1. \A x \in [1 .. n -> Seq(S)], y \in [1 .. n -> Nat] :
          (\A k \in 1 .. n : y[k] = Len(x[k])) =>
            FlattenSeq(x) \in Seq(S) /\ Len(FlattenSeq(x)) = Total(y)
    BY <1>1, JoinedLen
  <2> QED  BY <1>2, <2>1, Zenon
<1>5. gen_varint(n) \in Seq(S) /\ Len(gen_varint(n)) = gen_varint_len(n)
  BY <1>1, VarintLen
<1>6. /\ gen_varint(n) \o FlattenSeq(texts) \in Seq(S)
      /\ Len(gen_varint(n) \o FlattenSeq(texts)) = gen_varint_len(n) + Total(numbers)
  BY <1>4, <1>5, ConcatProperties
<1>7. serialize_inputs(l) \in Seq(S) /\ Len(serialize_inputs(l)) = get_inputs_hex_len(l)
  BY <1>3, <1>6, Zenon DEF serialize_inputs, get_inputs_hex_len, n
<1> QED  BY <1>7, LenProperties

(* What is counted of the outputs is what is written. *)
LEMMA OutputsLen ==
  ASSUME NEW S, Nat \subseteq S, NEW l, l \in Seq(OutputsOver(S))
  PROVE  /\ serialize_outputs(l) \in Seq(S)
         /\ Len(serialize_outputs(l)) = get_outputs_hex_len(l)
         /\ get_outputs_hex_len(l) \in Nat
<1> DEFINE n == Len(l)
           texts == [k \in 1 .. n |-> serialize_single_output(l[k])]
           numbers == [k \in 1 .. n |-> get_single_output_hex_len(l[k])]
<1>1. n \in Nat /\ \A k \in 1 .. n : l[k] \in OutputsOver(S)
  BY LenProperties, ElementOfSeq
<1> HIDE DEF n
<1>2. /\ texts \in [1 .. n -> Seq(S)] /\ numbers \in [1 .. n -> Nat]
      /\ \A k \in 1 .. n : numbers[k] = Len(texts[k])
  <2> SUFFICES ASSUME NEW k \in 1 .. n
               PROVE  /\ serialize_single_output(l[k]) \in Seq(S)
                      /\ get_single_output_hex_len(l[k]) \in Nat
                      /\ get_single_output_hex_len(l[k]) = Len(serialize_single_output(l[k]))
    BY Zenon
  <2>1. l[k] \in OutputsOver(S)
    BY <1>1
  <2>2. /\ serialize_single_output(l[k]) \in Seq(S)
        /\ get_single_output_hex_len(l[k]) = Len(serialize_single_output(l[k]))
    BY <2>1, OutputLen
  <2> QED  BY <2>2, LenProperties
<1>3. /\ Joined(serialize_single_output, l) = FlattenSeq(texts)
      /\ SumOf(get_single_output_hex_len, l) = Total(numbers)
  BY DEF Joined, SumOf, n
<1> HIDE DEF texts, numbers
<1>4. FlattenSeq(texts) \in Seq(S) /\ Len(FlattenSeq(texts)) = Total(numbers)
  <2>1. \A x \in [1 .. n -> Seq(S)], y \in [1 .. n -> Nat] :
          (\A k \in 1 .. n : y[k] = Len(x[k])) =>
            FlattenSeq(x) \in Seq(S) /\ Len(FlattenSeq(x)) = Total(y)
    BY <1>1, JoinedLen
  <2> QED  BY <1>2, <2>1, Zenon
<1>5. gen_varint(n) \in Seq(S) /\ Len(gen_varint(n)) = gen_varint_len(n)
  BY <1>1, VarintLen
<1>6. /\ gen_varint(n) \o FlattenSeq(texts) \in Seq(S)
      /\ Len(gen_varint(n) \o FlattenSeq(texts)) = gen_varint_len(n) + Total(numbers)
  BY <1>4, <1>5, ConcatProperties
<1>7. serialize_outputs(l) \in Seq(S) /\ Len(serialize_outputs(l)) = get_outputs_hex_len(l)
  BY <1>3, <1>6, Zenon DEF serialize_outputs, get_outputs_hex_len, n
<1> QED  BY <1>7, LenProperties

(* What is counted of the witnesses is what is written. *)
LEMMA WitnessesLen ==
  ASSUME NEW S, Nat \subseteq S, NEW l, Len(l) \in Nat, \A k \in 1 .. Len(l) : l[k].items \in Seq(Seq(S))
  PROVE  /\ serialize_witnesses(l) \in Seq(S)
         /\ Len(serialize_witnesses(l)) = get_witnesses_hex_len(l)
         /\ get_witnesses_hex_len(l) \in Nat
<1> DEFINE n == Len(l)
           texts == [k \in 1 .. n |-> serialize_single_witness(l[k])]
           numbers == [k \in 1 .. n |-> get_single_witness_hex_len(l[k])]
<1>1. n \in Nat /\ \A k \in 1 .. n : l[k].items \in Seq(Seq(S))
  OBVIOUS
<1> HIDE DEF n
<1>2. /\ texts \in [1 .. n -> Seq(S)] /\ numbers \in [1 .. n -> Nat]
      /\ \A k \in 1 .. n : numbers[k] = Len(texts[k])
  <2> SUFFICES ASSUME NEW k \in 1 .. n
               PROVE  /\ serialize_single_witness(l[k]) \in Seq(S)
                      /\ get_single_witness_hex_len(l[k]) \in Nat
                      /\ get_single_witness_hex_len(l[k]) = Len(serialize_single_witness(l[k]))
    BY Zenon
  <2>1. l[k].items \in Seq(Seq(S))
    BY <1>1
  <2>2. /\ serialize_single_witness(l[k]) \in Seq(S)
        /\ get_single_witness_hex_len(l[k]) = Len(serialize_single_witness(l[k]))
    BY <2>1, WitnessLen
  <2> QED  BY <2>2, LenProperties
<1>3. /\ Joined(serialize_single_witness, l) = FlattenSeq(texts)
      /\ SumOf(get_single_witness_hex_len, l) = Total(numbers)
  BY DEF Joined, SumOf, n
<1> HIDE DEF texts, numbers
<1>4. FlattenSeq(texts) \in Seq(S) /\ Len(FlattenSeq(texts)) = Total(numbers)
  <2>1. \A x \in [1 .. n -> Seq(S)], y \in [1 .. n -> Nat] :
          (\A k \in 1 .. n : y[k] = Len(x[k])) =>
            FlattenSeq(x) \in Seq(S) /\ Len(FlattenSeq(x)) = Total(y)
    BY <1>1, JoinedLen
  <2> QED  BY <1>2, <2>1, Zenon
<1>5. serialize_witnesses(l) \in Seq(S) /\ Len(serialize_witnesses(l)) = get_witnesses_hex_len(l)
  BY <1>3, <1>4, Zenon DEF serialize_witnesses, get_witnesses_hex_len
<1> QED  BY <1>5, LenProperties

(* Six texts. *)
LEMMA Concat6 ==
  ASSUME NEW S, NEW a \in Seq(S), NEW b \in Seq(S), NEW c \in Seq(S),
         NEW d \in Seq(S), NEW e \in Seq(S), NEW f \in Seq(S)
  PROVE  Len(((((a \o b) \o c) \o d) \o e) \o f)
         = ((((Len(a) + Len(b)) + Len(c)) + Len(d)) + Len(e)) + Len(f)
<1>1. \A x, y \in Seq(S) : x \o y \in Seq(S) /\ Len(x \o y) = Len(x) + Len(y)
  BY ConcatProperties
<1>2. a \o b \in Seq(S) /\ Len(a \o b) = Len(a) + Len(b)
  BY <1>1, Zenon
<1>3. (a \o b) \o c \in Seq(S) /\ Len((a \o b) \o c) = Len(a \o b) + Len(c)
  BY <1>1, <1>2, Zenon
<1>4. /\ ((a \o b) \o c) \o d \in Seq(S)
      /\ Len(((a \o b) \o c) \o d) = Len((a \o b) \o c) + Len(d)
  BY <1>1, <1>3, Zenon
<1>5. /\ (((a \o b) \o c) \o d) \o e \in Seq(S)
      /\ Len((((a \o b) \o c) \o d) \o e) = Len(((a \o b) \o c) \o d) + Len(e)
  BY <1>1, <1>4, Zenon
<1>6. Len(((((a \o b) \o c) \o d) \o e) \o f) = Len((((a \o b) \o c) \o d) \o e) + Len(f)
  BY <1>1, <1>5, Zenon
<1> QED  BY <1>2, <1>3, <1>4, <1>5, <1>6, Zenon

(* What get_tx_hex_len counts and what serialize_tx writes. *)
LEMMA TxLen ==
  ASSUME NEW S, Nat \subseteq S, NEW t,
         t.inputs \in Seq(InputsOver(S)), t.outputs \in Seq(OutputsOver(S)),
         Len(t.witnesses) \in Nat,
         \A k \in 1 .. Len(t.witnesses) : t.witnesses[k].items \in Seq(Seq(S)),
         t.nversion \in Fields(S, 4), t.lock_time \in Fields(S, 4),
         t.inputs # <<>>, t.outputs # <<>>, t.witnesses # <<>>
  PROVE  Len(serialize_tx(t)) = get_tx_hex_len(t)
<1> DEFINE I == serialize_inputs(t.inputs)
           O == serialize_outputs(t.outputs)
           W == serialize_witnesses(t.witnesses)
           V == t.nversion
           T == t.lock_time
           F == <<0, 1>>
<1>1. /\ I \in Seq(S) /\ Len(I) = get_inputs_hex_len(t.inputs)
      /\ get_inputs_hex_len(t.inputs) \in Nat
  BY InputsLen
<1>2. /\ O \in Seq(S) /\ Len(O) = get_outputs_hex_len(t.outputs)
      /\ get_outputs_hex_len(t.outputs) \in Nat
  BY OutputsLen
<1>3. /\ W \in Seq(S) /\ Len(W) = get_witnesses_hex_len(t.witnesses)
      /\ get_witnesses_hex_len(t.witnesses) \in Nat
  BY WitnessesLen
<1>4. V \in Seq(S) /\ Len(V) = 4 /\ T \in Seq(S) /\ Len(T) = 4
  BY DEF Fields
<1>5. F \in Seq(S) /\ Len(F) = 2
  <2>1. 0 \in S /\ 1 \in S
    OBVIOUS
  <2> QED  BY <2>1
<1>6. serialize_tx(t) = ((((V \o F) \o I) \o O) \o W) \o T
  BY DEF serialize_tx
<1>7. get_tx_hex_len(t) = 4 + 2 + get_inputs_hex_len(t.inputs)
        + get_outputs_hex_len(t.outputs) + get_witnesses_hex_len(t.witnesses) + 4
  BY DEF get_tx_hex_len
<1> HIDE DEF I, O, W, V, T, F
<1>8. Len(serialize_tx(t)) = ((((Len(V) + Len(F)) + Len(I)) + Len(O)) + Len(W)) + Len(T)
  <2>1. \A a, b, c, d, e, f \in Seq(S) :
          Len(((((a \o b) \o c) \o d) \o e) \o f)
          = ((((Len(a) + Len(b)) + Len(c)) + Len(d)) + Len(e)) + Len(f)
    BY Concat6
  <2>2. /\ V \in Seq(S) /\ F \in Seq(S) /\ I \in Seq(S) /\ O \in Seq(S) /\ W \in Seq(S)
        /\ T \in Seq(S)
    BY <1>1, <1>2, <1>3, <1>4, <1>5
  <2>3. Len(((((V \o F) \o I) \o O) \o W) \o T)
        = ((((Len(V) + Len(F)) + Len(I)) + Len(O)) + Len(W)) + Len(T)
    BY <2>1, <2>2
  <2> QED  BY <1>6, <2>3, Zenon
<1> QED  BY <1>1, <1>2, <1>3, <1>4, <1>5, <1>7, <1>8

-----------------------------------------------------------------------------
(* What is written, before it is known to be bytes. *)
Numbers == Seq(Nat)

(* Bytes are numbers. *)
LEMMA TextNumbers == Text \subseteq Numbers
<1>1. Byte \subseteq Nat
  BY DEF Byte
<1> QED  BY <1>1, SeqMonotonic DEF Text, Numbers

(* Two texts. *)
LEMMA NumberCat ==
  ASSUME NEW a \in Numbers, NEW b \in Numbers
  PROVE  /\ a \o b \in Numbers /\ Len(a) \in Nat /\ Len(b) \in Nat
         /\ Len(a \o b) = Len(a) + Len(b)
BY ConcatProperties, LenProperties DEF Numbers

(* A text behind its length. *)
LEMMA NumberItem ==
  ASSUME NEW item \in Numbers
  PROVE  LET t == serialize_single_op_item(item)
         IN  t \in Numbers /\ Len(t) \in Nat /\ Len(t) >= 1 /\ Len(t) >= Len(item)
<1>1. /\ serialize_single_op_item(item) \in Seq(Nat)
      /\ Len(serialize_single_op_item(item)) = Len(item) + gen_varint_len(Len(item))
  BY ItemLen DEF Numbers
<1>2. Len(item) \in Nat
  BY LenProperties DEF Numbers
<1>3. gen_varint_len(Len(item)) \in {1, 3, 5}
  BY DEF gen_varint_len
<1> QED  BY <1>1, <1>2, <1>3 DEF Numbers

(* Text s lies in data from position p on. *)
Lies(data, p, s) ==
  /\ p + Len(s) <= Len(data) + 1
  /\ \A j \in 1 .. Len(s) : data[p + j - 1] = s[j]

(* Of two texts, each lies where it must. *)
LEMMA LiesCat ==
  ASSUME NEW data \in Text, NEW p \in Nat \ {0}, NEW a \in Numbers, NEW b \in Numbers,
         Lies(data, p, a \o b)
  PROVE  Lies(data, p, a) /\ Lies(data, p + Len(a), b)
<1>1. /\ Len(a) \in Nat /\ Len(b) \in Nat /\ Len(data) \in Nat
      /\ Len(a \o b) = Len(a) + Len(b)
      /\ \A j \in 1 .. Len(a) : (a \o b)[j] = a[j]
      /\ \A j \in 1 .. Len(b) : (a \o b)[Len(a) + j] = b[j]
  BY DEF Text, Numbers
<1>2. Lies(data, p, a)
  <2>1. ASSUME NEW j \in 1 .. Len(a) PROVE data[p + j - 1] = a[j]
    <3>1. j \in 1 .. Len(a \o b)
      BY <1>1
    <3> QED  BY <1>1, <3>1 DEF Lies
  <2>2. p + Len(a) <= Len(data) + 1
    BY <1>1 DEF Lies
  <2> QED  BY <2>1, <2>2 DEF Lies
<1>3. Lies(data, p + Len(a), b)
  <2>1. ASSUME NEW j \in 1 .. Len(b) PROVE data[(p + Len(a)) + j - 1] = b[j]
    <3>1. Len(a) + j \in 1 .. Len(a \o b)
      BY <1>1
    <3>2. data[p + (Len(a) + j) - 1] = (a \o b)[Len(a) + j]
      BY <3>1 DEF Lies
    <3>3. p + (Len(a) + j) - 1 = (p + Len(a)) + j - 1
      BY <1>1
    <3> QED  BY <1>1, <3>2, <3>3
  <2>2. (p + Len(a)) + Len(b) <= Len(data) + 1
    BY <1>1 DEF Lies
  <2> QED  BY <2>1, <2>2 DEF Lies
<1> QED  BY <1>2, <1>3

(* What data begins with lies in it from the first position on. *)
LEMMA LiesFirst ==
  ASSUME NEW data \in Text, NEW s \in Numbers, IsPrefix(s, data)
  PROVE  Lies(data, 1, s)
<1>1. Len(s) \in Nat /\ Len(data) \in Nat /\ Len(s) <= Len(data)
  BY DEF IsPrefix, Text, Numbers
<1>2. ASSUME NEW j \in 1 .. Len(s) PROVE data[1 + j - 1] = s[j]
  <2>1. SubSeq(s, 1, Len(s)) = SubSeq(data, 1, Len(s))
    BY DEF IsPrefix
  <2>2. SubSeq(data, 1, Len(s))[j] = data[1 + j - 1]
    BY <1>1, InText
  <2>3. SubSeq(s, 1, Len(s)) = s
    BY DEF Numbers
  <2>4. 1 + j - 1 = j
    OBVIOUS
  <2> QED  BY <2>1, <2>2, <2>3, <2>4, Zenon
<1> QED  BY <1>1, <1>2 DEF Lies

(* Text s is what is read from position p on, as a field and byte by byte. *)
Stands(d, p, s) ==
  /\ Take(d, p, Len(s)) = s
  /\ \A j \in 1 .. Len(s) : At(d, p + j - 1) = s[j]

(* A field and a byte are read as they lie there. *)
LEMMA LiesTake ==
  ASSUME NEW d, IsDatum(d), NEW p \in Nat \ {0}, NEW s \in Numbers, Lies(d.data, p, s)
  PROVE  Stands(d, p, s)
<1>1. Len(s) \in Nat /\ Len(d.data) \in Nat /\ d.data \in Text
  BY DEF IsDatum, Text, Numbers
<1>2. p + Len(s) - 1 <= Len(d.data)
  BY <1>1 DEF Lies
<1>3. Take(d, p, Len(s)) = s
  <2> DEFINE t == Take(d, p, Len(s))
  <2>1. t = SubSeq(d.data, p, p + Len(s) - 1) /\ t \in Text /\ Len(t) = Len(s)
    BY <1>1, <1>2, TakeText
  <2>2. ASSUME NEW j \in 1 .. Len(s) PROVE t[j] = s[j]
    <3>1. p + Len(s) - 1 \in Int /\ j \in 1 .. (p + Len(s) - 1) - p + 1
      BY <1>1
    <3>2. SubSeq(d.data, p, p + Len(s) - 1)[j] = d.data[p + j - 1]
      BY <1>1, <1>2, <3>1, InText
    <3> QED  BY <2>1, <3>2 DEF Lies
  <2>3. t \in Seq(Nat) /\ s \in Seq(Nat) /\ Len(t) = Len(s)
    BY <2>1, TextNumbers DEF Numbers
  <2> HIDE DEF t
  <2>4. t = s
    BY <2>2, <2>3, SeqEqual
  <2> QED  BY <2>4 DEF t
<1>4. ASSUME NEW j \in 1 .. Len(s) PROVE At(d, p + j - 1) = s[j]
  <2>1. p + j - 1 \in Nat \ {0} /\ p + j - 1 <= Len(d.data)
    BY <1>1, <1>2
  <2>2. At(d, p + j - 1) = d.data[p + j - 1]
    BY <2>1, AtByte
  <2> QED  BY <2>2 DEF Lies
<1> QED  BY <1>3, <1>4 DEF Stands

-----------------------------------------------------------------------------
(* Integers, read back. *)

(* The two bytes of an integer give it back. *)
LEMMA TwoBack ==
  ASSUME NEW n \in Nat, n <= 65535
  PROVE  TwoBytes(n % 256, n \div 256) = n
BY SMT DEF TwoBytes

(* So do its four. *)
LEMMA FourBack ==
  ASSUME NEW n \in Nat, 65535 < n, n < Huge
  PROVE  ThreeBytes(n % 256, (n \div 256) % 256, (n \div 65536) % 256) = n
<1>1. (n \div 65536) % 256 = n \div 65536
  BY SMT DEF Huge
<1>2. n \div 65536 = (n \div 256) \div 256
  BY SMT DEF Huge
<1>3. n = 256 * (n \div 256) + (n % 256)
  BY SMT DEF Huge
<1>4. n \div 256 = 256 * ((n \div 256) \div 256) + ((n \div 256) % 256)
  BY SMT DEF Huge
<1> QED  BY <1>1, <1>2, <1>3, <1>4, SMT DEF ThreeBytes, Huge

(* A count or a length is read as it was written. *)
VarintAt(d, p, n) ==
  LET more == read_varint_len(At(d, p))
  IN  /\ n = IF more = 0 THEN At(d, p) ELSE read_varint(d, p + 1, more)
      /\ more \in {0, 2, 4} /\ 1 + more = gen_varint_len(n)

LEMMA VarintBack ==
  ASSUME NEW d, IsDatum(d), NEW p \in Nat \ {0}, NEW n \in Nat, n < Huge,
         Lies(d.data, p, gen_varint(n))
  PROVE  VarintAt(d, p, n)
<1>1. gen_varint(n) \in Numbers
  BY VarintLen DEF Numbers
<1>2. \A j \in 1 .. Len(gen_varint(n)) : At(d, p + j - 1) = gen_varint(n)[j]
  BY <1>1, LiesTake DEF Stands
<1>3. CASE n < 253
  <2>1. gen_varint(n) = <<n>> /\ gen_varint_len(n) = 1
    BY <1>3, SMT DEF gen_varint, gen_varint_len
  <2>2. At(d, p) = n
    <3>1. 1 \in 1 .. Len(<<n>>) /\ p + 1 - 1 = p /\ <<n>>[1] = n
      OBVIOUS
    <3> QED  BY <1>2, <2>1, <3>1
  <2>3. read_varint_len(n) = 0
    BY <1>3 DEF read_varint_len
  <2> QED  BY <2>1, <2>2, <2>3 DEF VarintAt
<1>4. CASE ~ (n < 253) /\ n <= 65535
  <2>1. gen_varint(n) = <<253, n % 256, n \div 256>> /\ gen_varint_len(n) = 3
    BY <1>4, SMT DEF gen_varint, gen_varint_len
  <2>2. At(d, p) = 253 /\ At(d, p + 1) = n % 256 /\ At(d, p + 2) = n \div 256
    <3> DEFINE g == <<253, n % 256, n \div 256>>
    <3>1. {1, 2, 3} \subseteq 1 .. Len(g) /\ p + 1 - 1 = p /\ p + 2 - 1 = p + 1 /\ p + 3 - 1 = p + 2
          /\ g[1] = 253 /\ g[2] = n % 256 /\ g[3] = n \div 256
      OBVIOUS
    <3>2. \A j \in 1 .. Len(g) : At(d, p + j - 1) = g[j]
      BY <1>2, <2>1
    <3> HIDE DEF g
    <3> QED  BY <3>1, <3>2
  <2>3. Little(d, p + 1, 2) = n
    <3>1. Little(d, p + 1, 2) = TwoBytes(At(d, p + 1), At(d, (p + 1) + 1))
      BY LittleTwo
    <3>2. (p + 1) + 1 = p + 2
      OBVIOUS
    <3>3. TwoBytes(n % 256, n \div 256) = n
      BY <1>4, TwoBack
    <3> QED  BY <2>2, <3>1, <3>2, <3>3
  <2>4. read_varint(d, p + 1, 2) = n
    <3>1. read_varint(d, p + 1, 2) = Minimal(2, Little(d, p + 1, 2))
      BY DEF read_varint
    <3>2. Minimal(2, n) = n
      BY <1>4 DEF Minimal
    <3> QED  BY <2>3, <3>1, <3>2
  <2>5. read_varint_len(253) = 2
    BY DEF read_varint_len
  <2> QED  BY <2>1, <2>2, <2>4, <2>5 DEF VarintAt
<1>5. CASE ~ (n < 253) /\ ~ (n <= 65535)
  <2>1. /\ gen_varint(n) = <<254, n % 256, (n \div 256) % 256, (n \div 65536) % 256, 0>>
        /\ gen_varint_len(n) = 5
    BY <1>5, SMT DEF gen_varint, gen_varint_len
  <2>2. At(d, p) = 254 /\ At(d, p + 1) = n % 256 /\ At(d, p + 2) = (n \div 256) % 256
        /\ At(d, p + 3) = (n \div 65536) % 256 /\ At(d, p + 4) = 0
    <3> DEFINE g == <<254, n % 256, (n \div 256) % 256, (n \div 65536) % 256, 0>>
    <3>1. /\ 1 \in 1 .. Len(g) /\ 2 \in 1 .. Len(g) /\ 3 \in 1 .. Len(g)
          /\ 4 \in 1 .. Len(g) /\ 5 \in 1 .. Len(g)
          /\ p + 1 - 1 = p /\ p + 2 - 1 = p + 1 /\ p + 3 - 1 = p + 2
          /\ p + 4 - 1 = p + 3 /\ p + 5 - 1 = p + 4
          /\ g[1] = 254 /\ g[2] = n % 256 /\ g[3] = (n \div 256) % 256
          /\ g[4] = (n \div 65536) % 256 /\ g[5] = 0
      OBVIOUS
    <3>2. \A j \in 1 .. Len(g) : At(d, p + j - 1) = g[j]
      BY <1>2, <2>1
    <3> HIDE DEF g
    <3>3. /\ At(d, p + 1 - 1) = g[1] /\ At(d, p + 2 - 1) = g[2]
          /\ At(d, p + 3 - 1) = g[3] /\ At(d, p + 4 - 1) = g[4]
          /\ At(d, p + 5 - 1) = g[5]
      <4>1. /\ 1 \in 1 .. Len(g) /\ 2 \in 1 .. Len(g) /\ 3 \in 1 .. Len(g)
            /\ 4 \in 1 .. Len(g) /\ 5 \in 1 .. Len(g)
        BY <3>1
      <4> QED  BY <3>2, <4>1
    <3> QED  BY <3>1, <3>3
  <2>3. Little(d, p + 1, 4) = n
    <3>1. Little(d, p + 1, 4) = IF At(d, (p + 1) + 3) # 0 THEN Huge
            ELSE ThreeBytes(At(d, p + 1), At(d, (p + 1) + 1), At(d, (p + 1) + 2))
      BY LittleFour
    <3>2. (p + 1) + 1 = p + 2 /\ (p + 1) + 2 = p + 3 /\ (p + 1) + 3 = p + 4
      OBVIOUS
    <3>3. 65535 < n
      BY <1>5
    <3> QED  BY <2>2, <3>1, <3>2, <3>3, FourBack
  <2>4. read_varint(d, p + 1, 4) = n
    <3>1. read_varint(d, p + 1, 4) = Minimal(4, Little(d, p + 1, 4))
      BY DEF read_varint
    <3>2. Minimal(4, n) = n
      BY <1>5 DEF Minimal
    <3> QED  BY <2>3, <3>1, <3>2
  <2>5. read_varint_len(254) = 4
    BY DEF read_varint_len
  <2> QED  BY <2>1, <2>2, <2>4, <2>5 DEF VarintAt
<1> QED  BY <1>3, <1>4, <1>5

-----------------------------------------------------------------------------
(* What the ground writes is read back, one element at a time. *)

(* A length and so many bytes. *)
LEMMA SizedBack ==
  ASSUME NEW d, IsDatum(d), NEW p \in Nat \ {0}, NEW item \in Numbers,
         Lies(d.data, p, serialize_single_op_item(item))
  PROVE  Sized(d, p) = Read(item, p + Len(serialize_single_op_item(item)))
<1> DEFINE n == Len(item)
           g == gen_varint(n)
           more == read_varint_len(At(d, p))
           size == IF more = 0 THEN At(d, p)
                   ELSE read_varint(d, p + 1, IF more = 8 THEN 2 ELSE more)
<1>1. /\ n \in Nat /\ g \in Numbers /\ Len(g) = gen_varint_len(n)
      /\ serialize_single_op_item(item) = g \o item
      /\ Len(serialize_single_op_item(item)) = n + gen_varint_len(n)
      /\ gen_varint_len(n) \in Nat
  <2>1. n \in Nat
    BY DEF Numbers
  <2>2. g \in Numbers /\ Len(g) = gen_varint_len(n)
    BY <2>1, VarintLen DEF Numbers
  <2>3. Len(serialize_single_op_item(item)) = n + gen_varint_len(n) /\ gen_varint_len(n) \in Nat
    BY ItemLen DEF Numbers
  <2> QED  BY <2>1, <2>2, <2>3 DEF serialize_single_op_item
<1>2. Len(d.data) \in Nat /\ d.data \in Text /\ Len(d.data) < Huge
  BY DEF IsDatum, Text
<1> HIDE DEF g, n
<1>3. Lies(d.data, p, g) /\ Lies(d.data, p + Len(g), item)
  <2>1. Lies(d.data, p, g \o item)
    BY <1>1
  <2> QED  BY <1>1, <1>2, <2>1, LiesCat
<1>4. n < Huge
  <2>1. p + gen_varint_len(n) + n <= Len(d.data) + 1
    BY <1>1, <1>3 DEF Lies, n
  <2> HIDE DEF n
  <2>2. n <= Len(d.data)
    BY <1>1, <1>2, <2>1
  <2>3. Huge \in Nat
    BY SMT DEF Huge
  <2> QED  BY <1>1, <1>2, <2>2, <2>3
<1>5. VarintAt(d, p, n)
  BY <1>1, <1>3, <1>4, VarintBack DEF g
<1>6. n = size /\ p + 1 + more = p + gen_varint_len(n) /\ 1 + more = gen_varint_len(n)
  BY <1>5 DEF VarintAt
<1>7. Sized(d, p) = Bytes(d, p + 1 + more, size)
  BY DEF Sized
<1> HIDE DEF size, more
<1>8. Sized(d, p) = Bytes(d, p + gen_varint_len(n), n)
  BY <1>6, <1>7
<1>9. n # NotMinimal
  BY <1>1 DEF NotMinimal
<1>10. Sized(d, p) = Read(Take(d, p + gen_varint_len(n), n), (p + gen_varint_len(n)) + n)
  BY <1>8, <1>9 DEF Bytes
<1>11. Take(d, p + gen_varint_len(n), n) = item
  <2>1. p + gen_varint_len(n) \in Nat \ {0} /\ Lies(d.data, p + gen_varint_len(n), item)
    BY <1>1, <1>3
  <2>2. Stands(d, p + gen_varint_len(n), item)
    BY <2>1, LiesTake
  <2> QED  BY <2>2 DEF Stands, n
<1>12. (p + gen_varint_len(n)) + n = p + (n + gen_varint_len(n))
  BY <1>1
<1> QED  BY <1>1, <1>10, <1>11, <1>12

(* An input. *)
LEMMA InputBack ==
  ASSUME NEW d, IsDatum(d), NEW p \in Nat \ {0}, NEW e \in InputsOver(Nat),
         Lies(d.data, p, serialize_single_input(e))
  PROVE  get_single_input(d, p) = Read(e, p + Len(serialize_single_input(e)))
<1> DEFINE t == serialize_single_op_item(e.script)
<1>1. /\ e.outpoint \in Numbers /\ Len(e.outpoint) = 36 /\ e.script \in Numbers
      /\ e.sequence \in Numbers /\ Len(e.sequence) = 4
      /\ e = [outpoint |-> e.outpoint, script |-> e.script, sequence |-> e.sequence]
  BY DEF InputsOver, Fields, Numbers
<1>2. t \in Numbers /\ Len(t) \in Nat
  BY <1>1, NumberItem
<1>3. serialize_single_input(e) = (e.outpoint \o t) \o e.sequence
  BY DEF serialize_single_input
<1>4. d.data \in Text
  BY DEF IsDatum
<1> HIDE DEF t
<1>5. /\ e.outpoint \o t \in Numbers /\ Len(e.outpoint \o t) = 36 + Len(t)
      /\ Len((e.outpoint \o t) \o e.sequence) = (36 + Len(t)) + 4
  <2>1. PICK a \in Numbers : a = e.outpoint /\ Len(a) = 36
    BY <1>1
  <2>2. PICK b \in Numbers : b = e.sequence /\ Len(b) = 4
    BY <1>1
  <2>3. a \o t \in Numbers /\ Len(a \o t) = Len(a) + Len(t)
    BY <1>2, <2>1, NumberCat, Zenon
  <2>4. Len((a \o t) \o b) = Len(a \o t) + Len(b)
    BY <2>2, <2>3, NumberCat, Zenon
  <2> QED  BY <2>1, <2>2, <2>3, <2>4, Zenon
<1>6. /\ Lies(d.data, p, e.outpoint) /\ Lies(d.data, p + 36, t)
      /\ Lies(d.data, p + (36 + Len(t)), e.sequence)
  <2>1. Lies(d.data, p, e.outpoint \o t) /\ Lies(d.data, p + Len(e.outpoint \o t), e.sequence)
    <3> DEFINE a == e.outpoint \o t
    <3>1. a \in Numbers /\ e.sequence \in Numbers /\ Lies(d.data, p, a \o e.sequence)
      BY <1>1, <1>3, <1>5
    <3> HIDE DEF a
    <3>2. Lies(d.data, p, a) /\ Lies(d.data, p + Len(a), e.sequence)
      BY <1>4, <3>1, LiesCat
    <3> QED  BY <3>2 DEF a
  <2>2. PICK a \in Numbers : a = e.outpoint /\ Len(a) = 36 /\ Lies(d.data, p, a \o t)
    BY <1>1, <2>1
  <2>3. Lies(d.data, p, a) /\ Lies(d.data, p + Len(a), t)
    BY <1>2, <1>4, <2>2, LiesCat
  <2> QED  BY <1>5, <2>1, <2>2, <2>3
<1>7. Sized(d, p + 36) = Read(e.script, (p + 36) + Len(t))
  <2>1. p + 36 \in Nat \ {0}
    OBVIOUS
  <2> QED  BY <1>1, <1>6, <2>1, SizedBack DEF t
<1>8. PICK q \in Nat \ {0} : q = (p + 36) + Len(t) /\ q = p + (36 + Len(t))
  BY <1>2
<1>9. get_single_input(d, p)
      = Read([outpoint |-> Take(d, p, 36), script |-> e.script,
              sequence |-> Take(d, q, 4)], q + 4)
  <2>1. Sized(d, p + 36).ok /\ Sized(d, p + 36).val = e.script /\ Sized(d, p + 36).next = q
    BY <1>7, <1>8, ReadFields
  <2>2. get_single_input(d, p) = InputWith(d, p, Sized(d, p + 36))
    BY DEF get_single_input
  <2> QED  BY <2>1, <2>2 DEF InputWith
<1>10. Take(d, p, 36) = e.outpoint /\ Take(d, q, 4) = e.sequence
  <2>1. PICK a \in Numbers, b \in Numbers :
          /\ a = e.outpoint /\ Len(a) = 36 /\ Lies(d.data, p, a)
          /\ b = e.sequence /\ Len(b) = 4 /\ Lies(d.data, q, b)
    BY <1>1, <1>6, <1>8
  <2>2. Stands(d, p, a) /\ Stands(d, q, b)
    BY <2>1, LiesTake
  <2>3. Take(d, p, Len(a)) = a /\ Take(d, q, Len(b)) = b
    BY <2>2 DEF Stands
  <2> QED  BY <2>1, <2>3
<1>11. q + 4 = p + ((36 + Len(t)) + 4)
  BY <1>2, <1>8
<1> QED  BY <1>1, <1>3, <1>5, <1>9, <1>10, <1>11

(* An output. *)
LEMMA OutputBack ==
  ASSUME NEW d, IsDatum(d), NEW p \in Nat \ {0}, NEW e \in OutputsOver(Nat),
         Lies(d.data, p, serialize_single_output(e))
  PROVE  get_single_output(d, p) = Read(e, p + Len(serialize_single_output(e)))
<1> DEFINE t == serialize_single_op_item(e.script)
<1>1. /\ e.value \in Numbers /\ Len(e.value) = 8 /\ e.script \in Numbers
      /\ e = [value |-> e.value, script |-> e.script]
  BY DEF OutputsOver, Fields, Numbers
<1>2. t \in Numbers /\ Len(t) \in Nat
  BY <1>1, NumberItem
<1>3. serialize_single_output(e) = e.value \o t
  BY DEF serialize_single_output
<1>4. d.data \in Text
  BY DEF IsDatum
<1> HIDE DEF t
<1>5. Len(e.value \o t) = 8 + Len(t)
  BY <1>1, <1>2, NumberCat
<1>6. Lies(d.data, p, e.value) /\ Lies(d.data, p + 8, t)
  <2>1. PICK a \in Numbers : a = e.value /\ Len(a) = 8 /\ Lies(d.data, p, a \o t)
    BY <1>1, <1>3
  <2>2. Lies(d.data, p, a) /\ Lies(d.data, p + Len(a), t)
    BY <1>2, <1>4, <2>1, LiesCat
  <2> QED  BY <2>1, <2>2
<1>7. Sized(d, p + 8) = Read(e.script, (p + 8) + Len(t))
  <2>1. p + 8 \in Nat \ {0}
    OBVIOUS
  <2> QED  BY <1>1, <1>6, <2>1, SizedBack DEF t
<1>8. get_single_output(d, p)
      = Read([value |-> Take(d, p, 8), script |-> e.script], (p + 8) + Len(t))
  <2>1. /\ Sized(d, p + 8).ok /\ Sized(d, p + 8).val = e.script
        /\ Sized(d, p + 8).next = (p + 8) + Len(t)
    BY <1>7, ReadFields
  <2>2. get_single_output(d, p) = OutputWith(d, p, Sized(d, p + 8))
    BY DEF get_single_output
  <2> QED  BY <2>1, <2>2 DEF OutputWith
<1>9. Take(d, p, 8) = e.value
  <2>1. PICK a \in Numbers : a = e.value /\ Len(a) = 8 /\ Lies(d.data, p, a)
    BY <1>1, <1>6
  <2>2. Stands(d, p, a)
    BY <2>1, LiesTake
  <2>3. Take(d, p, Len(a)) = a
    BY <2>2 DEF Stands
  <2> QED  BY <2>1, <2>3
<1>10. (p + 8) + Len(t) = p + (8 + Len(t))
  BY <1>2
<1> QED  BY <1>1, <1>3, <1>5, <1>8, <1>9, <1>10


-----------------------------------------------------------------------------
(* Lists that are read back. *)

(* When the concatenation of texts lies in data, every one of them does,   *)
(* behind the ones before it.                                              *)
LEMMA FlatLies ==
  ASSUME NEW data \in Text, NEW p \in Nat \ {0}, NEW texts \in Seq(Numbers), NEW f,
         IsFlat(f, texts, Nat, Len(texts)), Lies(data, p, FlattenSeq(texts))
  PROVE  \A k \in 1 .. Len(texts) : Lies(data, p + Len(f[k - 1]), texts[k])
<1> DEFINE n == Len(texts)
           N == {m \in Nat : m <= n => Lies(data, p, f[n - m])}
<1>1. n \in Nat
  BY LenProperties
<1>2. /\ \A k \in 0 .. n : f[k] \in Numbers
      /\ \A k \in 1 .. n : f[k] = f[k - 1] \o texts[k] /\ texts[k] \in Numbers
  BY ElementOfSeq DEF IsFlat, Numbers
<1>3. FlattenSeq(texts) = f[n]
  BY FlattenIs DEF Numbers
<1>4. ASSUME NEW k \in 1 .. n, Lies(data, p, f[k])
      PROVE  Lies(data, p, f[k - 1]) /\ Lies(data, p + Len(f[k - 1]), texts[k])
  <2>1. k - 1 \in 0 .. n
    BY <1>1
  <2>2. f[k - 1] \in Numbers /\ texts[k] \in Numbers /\ f[k] = f[k - 1] \o texts[k]
    BY <1>2, <2>1
  <2>3. PICK a \in Numbers, b \in Numbers : a = f[k - 1] /\ b = texts[k]
    BY <2>2
  <2>4. Lies(data, p, a \o b)
    BY <1>4, <2>2, <2>3
  <2>5. Lies(data, p, a) /\ Lies(data, p + Len(a), b)
    BY <2>4, LiesCat
  <2> QED  BY <2>3, <2>5
<1> HIDE DEF n
<1>5. 0 \in N
  BY <1>1, <1>3
<1>6. ASSUME NEW m \in Nat, m \in N PROVE m + 1 \in N
  <2> SUFFICES ASSUME m + 1 <= n PROVE Lies(data, p, f[n - (m + 1)])
    OBVIOUS
  <2>1. n - m \in 1 .. n /\ (n - m) - 1 = n - (m + 1) /\ m <= n
    BY <1>1
  <2>2. Lies(data, p, f[n - m])
    BY <1>6, <2>1
  <2> HIDE DEF N
  <2> QED  BY <1>4, <2>1, <2>2
<1> HIDE DEF N
<1>7. Nat \subseteq N
  BY <1>5, <1>6, Induction
<1>8. ASSUME NEW k \in 1 .. n PROVE Lies(data, p, f[k])
  <2>1. n - k \in Nat /\ n - k <= n /\ n - (n - k) = k
    BY <1>1
  <2> QED  BY <1>7, <2>1 DEF N
<1> QED  BY <1>4, <1>8 DEF n

(* Wherever the text lies, the value is read from there. *)
ReadsBack(at, data, text, val) ==
  /\ Len(text) > 0
  /\ \A q \in 1 .. Len(data) :
       Lies(data, q, text) => at[q] = Read(val, q + Len(text))

(* A list is read back when every element of it is. *)
LEMMA ReadFromBack ==
  ASSUME NEW data \in Text, NEW V, NEW at, DOMAIN at = 1 .. Len(data),
         NEW p \in Nat \ {0}, NEW texts \in Seq(Numbers),
         NEW v \in Seq(V), Len(v) = Len(texts),
         \A j \in 1 .. Len(texts) : ReadsBack(at, data, texts[j], v[j]),
         Lies(data, p, FlattenSeq(texts))
  PROVE  ReadFrom(at, p, Len(texts)) = Read(v, p + Len(FlattenSeq(texts)))
<1> DEFINE n == Len(texts)
           R(g) == Reads(at, p, n, g)
           read == CHOOSE g : g = R(g)
<1>0. n \in Nat /\ Len(data) \in Nat
  BY LenProperties DEF Text
<1>1. ReadFrom(at, p, n) = read[n]
  BY DEF ReadFrom, Reads
<1> HIDE DEF n
<1>2. ASSUME NEW g
      PROVE  /\ R(g)[0] = Read(<<>>, p)
             /\ \A k \in 1 .. n : R(g)[k] = ExtendedFrom(at, g[k - 1])
  <2>1. 0 \in 0 .. n
    BY <1>0
  <2>2. ASSUME NEW k \in 1 .. n PROVE R(g)[k] = ExtendedFrom(at, g[k - 1])
    <3>1. k \in 0 .. n /\ k # 0
      BY <1>0
    <3> QED  BY <3>1 DEF Reads
  <2> QED  BY <2>1, <2>2 DEF Reads
<1>3. read = R(read)
  <2>1. \E g : g = R(g)
    BY <1>0, ReadExists, Zenon
  <2> HIDE DEF R
  <2> QED  BY <2>1
<1> HIDE DEF R, read
<1>4. PICK f : IsFlat(f, texts, Nat, n)
  BY FlatExists DEF Numbers, n
<1>5. \A k \in 1 .. n : Lies(data, p + Len(f[k - 1]), texts[k])
  BY <1>4, FlatLies DEF n
<1>6. FlattenSeq(texts) = f[n]
  BY <1>4, FlattenIs DEF n, Numbers
<1>7. /\ f[0] = <<>>
      /\ \A k \in 0 .. n : f[k] \in Numbers /\ Len(f[k]) \in Nat
      /\ \A k \in 1 .. n : f[k] = f[k - 1] \o texts[k]
      /\ \A k \in 1 .. n : texts[k] \in Numbers /\ Len(texts[k]) \in Nat
  BY <1>4, ElementOfSeq, LenProperties DEF IsFlat, Numbers, n
<1> DEFINE P(k) == read[k] = Read(SubSeq(v, 1, k), p + Len(f[k]))
           N == {k \in Nat : k <= n => P(k)}
<1>8. 0 \in N
  <2>1. read[0] = Read(<<>>, p)
    <3>1. R(read)[0] = Read(<<>>, p)
      BY <1>2
    <3> QED  BY <1>3, <3>1, Zenon
  <2>2. SubSeq(v, 1, 0) = <<>>
    BY SubSeqEmpty
  <2>3. p + Len(f[0]) = p
    BY <1>7
  <2> QED  BY <2>1, <2>2, <2>3
<1>9. ASSUME NEW k \in Nat, k \in N PROVE k + 1 \in N
  <2> SUFFICES ASSUME k + 1 <= n PROVE P(k + 1)
    OBVIOUS
  <2>1. k + 1 \in 1 .. n /\ (k + 1) - 1 = k /\ k <= n /\ k \in 0 .. n /\ k + 1 \in 0 .. n
    BY <1>0
  <2>2. read[k + 1] = ExtendedFrom(at, read[k])
    <3>1. R(read)[k + 1] = ExtendedFrom(at, read[k])
      BY <1>2, <2>1
    <3> QED  BY <1>3, <3>1, Zenon
  <2>3. P(k)
    <3> HIDE DEF P
    <3> QED  BY <1>9, <2>1
  <2> DEFINE q == p + Len(f[k])
             t == texts[k + 1]
  <2>4. Lies(data, q, t) /\ t \in Numbers /\ Len(t) \in Nat /\ Len(f[k]) \in Nat /\ f[k] \in Numbers
    BY <1>5, <1>7, <2>1
  <2>20. ReadsBack(at, data, t, v[k + 1])
    BY <2>1 DEF n
  <2>5. Len(t) > 0
    BY <2>20 DEF ReadsBack
  <2>6. q \in Nat \ {0}
    BY <2>4
  <2>7. Len(f[k + 1]) = Len(f[k]) + Len(t)
    <3>1. f[k + 1] = f[k] \o t
      BY <1>7, <2>1
    <3> QED  BY <2>4, <3>1, NumberCat
  <2>8. q + Len(t) = p + Len(f[k + 1])
    <3>1. PICK a \in Nat, b \in Nat : a = Len(f[k]) /\ b = Len(t)
      BY <2>4
    <3>2. (p + a) + b = p + (a + b)
      OBVIOUS
    <3>3. q = p + a
      BY <3>1
    <3> HIDE DEF q, t
    <3> QED  BY <2>7, <3>1, <3>2, <3>3
  <2>9. \A j \in 1 .. Len(data) : Lies(data, j, t) => at[j] = Read(v[k + 1], j + Len(t))
    BY <2>20 DEF ReadsBack
  <2>10. read[k].ok /\ read[k].val = SubSeq(v, 1, k) /\ read[k].next = q
    <3>1. read[k] = Read(SubSeq(v, 1, k), q)
      BY <2>3
    <3> HIDE DEF q
    <3>2. PICK s : s = SubSeq(v, 1, k)
      OBVIOUS
    <3>3. /\ Read(s, q).ok /\ Read(s, q).val = s /\ Read(s, q).next = q
      BY ReadFields
    <3>4. read[k] = Read(s, q)
      BY <3>1, <3>2
    <3> QED  BY <3>2, <3>3, <3>4
  <2> HIDE DEF q, t
  <2>14. q \in 1 .. Len(data)
    BY <1>0, <2>4, <2>5, <2>6 DEF Lies
  <2>15. at[q] = Read(v[k + 1], q + Len(t))
    BY <2>4, <2>9, <2>14
  <2>11. at[q].ok /\ at[q].val = v[k + 1] /\ at[q].next = p + Len(f[k + 1])
    BY <2>8, <2>15, ReadFields
  <2>12. ExtendedFrom(at, read[k])
         = Read(Append(SubSeq(v, 1, k), v[k + 1]), p + Len(f[k + 1]))
    BY <2>14, <2>10, <2>11 DEF ExtendedFrom, Extended
  <2>13. Append(SubSeq(v, 1, k), v[k + 1]) = SubSeq(v, 1, k + 1)
    <3>1. Len(v) = n /\ v \in Seq(V)
      BY DEF n
    <3> QED  BY <1>0, <2>1, <3>1
  <2> QED  BY <2>2, <2>12, <2>13
<1> HIDE DEF N
<1>10. Nat \subseteq N
  BY <1>8, <1>9, Induction
<1>11. P(n)
  <2> HIDE DEF P
  <2> QED  BY <1>0, <1>10 DEF N
<1>12. SubSeq(v, 1, n) = v
  BY DEF n
<1> QED  BY <1>1, <1>6, <1>11, <1>12 DEF n

(* The values v stand in data from p on, each as its text, and at reads each *)
(* of them back.                                                           *)
AllBack(data, V, at, p, texts, v) ==
  /\ data \in Text /\ DOMAIN at = 1 .. Len(data) /\ p \in Nat \ {0}
  /\ texts \in Seq(Numbers) /\ v \in Seq(V) /\ Len(v) = Len(texts)
  /\ \A j \in 1 .. Len(texts) : ReadsBack(at, data, texts[j], v[j])
  /\ Lies(data, p, FlattenSeq(texts))

(* Such values are read back as a list. *)
LEMMA ListBack ==
  ASSUME NEW data, NEW V, NEW at, NEW p, NEW texts, NEW v, AllBack(data, V, at, p, texts, v)
  PROVE  ReadFrom(at, p, Len(texts)) = Read(v, p + Len(FlattenSeq(texts)))
<1>1. /\ data \in Text /\ DOMAIN at = 1 .. Len(data) /\ p \in Nat \ {0}
      /\ texts \in Seq(Numbers) /\ v \in Seq(V) /\ Len(v) = Len(texts)
      /\ \A j \in 1 .. Len(texts) : ReadsBack(at, data, texts[j], v[j])
      /\ Lies(data, p, FlattenSeq(texts))
  BY Zenon DEF AllBack
<1> QED  BY <1>1, ReadFromBack

(* A concatenation is at least as long as so many of the shortest text.    *)
LEMMA FlatLeast ==
  ASSUME NEW texts \in Seq(Numbers), NEW least \in Nat,
         \A j \in 1 .. Len(texts) : Len(texts[j]) >= least
  PROVE  FlattenSeq(texts) \in Numbers /\ Len(FlattenSeq(texts)) >= Len(texts) * least
<1> DEFINE n == Len(texts)
<1>1. PICK f : IsFlat(f, texts, Nat, n)
  BY FlatExists DEF Numbers
<1>2. FlattenSeq(texts) = f[n]
  BY <1>1, FlattenIs DEF Numbers
<1>3. n \in Nat
  BY LenProperties
<1>4. /\ f[0] = <<>>
      /\ \A k \in 0 .. n : f[k] \in Numbers /\ Len(f[k]) \in Nat
      /\ \A k \in 1 .. n : f[k] = f[k - 1] \o texts[k]
      /\ \A k \in 1 .. n : texts[k] \in Numbers /\ Len(texts[k]) \in Nat
  BY <1>1, ElementOfSeq, LenProperties DEF IsFlat, Numbers
<1>5. \A k \in 1 .. n : Len(texts[k]) >= least
  OBVIOUS
<1> HIDE DEF n
<1> DEFINE N == {k \in Nat : k <= n => Len(f[k]) >= k * least}
<1>6. 0 \in N
  BY <1>4
<1>7. ASSUME NEW k \in Nat, k \in N PROVE k + 1 \in N
  <2> SUFFICES ASSUME k + 1 <= n PROVE Len(f[k + 1]) >= (k + 1) * least
    OBVIOUS
  <2>1. k + 1 \in 1 .. n /\ (k + 1) - 1 = k /\ k <= n /\ k \in 0 .. n
    BY <1>3
  <2>2. f[k + 1] = f[k] \o texts[k + 1] /\ f[k] \in Numbers /\ texts[k + 1] \in Numbers
    BY <1>4, <2>1
  <2>3. Len(f[k + 1]) = Len(f[k]) + Len(texts[k + 1]) /\ Len(f[k]) \in Nat /\ Len(texts[k + 1]) \in Nat
    BY <2>2, NumberCat
  <2>4. Len(f[k]) >= k * least
    BY <1>7, <2>1
  <2>5. Len(texts[k + 1]) >= least
    BY <1>5, <2>1
  <2>6. (k + 1) * least = k * least + least /\ k * least \in Nat
    OBVIOUS
  <2>7. \A a, b, c, e, l \in Nat : a >= c /\ b >= l /\ e = c + l => a + b >= e
    OBVIOUS
  <2>8. (k + 1) * least \in Nat
    OBVIOUS
  <2> QED  BY <2>3, <2>4, <2>5, <2>6, <2>7, <2>8
<1> HIDE DEF N
<1>8. Nat \subseteq N
  BY <1>6, <1>7, Induction
<1>9. Len(f[n]) >= n * least /\ f[n] \in Numbers
  BY <1>3, <1>4, <1>8 DEF N
<1> QED  BY <1>2, <1>9 DEF n


-----------------------------------------------------------------------------
(* The lists of a transaction. *)

(* What gen_varint writes has one of three lengths. *)
LEMMA VarintLens == \A n : gen_varint_len(n) \in {1, 3, 5}
BY DEF gen_varint_len

(* A count of n is read at p, and behind it lie the texts counted, of at    *)
(* least so many bytes each.                                               *)
Counted(d, p, texts, n, least) ==
  \E q \in Nat \ {0} :
    /\ Counter(d, p) = [n |-> n, next |-> q]
    /\ p + Len(gen_varint(n) \o FlattenSeq(texts)) = q + Len(FlattenSeq(texts))
    /\ Lies(d.data, q, FlattenSeq(texts))
    /\ n \in Nat /\ n <= Len(d.data)
    /\ n * least \in Nat /\ n * least < Len(d.data) - (p - 1)

(* A count and so many texts of at least so many bytes. *)
LEMMA CountBack ==
  ASSUME NEW d, IsDatum(d), NEW p \in Nat \ {0}, NEW texts \in Seq(Numbers),
         NEW least \in Nat \ {0}, \A j \in 1 .. Len(texts) : Len(texts[j]) >= least,
         NEW n, n = Len(texts), Lies(d.data, p, gen_varint(n) \o FlattenSeq(texts))
  PROVE  Counted(d, p, texts, n, least)
<1> DEFINE t == FlattenSeq(texts)
           g == gen_varint(n)
           q == p + gen_varint_len(n)
<1>1. n \in Nat
  BY LenProperties
<1>2. t \in Numbers /\ Len(t) >= n * least
  BY FlatLeast
<1>3. g \in Numbers /\ Len(g) = gen_varint_len(n)
  BY <1>1, VarintLen DEF Numbers
<1>4. d.data \in Text /\ Len(d.data) \in Nat /\ Len(d.data) < Huge /\ Huge \in Nat
  <2>1. Huge \in Nat
    BY SMT DEF Huge
  <2> QED  BY <2>1 DEF IsDatum, Text
<1> HIDE DEF t, g
<1>5. Lies(d.data, p, g) /\ Lies(d.data, p + Len(g), t)
  <2>1. Lies(d.data, p, g \o t)
    BY DEF t, g
  <2> QED  BY <1>2, <1>3, <1>4, <2>1, LiesCat
<1>6. Len(g \o t) = Len(g) + Len(t) /\ Len(g) \in Nat /\ Len(t) \in Nat
  BY <1>2, <1>3, NumberCat
<1>7. gen_varint_len(n) \in Nat /\ gen_varint_len(n) >= 1
  BY DEF gen_varint_len
<1>8. q \in Nat \ {0} /\ Lies(d.data, q, t)
  BY <1>3, <1>5, <1>7
<1>9. n * least \in Nat /\ n <= n * least
  <2>1. PICK m \in Nat : least = m + 1
    <3>1. least - 1 \in Nat /\ least = (least - 1) + 1
      OBVIOUS
    <3> QED  BY <3>1
  <2>2. n * (m + 1) = n * m + n /\ n * m \in Nat
    BY <1>1
  <2> QED  BY <1>1, <2>1, <2>2
<1>10. n * least < Len(d.data) - (p - 1)
  <2>1. q + Len(t) <= Len(d.data) + 1
    BY <1>8 DEF Lies
  <2> HIDE DEF q
  <2>2. q >= p + 1
    BY <1>7 DEF q
  <2> QED  BY <1>2, <1>4, <1>6, <1>8, <1>9, <2>1, <2>2
<1>11. n <= Len(d.data)
  BY <1>1, <1>4, <1>9, <1>10
<1>12. Counter(d, p) = [n |-> n, next |-> q]
  <2>1. n < Huge
    BY <1>1, <1>4, <1>11
  <2>2. VarintAt(d, p, n)
    BY <1>1, <1>5, <2>1, VarintBack DEF g
  <2> DEFINE more == read_varint_len(At(d, p))
  <2>3. /\ n = IF more = 0 THEN At(d, p) ELSE read_varint(d, p + 1, more)
        /\ more \in {0, 2, 4} /\ 1 + more = gen_varint_len(n)
    BY <2>2 DEF VarintAt
  <2>4. p + 1 + more = p + gen_varint_len(n)
    BY <1>7, <2>3
  <2>5. Counter(d, p) = [n |-> IF more = 0 THEN At(d, p) ELSE read_varint(d, p + 1, more),
                         next |-> p + 1 + more]
    BY DEF Counter
  <2> HIDE DEF more
  <2> QED  BY <2>3, <2>4, <2>5
<1>13. p + Len(g \o t) = q + Len(t)
  BY <1>3, <1>6, <1>7
<1> HIDE DEF q
<1> QED  BY <1>1, <1>8, <1>9, <1>10, <1>11, <1>12, <1>13, Zenon DEF Counted, t, g

(* The inputs behind their count. *)
LEMMA InputsBack ==
  ASSUME NEW d, IsDatum(d), NEW p \in Nat \ {0}, NEW l \in Seq(InputsOver(Nat)), l # <<>>,
         Lies(d.data, p, serialize_inputs(l))
  PROVE  init_inputs(d, p) = Read(l, p + Len(serialize_inputs(l)))
<1> DEFINE n == Len(l)
           texts == [k \in 1 .. n |-> serialize_single_input(l[k])]
           at == [q \in 1 .. Len(d.data) |-> get_single_input(d, q)]
<1>1. n \in Nat /\ n > 0 /\ \A k \in 1 .. n : l[k] \in InputsOver(Nat)
  BY LenProperties, ElementOfSeq, EmptySeq
<1> HIDE DEF n
<1>2. ASSUME NEW k \in 1 .. n
      PROVE  serialize_single_input(l[k]) \in Numbers /\ Len(serialize_single_input(l[k])) >= 41
  <2>1. l[k] \in InputsOver(Nat)
    BY <1>1
  <2>2. /\ serialize_single_input(l[k]) \in Seq(Nat)
        /\ Len(serialize_single_input(l[k])) = get_single_input_hex_len(l[k])
    BY <2>1, InputLen
  <2>3. Len(l[k].script) \in Nat
    BY <2>1 DEF InputsOver
  <2>4. get_single_input_hex_len(l[k]) >= 41
    <3>1. gen_varint_len(Len(l[k].script)) \in {1, 3, 5}
      BY VarintLens
    <3> QED  BY <2>3, <3>1 DEF get_single_input_hex_len
  <2> QED  BY <2>2, <2>4 DEF Numbers
<1>3. texts \in Seq(Numbers) /\ Len(texts) = n /\ \A k \in 1 .. n : Len(texts[k]) >= 41
  BY <1>1, <1>2, ListOf
<1>4. serialize_inputs(l) = gen_varint(n) \o FlattenSeq(texts)
  BY DEF serialize_inputs, Joined, n
<1>5. ASSUME NEW k \in 1 .. n, NEW q \in 1 .. Len(d.data), Lies(d.data, q, texts[k])
      PROVE  at[q] = Read(l[k], q + Len(texts[k]))
  <2>1. q \in Nat \ {0} /\ l[k] \in InputsOver(Nat) /\ Lies(d.data, q, serialize_single_input(l[k]))
    BY <1>1, <1>5
  <2> QED  BY <2>1, InputBack
<1>6. d.data \in Text /\ DOMAIN at = 1 .. Len(d.data) /\ Len(d.data) \in Nat
  BY LenProperties DEF IsDatum, Text
<1> HIDE DEF texts, at
<1>7. PICK q \in Nat \ {0} :
        /\ Counter(d, p) = [n |-> n, next |-> q]
        /\ p + Len(serialize_inputs(l)) = q + Len(FlattenSeq(texts))
        /\ Lies(d.data, q, FlattenSeq(texts))
        /\ n <= Len(d.data)
        /\ n * 41 \in Nat /\ n * 41 < Len(d.data) - (p - 1)
  <2>1. PICK least \in Nat \ {0} : least = 41
    OBVIOUS
  <2>5. \A j \in 1 .. Len(texts) : Len(texts[j]) >= least
    BY <1>3, <2>1
  <2>2. Lies(d.data, p, gen_varint(n) \o FlattenSeq(texts))
    BY <1>4
  <2>3. n = Len(texts) /\ texts \in Seq(Numbers)
    BY <1>3
  <2>4. Counted(d, p, texts, n, least)
    BY <2>2, <2>3, <2>5, CountBack, Zenon
  <2> QED  BY <1>4, <2>1, <2>4, Zenon DEF Counted
<1>8. ReadFrom(at, q, n) = Read(l, q + Len(FlattenSeq(texts)))
  <2>1. \A j \in 1 .. Len(texts) : ReadsBack(at, d.data, texts[j], l[j])
    <3> SUFFICES ASSUME NEW j \in 1 .. n PROVE ReadsBack(at, d.data, texts[j], l[j])
      BY <1>3
    <3>1. Len(texts[j]) > 0
      <4>1. texts[j] \in Seq(Nat)
        BY <1>3, ElementOfSeq DEF Numbers
      <4> QED  BY <1>3, <4>1
    <3> QED  BY <1>5, <3>1 DEF ReadsBack
  <2>2. Len(l) = Len(texts) /\ Len(texts) = n
    BY <1>3 DEF n
  <2>3. ReadFrom(at, q, Len(texts)) = Read(l, q + Len(FlattenSeq(texts)))
    <3>1. AllBack(d.data, InputsOver(Nat), at, q, texts, l)
      BY <1>3, <1>6, <1>7, <2>1, <2>2, Zenon DEF AllBack
    <3> QED  BY <3>1, ListBack
  <2> QED  BY <2>2, <2>3
<1>9. Elements(get_single_input, d, q, n) = Read(l, q + Len(FlattenSeq(texts)))
  <2>1. ~ (n > Len(d.data))
    BY <1>1, <1>6, <1>7
  <2> QED  BY <1>8, <2>1 DEF Elements, at
<1>10. init_inputs(d, p) = Listed(Elements(get_single_input, d, q, n), p)
  <2>1. ~ (Len(d.data) - (p - 1) < 6) /\ ~ (n <= 0) /\ ~ (Len(d.data) - (p - 1) < n * 41)
    BY <1>1, <1>6, <1>7
  <2>2. Counter(d, p).n = n /\ Counter(d, p).next = q
    BY <1>7
  <2>3. 32 + 4 + 1 + 4 = 41
    OBVIOUS
  <2> QED  BY <2>1, <2>2, <2>3 DEF init_inputs, ListFrom, get_inputs_counter
<1> QED  BY <1>7, <1>9, <1>10, ReadFields DEF Listed

(* The outputs behind their count. *)
LEMMA OutputsBack ==
  ASSUME NEW d, IsDatum(d), NEW p \in Nat \ {0}, NEW l \in Seq(OutputsOver(Nat)), l # <<>>,
         Lies(d.data, p, serialize_outputs(l))
  PROVE  init_outputs(d, p) = Read(l, p + Len(serialize_outputs(l)))
<1> DEFINE n == Len(l)
           texts == [k \in 1 .. n |-> serialize_single_output(l[k])]
           at == [q \in 1 .. Len(d.data) |-> get_single_output(d, q)]
<1>1. n \in Nat /\ n > 0 /\ \A k \in 1 .. n : l[k] \in OutputsOver(Nat)
  BY LenProperties, ElementOfSeq, EmptySeq
<1> HIDE DEF n
<1>2. ASSUME NEW k \in 1 .. n
      PROVE  serialize_single_output(l[k]) \in Numbers /\ Len(serialize_single_output(l[k])) >= 9
  <2>1. l[k] \in OutputsOver(Nat)
    BY <1>1
  <2>2. /\ serialize_single_output(l[k]) \in Seq(Nat)
        /\ Len(serialize_single_output(l[k])) = get_single_output_hex_len(l[k])
    BY <2>1, OutputLen
  <2>3. Len(l[k].script) \in Nat
    BY <2>1 DEF OutputsOver
  <2>4. get_single_output_hex_len(l[k]) >= 9
    <3>1. gen_varint_len(Len(l[k].script)) \in {1, 3, 5}
      BY VarintLens
    <3> QED  BY <2>3, <3>1 DEF get_single_output_hex_len
  <2> QED  BY <2>2, <2>4 DEF Numbers
<1>3. texts \in Seq(Numbers) /\ Len(texts) = n /\ \A k \in 1 .. n : Len(texts[k]) >= 9
  BY <1>1, <1>2, ListOf
<1>4. serialize_outputs(l) = gen_varint(n) \o FlattenSeq(texts)
  BY DEF serialize_outputs, Joined, n
<1>5. ASSUME NEW k \in 1 .. n, NEW q \in 1 .. Len(d.data), Lies(d.data, q, texts[k])
      PROVE  at[q] = Read(l[k], q + Len(texts[k]))
  <2>1. q \in Nat \ {0} /\ l[k] \in OutputsOver(Nat) /\ Lies(d.data, q, serialize_single_output(l[k]))
    BY <1>1, <1>5
  <2> QED  BY <2>1, OutputBack
<1>6. d.data \in Text /\ DOMAIN at = 1 .. Len(d.data) /\ Len(d.data) \in Nat
  BY LenProperties DEF IsDatum, Text
<1> HIDE DEF texts, at
<1>7. PICK q \in Nat \ {0} :
        /\ Counter(d, p) = [n |-> n, next |-> q]
        /\ p + Len(serialize_outputs(l)) = q + Len(FlattenSeq(texts))
        /\ Lies(d.data, q, FlattenSeq(texts))
        /\ n <= Len(d.data)
        /\ n * 9 \in Nat /\ n * 9 < Len(d.data) - (p - 1)
  <2>1. PICK least \in Nat \ {0} : least = 9
    OBVIOUS
  <2>5. \A j \in 1 .. Len(texts) : Len(texts[j]) >= least
    BY <1>3, <2>1
  <2>2. Lies(d.data, p, gen_varint(n) \o FlattenSeq(texts))
    BY <1>4
  <2>3. n = Len(texts) /\ texts \in Seq(Numbers)
    BY <1>3
  <2>4. Counted(d, p, texts, n, least)
    BY <2>2, <2>3, <2>5, CountBack, Zenon
  <2> QED  BY <1>4, <2>1, <2>4, Zenon DEF Counted
<1>8. ReadFrom(at, q, n) = Read(l, q + Len(FlattenSeq(texts)))
  <2>1. \A j \in 1 .. Len(texts) : ReadsBack(at, d.data, texts[j], l[j])
    <3> SUFFICES ASSUME NEW j \in 1 .. n PROVE ReadsBack(at, d.data, texts[j], l[j])
      BY <1>3
    <3>1. Len(texts[j]) > 0
      <4>1. texts[j] \in Seq(Nat)
        BY <1>3, ElementOfSeq DEF Numbers
      <4> QED  BY <1>3, <4>1
    <3> QED  BY <1>5, <3>1 DEF ReadsBack
  <2>2. Len(l) = Len(texts) /\ Len(texts) = n
    BY <1>3 DEF n
  <2>3. ReadFrom(at, q, Len(texts)) = Read(l, q + Len(FlattenSeq(texts)))
    <3>1. AllBack(d.data, OutputsOver(Nat), at, q, texts, l)
      BY <1>3, <1>6, <1>7, <2>1, <2>2, Zenon DEF AllBack
    <3> QED  BY <3>1, ListBack
  <2> QED  BY <2>2, <2>3
<1>9. Elements(get_single_output, d, q, n) = Read(l, q + Len(FlattenSeq(texts)))
  <2>1. ~ (n > Len(d.data))
    BY <1>1, <1>6, <1>7
  <2> QED  BY <1>8, <2>1 DEF Elements, at
<1>10. init_outputs(d, p) = Listed(Elements(get_single_output, d, q, n), p)
  <2>1. ~ (Len(d.data) - (p - 1) < 6) /\ ~ (n <= 0) /\ ~ (Len(d.data) - (p - 1) < n * 9)
    BY <1>1, <1>6, <1>7
  <2>2. Counter(d, p).n = n /\ Counter(d, p).next = q
    BY <1>7
  <2>3. 8 + 1 = 9
    OBVIOUS
  <2> QED  BY <2>1, <2>2, <2>3 DEF init_outputs, ListFrom, get_outputs_counter
<1> QED  BY <1>7, <1>9, <1>10, ReadFields DEF Listed


(* A witness. *)
WitnessesOver(S) == [value : Fields(S, 8), items : Seq(Seq(S))]

(* The items of a witness, behind their count. *)
LEMMA ItemsBack ==
  ASSUME NEW d, IsDatum(d), NEW p \in Nat \ {0}, NEW l \in Seq(Numbers), l # <<>>,
         NEW n, n = Len(l),
         Lies(d.data, p, gen_varint(n) \o Joined(serialize_single_op_item, l))
  PROVE  /\ Counter(d, p).n = n
         /\ Elements(Sized, d, Counter(d, p).next, n)
            = Read(l, p + Len(gen_varint(n) \o Joined(serialize_single_op_item, l)))
<1> DEFINE texts == [k \in 1 .. n |-> serialize_single_op_item(l[k])]
           at == [q \in 1 .. Len(d.data) |-> Sized(d, q)]
<1>1. n \in Nat /\ n > 0 /\ \A k \in 1 .. n : l[k] \in Numbers
  BY LenProperties, ElementOfSeq, EmptySeq
<1>2. ASSUME NEW k \in 1 .. n
      PROVE  serialize_single_op_item(l[k]) \in Numbers /\ Len(serialize_single_op_item(l[k])) >= 1
  BY <1>1, NumberItem
<1>3. texts \in Seq(Numbers) /\ Len(texts) = n /\ \A k \in 1 .. n : Len(texts[k]) >= 1
  BY <1>1, <1>2, ListOf
<1>4. Joined(serialize_single_op_item, l) = FlattenSeq(texts)
  BY DEF Joined
<1>5. ASSUME NEW k \in 1 .. n, NEW q \in 1 .. Len(d.data), Lies(d.data, q, texts[k])
      PROVE  at[q] = Read(l[k], q + Len(texts[k]))
  <2>1. q \in Nat \ {0} /\ l[k] \in Numbers /\ Lies(d.data, q, serialize_single_op_item(l[k]))
    BY <1>1, <1>5
  <2> QED  BY <2>1, SizedBack
<1>6. d.data \in Text /\ DOMAIN at = 1 .. Len(d.data) /\ Len(d.data) \in Nat
  BY LenProperties DEF IsDatum, Text
<1> HIDE DEF texts, at
<1>7. PICK q \in Nat \ {0} :
        /\ Counter(d, p) = [n |-> n, next |-> q]
        /\ p + Len(gen_varint(n) \o FlattenSeq(texts)) = q + Len(FlattenSeq(texts))
        /\ Lies(d.data, q, FlattenSeq(texts))
        /\ n <= Len(d.data)
  <2>1. PICK least \in Nat \ {0} : least = 1
    OBVIOUS
  <2>2. Lies(d.data, p, gen_varint(n) \o FlattenSeq(texts))
    BY <1>4
  <2>3. n = Len(texts) /\ texts \in Seq(Numbers)
    BY <1>3
  <2>4. \A j \in 1 .. Len(texts) : Len(texts[j]) >= least
    BY <1>3, <2>1
  <2>5. Counted(d, p, texts, n, least)
    BY <2>2, <2>3, <2>4, CountBack, Zenon
  <2> QED  BY <2>5, Zenon DEF Counted
<1>8. ReadFrom(at, q, n) = Read(l, q + Len(FlattenSeq(texts)))
  <2>1. \A j \in 1 .. Len(texts) : ReadsBack(at, d.data, texts[j], l[j])
    <3> SUFFICES ASSUME NEW j \in 1 .. n PROVE ReadsBack(at, d.data, texts[j], l[j])
      BY <1>3
    <3>1. Len(texts[j]) > 0
      <4>1. texts[j] \in Seq(Nat)
        BY <1>3, ElementOfSeq DEF Numbers
      <4> QED  BY <1>3, <4>1
    <3> QED  BY <1>5, <3>1 DEF ReadsBack
  <2>2. Len(l) = Len(texts) /\ Len(texts) = n
    BY <1>3
  <2>3. ReadFrom(at, q, Len(texts)) = Read(l, q + Len(FlattenSeq(texts)))
    <3>1. AllBack(d.data, Numbers, at, q, texts, l)
      BY <1>3, <1>6, <1>7, <2>1, <2>2, Zenon DEF AllBack
    <3> QED  BY <3>1, ListBack
  <2> QED  BY <2>2, <2>3
<1>9. Elements(Sized, d, q, n) = Read(l, q + Len(FlattenSeq(texts)))
  <2>1. ~ (n > Len(d.data))
    BY <1>1, <1>6, <1>7
  <2> QED  BY <1>8, <2>1 DEF Elements, at
<1>10. Counter(d, p).n = n /\ Counter(d, p).next = q
  BY <1>7
<1> QED  BY <1>4, <1>7, <1>9, <1>10

(* The pieces the partial form of a witness consists of. *)
PartialPieces(w, label, z, sw) ==
  /\ w = [value |-> w.value, items |-> w.items]
  /\ label \in Numbers /\ Len(label) = 5 /\ z \in Numbers /\ Len(z) = 2
  /\ w.value \in Numbers /\ Len(w.value) = 8 /\ w.items \in Seq(Numbers)
  /\ sw \in Numbers /\ Len(sw) \in Nat
  /\ label \o w.value \in Numbers /\ Len(label \o w.value) = 13
  /\ (label \o w.value) \o z \in Numbers
  /\ Len((label \o w.value) \o z) = 15
  /\ PartialWitness(w) = ((label \o w.value) \o z) \o sw
  /\ PartialWitness(w) \in Numbers
  /\ Len(PartialWitness(w)) = 15 + Len(sw)

(* The label of a partial witness, and the two bytes behind its value. *)
WitnessLabel == <<254, 255, 255, 255, 255>>
WitnessGap == <<0, 0>>

(* What is written of a witness. *)
LEMMA PartialLen ==
  ASSUME NEW w \in WitnessesOver(Nat)
  PROVE  PartialPieces(w, WitnessLabel, WitnessGap, serialize_single_witness(w))
<1> DEFINE label == WitnessLabel
           sw == serialize_single_witness(w)
           z == WitnessGap
<1>1. /\ w = [value |-> w.value, items |-> w.items]
      /\ w.value \in Numbers /\ Len(w.value) = 8 /\ w.items \in Seq(Numbers)
  BY DEF WitnessesOver, Fields, Numbers
<1>2. label \in Numbers /\ Len(label) = 5
  BY DEF WitnessLabel, Numbers
<1>3. z \in Numbers /\ Len(z) = 2
  BY DEF WitnessGap, Numbers
<1>4. sw \in Numbers /\ Len(sw) \in Nat
  <2>1. sw \in Seq(Nat)
    BY <1>1, WitnessLen DEF Numbers
  <2> QED  BY <2>1, LenProperties DEF Numbers
<1>5. PartialWitness(w) = ((label \o w.value) \o z) \o sw
  BY Zenon DEF PartialWitness, WitnessLabel, WitnessGap
<1> HIDE DEF label, sw, z
<1>6. label \o w.value \in Numbers /\ Len(label \o w.value) = 13
  <2>1. label \o w.value \in Numbers /\ Len(label \o w.value) = Len(label) + Len(w.value)
    BY <1>1, <1>2, NumberCat
  <2> QED  BY <1>1, <1>2, <2>1
<1>7. (label \o w.value) \o z \in Numbers /\ Len((label \o w.value) \o z) = 15
  <2>1. PICK a \in Numbers : a = label \o w.value /\ Len(a) = 13
    BY <1>6
  <2>2. a \o z \in Numbers /\ Len(a \o z) = Len(a) + Len(z)
    BY <1>3, NumberCat
  <2>3. Len(a \o z) = 15
    BY <1>3, <2>1, <2>2
  <2> QED  BY <2>1, <2>2, <2>3
<1>8. PartialWitness(w) \in Numbers /\ Len(PartialWitness(w)) = 15 + Len(sw)
  <2>1. PICK a \in Numbers : a = (label \o w.value) \o z /\ Len(a) = 15
    BY <1>7
  <2>2. a \o sw \in Numbers /\ Len(a \o sw) = 15 + Len(sw)
    BY <1>4, <2>1, NumberCat
  <2> QED  BY <1>5, <2>1, <2>2
<1>9. PartialPieces(w, label, z, sw)
  BY <1>1, <1>2, <1>3, <1>4, <1>5, <1>6, <1>7, <1>8, Zenon DEF PartialPieces
<1> QED  BY <1>9 DEF label, sw, z


(* A witness with items is read back. *)
LEMMA WitnessBack ==
  ASSUME NEW d, IsDatum(d), NEW p \in Nat \ {0}, NEW w \in WitnessesOver(Nat), w.items # <<>>,
         Lies(d.data, p, PartialWitness(w))
  PROVE  init_single_witness(d, p) = Read(w, p + Len(PartialWitness(w)))
<1> DEFINE label == WitnessLabel
           sw == serialize_single_witness(w)
           z == WitnessGap
           n == Len(w.items)
<1>1. /\ w = [value |-> w.value, items |-> w.items]
      /\ label \in Numbers /\ Len(label) = 5 /\ z \in Numbers /\ Len(z) = 2
      /\ w.value \in Numbers /\ Len(w.value) = 8 /\ w.items \in Seq(Numbers)
      /\ sw \in Numbers /\ Len(sw) \in Nat
      /\ label \o w.value \in Numbers /\ Len(label \o w.value) = 13
      /\ (label \o w.value) \o z \in Numbers
      /\ Len((label \o w.value) \o z) = 15
      /\ PartialWitness(w) = ((label \o w.value) \o z) \o sw
      /\ Len(PartialWitness(w)) = 15 + Len(sw)
  <2>1. PartialPieces(w, label, z, sw)
    BY PartialLen
  <2> HIDE DEF label, sw, z
  <2> QED  BY <2>1, Zenon DEF PartialPieces
<1>2. d.data \in Text /\ Len(d.data) \in Nat
  BY LenProperties DEF IsDatum, Text
<1>3. sw = gen_varint(n) \o Joined(serialize_single_op_item, w.items)
  BY DEF serialize_single_witness
<1>4. /\ label[1] = 254 /\ label[2] = 255 /\ label[3] = 255 /\ label[4] = 255 /\ label[5] = 255
      /\ z[1] = 0 /\ z[2] = 0
  BY DEF WitnessLabel, WitnessGap
<1> HIDE DEF label, sw, z
<1>5. /\ Lies(d.data, p, label) /\ Lies(d.data, p + 5, w.value)
      /\ Lies(d.data, p + 13, z) /\ Lies(d.data, p + 15, sw)
  <2>1. PICK a \in Numbers, b \in Numbers :
          /\ a = label \o w.value /\ b = a \o z /\ Len(a) = 13 /\ Len(b) = 15
          /\ Lies(d.data, p, b \o sw)
    BY <1>1
  <2>2. Lies(d.data, p, b) /\ Lies(d.data, p + Len(b), sw)
    BY <1>1, <1>2, <2>1, LiesCat
  <2>3. Lies(d.data, p, a) /\ Lies(d.data, p + Len(a), z)
    <3>1. Lies(d.data, p, a \o z)
      BY <2>1, <2>2
    <3> QED  BY <1>1, <1>2, <3>1, LiesCat
  <2>4. Lies(d.data, p, label) /\ Lies(d.data, p + Len(label), w.value)
    <3>1. Lies(d.data, p, label \o w.value)
      BY <2>1, <2>3
    <3> QED  BY <1>1, <1>2, <3>1, LiesCat
  <2> QED  BY <1>1, <2>1, <2>2, <2>3, <2>4
<1>6. /\ At(d, p) = 254 /\ \A k \in 1 .. 4 : At(d, p + k) = 255
  <2>1. \A j \in 1 .. 5 : At(d, p + j - 1) = label[j]
    <3>1. label \in Numbers /\ Len(label) = 5 /\ Lies(d.data, p, label)
      BY <1>1, <1>5
    <3>2. Stands(d, p, label)
      BY <3>1, LiesTake
    <3> QED  BY <3>1, <3>2 DEF Stands
  <2>2. At(d, p + 1 - 1) = 254 /\ At(d, p + 2 - 1) = 255 /\ At(d, p + 3 - 1) = 255
        /\ At(d, p + 4 - 1) = 255 /\ At(d, p + 5 - 1) = 255
    BY <1>4, <2>1
  <2>3. p + 1 - 1 = p /\ p + 2 - 1 = p + 1 /\ p + 3 - 1 = p + 2
        /\ p + 4 - 1 = p + 3 /\ p + 5 - 1 = p + 4
    OBVIOUS
  <2>4. /\ At(d, p) = 254 /\ At(d, p + 1) = 255 /\ At(d, p + 2) = 255
        /\ At(d, p + 3) = 255 /\ At(d, p + 4) = 255
    BY <2>2, <2>3
  <2>5. \A k \in 1 .. 4 : k = 1 \/ k = 2 \/ k = 3 \/ k = 4
    OBVIOUS
  <2> QED  BY <2>4, <2>5
<1>7. At(d, p + 13) = 0 /\ At(d, p + 14) = 0
  <2>1. PICK q \in Nat \ {0} : q = p + 13
    OBVIOUS
  <2>2. \A j \in 1 .. 2 : At(d, q + j - 1) = z[j]
    <3>1. z \in Numbers /\ Len(z) = 2 /\ Lies(d.data, q, z)
      BY <1>1, <1>5, <2>1
    <3>2. Stands(d, q, z)
      BY <3>1, LiesTake
    <3> QED  BY <3>1, <3>2 DEF Stands
  <2>3. At(d, q + 1 - 1) = 0 /\ At(d, q + 2 - 1) = 0
    BY <1>4, <2>2
  <2>4. q + 1 - 1 = p + 13 /\ q + 2 - 1 = p + 14
    BY <2>1
  <2> QED  BY <2>3, <2>4
<1>8. Take(d, p + 5, 8) = w.value
  <2>1. PICK q \in Nat \ {0}, a \in Numbers :
          q = p + 5 /\ a = w.value /\ Len(a) = 8 /\ Lies(d.data, q, a)
    BY <1>1, <1>5
  <2>2. Stands(d, q, a)
    BY <2>1, LiesTake
  <2>3. Take(d, q, Len(a)) = a
    BY <2>2 DEF Stands
  <2> QED  BY <2>1, <2>3
<1>9. /\ Counter(d, p + 15).n = n
      /\ Elements(Sized, d, Counter(d, p + 15).next, n) = Read(w.items, (p + 15) + Len(sw))
  <2>1. p + 15 \in Nat \ {0}
    OBVIOUS
  <2>2. Lies(d.data, p + 15, gen_varint(n) \o Joined(serialize_single_op_item, w.items))
    BY <1>3, <1>5
  <2> QED  BY <1>1, <1>3, <2>1, <2>2, ItemsBack
<1>10. p <= Len(d.data)
  <2>1. p + Len(label) <= Len(d.data) + 1
    BY <1>5 DEF Lies
  <2> QED  BY <1>1, <1>2, <2>1
<1>11. n > 0
  BY <1>1, LenProperties, EmptySeq
<1>12. (p + 15) + Len(sw) = p + (15 + Len(sw))
  BY <1>1
<1> HIDE DEF n
<1>13. init_single_witness(d, p)
       = WitnessWith(Take(d, p + 5, 8), Elements(Sized, d, Counter(d, p + 15).next, n))
  BY <1>6, <1>7, <1>9, <1>10, <1>11 DEF init_single_witness, get_op_items_counter
<1>14. WitnessWith(w.value, Read(w.items, (p + 15) + Len(sw))) = Read(w, (p + 15) + Len(sw))
  <2>1. PICK m : m = (p + 15) + Len(sw)
    OBVIOUS
  <2>2. Read(w.items, m).ok /\ Read(w.items, m).val = w.items /\ Read(w.items, m).next = m
    BY ReadFields
  <2> QED  BY <1>1, <2>1, <2>2 DEF WitnessWith
<1> QED  BY <1>1, <1>8, <1>9, <1>12, <1>13, <1>14

(* So are the witnesses, which have no count. *)
LEMMA WitnessesBack ==
  ASSUME NEW d, IsDatum(d), NEW p \in Nat \ {0}, NEW l \in Seq(WitnessesOver(Nat)),
         \A k \in 1 .. Len(l) : l[k].items # <<>>,
         NEW n, n = Len(l), Lies(d.data, p, Joined(PartialWitness, l))
  PROVE  init_witnesses(d, p, n) = Read(l, p + Len(Joined(PartialWitness, l)))
<1> DEFINE texts == [k \in 1 .. n |-> PartialWitness(l[k])]
           at == [q \in 1 .. Len(d.data) |-> init_single_witness(d, q)]
<1>1. n \in Nat /\ \A k \in 1 .. n : l[k] \in WitnessesOver(Nat)
  BY LenProperties, ElementOfSeq
<1>2. ASSUME NEW k \in 1 .. n
      PROVE  PartialWitness(l[k]) \in Numbers /\ Len(PartialWitness(l[k])) >= 1
  <2>1. l[k] \in WitnessesOver(Nat)
    BY <1>1
  <2>2. /\ PartialWitness(l[k]) \in Numbers
        /\ Len(PartialWitness(l[k])) = 15 + Len(serialize_single_witness(l[k]))
        /\ Len(serialize_single_witness(l[k])) \in Nat
    <3>1. PICK e \in WitnessesOver(Nat) : e = l[k]
      BY <2>1
    <3>2. /\ PartialWitness(e) \in Numbers
          /\ Len(PartialWitness(e)) = 15 + Len(serialize_single_witness(e))
          /\ Len(serialize_single_witness(e)) \in Nat
      BY PartialLen, Zenon DEF PartialPieces
    <3> QED  BY <3>1, <3>2
  <2> QED  BY <2>2
<1>3. texts \in Seq(Numbers) /\ Len(texts) = n /\ \A k \in 1 .. n : Len(texts[k]) >= 1
  BY <1>1, <1>2, ListOf
<1>4. Joined(PartialWitness, l) = FlattenSeq(texts)
  BY DEF Joined
<1>5. ASSUME NEW k \in 1 .. n, NEW q \in 1 .. Len(d.data), Lies(d.data, q, texts[k])
      PROVE  at[q] = Read(l[k], q + Len(texts[k]))
  <2>1. /\ q \in Nat \ {0} /\ l[k] \in WitnessesOver(Nat) /\ l[k].items # <<>>
        /\ Lies(d.data, q, PartialWitness(l[k]))
    BY <1>1, <1>5
  <2> QED  BY <2>1, WitnessBack
<1>6. d.data \in Text /\ DOMAIN at = 1 .. Len(d.data) /\ Len(d.data) \in Nat
  BY LenProperties DEF IsDatum, Text
<1> HIDE DEF texts, at
<1>7. ReadFrom(at, p, n) = Read(l, p + Len(FlattenSeq(texts)))
  <2>1. \A j \in 1 .. Len(texts) : ReadsBack(at, d.data, texts[j], l[j])
    <3> SUFFICES ASSUME NEW j \in 1 .. n PROVE ReadsBack(at, d.data, texts[j], l[j])
      BY <1>3
    <3>1. Len(texts[j]) > 0
      <4>1. texts[j] \in Seq(Nat)
        BY <1>3, ElementOfSeq DEF Numbers
      <4> QED  BY <1>3, <4>1
    <3> QED  BY <1>5, <3>1 DEF ReadsBack
  <2>2. Len(l) = Len(texts) /\ Len(texts) = n
    BY <1>3
  <2>3. Lies(d.data, p, FlattenSeq(texts))
    BY <1>4
  <2>4. ReadFrom(at, p, Len(texts)) = Read(l, p + Len(FlattenSeq(texts)))
    <3>1. AllBack(d.data, WitnessesOver(Nat), at, p, texts, l)
      BY <1>3, <1>6, <2>1, <2>2, <2>3, Zenon DEF AllBack
    <3> QED  BY <3>1, ListBack
  <2> QED  BY <2>2, <2>4
<1>8. n <= Len(d.data) - (p - 1) /\ n <= Len(d.data)
  <2>1. PICK least \in Nat : least = 1
    OBVIOUS
  <2>2. \A j \in 1 .. Len(texts) : Len(texts[j]) >= least
    BY <1>3, <2>1
  <2>3. FlattenSeq(texts) \in Numbers /\ Len(FlattenSeq(texts)) >= Len(texts) * least
    BY <1>3, <2>2, FlatLeast
  <2>4. Len(texts) * least = n
    BY <1>1, <1>3, <2>1
  <2>5. p + Len(FlattenSeq(texts)) <= Len(d.data) + 1
    BY <1>4 DEF Lies
  <2>6. Len(FlattenSeq(texts)) \in Nat
    BY <2>3, LenProperties DEF Numbers
  <2> QED  BY <1>1, <1>6, <2>3, <2>4, <2>5, <2>6
<1>9. init_witnesses(d, p, n) = Elements(init_single_witness, d, p, n)
  <2>1. ~ (Len(d.data) - (p - 1) < n)
    BY <1>1, <1>6, <1>8
  <2> QED  BY <2>1 DEF init_witnesses
<1>10. Elements(init_single_witness, d, p, n) = ReadFrom(at, p, n)
  <2>1. ~ (n > Len(d.data))
    BY <1>1, <1>6, <1>8
  <2> QED  BY <2>1 DEF Elements, at
<1> QED  BY <1>4, <1>7, <1>9, <1>10


-----------------------------------------------------------------------------
(* The whole transaction is read back. *)

(* Four texts in data. *)
FourLie(data, p, a, b, c, e) ==
  /\ Lies(data, p, a)
  /\ Lies(data, p + Len(a), b)
  /\ Lies(data, (p + Len(a)) + Len(b), c)
  /\ Lies(data, ((p + Len(a)) + Len(b)) + Len(c), e)
  /\ Len(((a \o b) \o c) \o e) = ((Len(a) + Len(b)) + Len(c)) + Len(e)

(* Of four texts, each lies where it must. *)
LEMMA LiesFour ==
  ASSUME NEW data \in Text, NEW p \in Nat \ {0},
         NEW a \in Numbers, NEW b \in Numbers, NEW c \in Numbers, NEW e \in Numbers,
         Lies(data, p, ((a \o b) \o c) \o e)
  PROVE  FourLie(data, p, a, b, c, e)
<1>1. PICK ab \in Numbers : ab = a \o b /\ Len(ab) = Len(a) + Len(b)
  BY NumberCat
<1>2. PICK abc \in Numbers : abc = ab \o c /\ Len(abc) = Len(ab) + Len(c)
  BY NumberCat
<1>3. /\ Len(a) \in Nat /\ Len(b) \in Nat /\ Len(c) \in Nat /\ Len(e) \in Nat
      /\ abc \o e \in Numbers /\ Len(abc \o e) = Len(abc) + Len(e)
  BY NumberCat
<1>4. Lies(data, p, abc) /\ Lies(data, p + Len(abc), e)
  <2>1. Lies(data, p, abc \o e)
    BY <1>1, <1>2
  <2> QED  BY <2>1, LiesCat
<1>5. Lies(data, p, ab) /\ Lies(data, p + Len(ab), c)
  BY <1>2, <1>4, LiesCat
<1>6. Lies(data, p, a) /\ Lies(data, p + Len(a), b)
  BY <1>1, <1>5, LiesCat
<1>7. /\ p + Len(ab) = (p + Len(a)) + Len(b)
      /\ p + Len(abc) = ((p + Len(a)) + Len(b)) + Len(c)
      /\ Len(abc) + Len(e) = ((Len(a) + Len(b)) + Len(c)) + Len(e)
  BY <1>1, <1>2, <1>3
<1> QED  BY <1>1, <1>2, <1>3, <1>4, <1>5, <1>6, <1>7 DEF FourLie

(* A transaction of numbers; those of bytes are among them. *)
TxsOver(S) ==
  [nversion : Fields(S, 4), inputs : Seq(InputsOver(S)), outputs : Seq(OutputsOver(S)),
   witnesses : Seq(WitnessesOver(S)), lock_time : Fields(S, 4)]

(* The first twelve bytes: the label, the version of the transaction and   *)
(* what stands around it.                                                  *)
PartialVersion == <<0>>
Opening(t) == ((PartialLabel \o PartialVersion) \o t.nversion) \o <<0, 1>>

(* They are what init_tx looks for and the version. *)
LEMMA OpeningText ==
  ASSUME NEW t \in TxsOver(Nat)
  PROVE  /\ PartialLabel \in Numbers /\ Len(PartialLabel) = 5
         /\ PartialVersion \in Numbers /\ Len(PartialVersion) = 1
         /\ <<0, 1>> \in Numbers /\ Len(<<0, 1>>) = 2
         /\ t.nversion \in Numbers /\ Len(t.nversion) = 4
         /\ Opening(t) \in Numbers /\ Len(Opening(t)) = 12
<1>1. t.nversion \in Numbers /\ Len(t.nversion) = 4
  BY DEF TxsOver, Fields, Numbers
<1>2. PartialLabel \in Numbers /\ Len(PartialLabel) = 5
  BY DEF PartialLabel, Numbers
<1> DEFINE y == PartialVersion
           z == <<0, 1>>
<1>3. y \in Numbers /\ Len(y) = 1 /\ z \in Numbers /\ Len(z) = 2
  BY DEF Numbers, PartialVersion
<1> HIDE DEF y, z
<1>4. PICK a \in Numbers : a = PartialLabel \o y /\ Len(a) = Len(PartialLabel) + Len(y)
  BY <1>2, <1>3, NumberCat
<1>5. PICK b \in Numbers : b = a \o t.nversion /\ Len(b) = Len(a) + Len(t.nversion)
  BY <1>1, NumberCat
<1>6. b \o z \in Numbers /\ Len(b \o z) = Len(b) + Len(z)
  BY <1>3, NumberCat
<1>7. Opening(t) = b \o z
  BY <1>4, <1>5 DEF Opening, y, z
<1>8. Len(Opening(t)) = 12
  <2>1. Len(a) = 6
    BY <1>2, <1>3, <1>4
  <2>2. Len(b) = 10
    BY <1>1, <1>5, <2>1
  <2> QED  BY <1>3, <1>6, <1>7, <2>2
<1> QED  BY <1>1, <1>2, <1>3, <1>6, <1>7, <1>8 DEF y, z

(* The opening is recognised, and the version taken from it. *)
OpeningRead(d, nversion) ==
  /\ \A k \in 1 .. 5 : At(d, k) = PartialLabel[k]
  /\ At(d, 6) = 0 /\ At(d, 11) = 0 /\ At(d, 12) = 1
  /\ Take(d, 7, 4) = nversion

(* Data that begin with them pass its checks. *)
LEMMA OpeningBack ==
  ASSUME NEW d, IsDatum(d), NEW t \in TxsOver(Nat), Lies(d.data, 1, Opening(t))
  PROVE  OpeningRead(d, t.nversion)
<1> DEFINE y == PartialVersion
           z == <<0, 1>>
<1>1. /\ PartialLabel \in Numbers /\ Len(PartialLabel) = 5
      /\ y \in Numbers /\ Len(y) = 1 /\ z \in Numbers /\ Len(z) = 2
      /\ t.nversion \in Numbers /\ Len(t.nversion) = 4
      /\ y[1] = 0 /\ z[1] = 0 /\ z[2] = 1
  BY OpeningText DEF PartialVersion
<1>2. d.data \in Text
  BY DEF IsDatum
<1> HIDE DEF y, z
<1>3. /\ Lies(d.data, 1, PartialLabel) /\ Lies(d.data, 6, y)
      /\ Lies(d.data, 7, t.nversion) /\ Lies(d.data, 11, z)
  <2>1. Lies(d.data, 1, ((PartialLabel \o y) \o t.nversion) \o z)
    BY DEF Opening, y, z
  <2>4. PICK p \in Nat \ {0} : p = 1
    OBVIOUS
  <2>5. /\ Lies(d.data, p, PartialLabel)
        /\ Lies(d.data, p + Len(PartialLabel), y)
        /\ Lies(d.data, (p + Len(PartialLabel)) + Len(y), t.nversion)
        /\ Lies(d.data, ((p + Len(PartialLabel)) + Len(y)) + Len(t.nversion), z)
    <3>1. Lies(d.data, p, ((PartialLabel \o y) \o t.nversion) \o z)
      BY <2>1, <2>4
    <3>2. FourLie(d.data, p, PartialLabel, y, t.nversion, z)
      BY <1>1, <1>2, <3>1, LiesFour
    <3> QED  BY <3>2 DEF FourLie
  <2>2. /\ Lies(d.data, 1, PartialLabel)
        /\ Lies(d.data, 1 + Len(PartialLabel), y)
        /\ Lies(d.data, (1 + Len(PartialLabel)) + Len(y), t.nversion)
        /\ Lies(d.data, ((1 + Len(PartialLabel)) + Len(y)) + Len(t.nversion), z)
    BY <2>4, <2>5
  <2>3. /\ 1 + Len(PartialLabel) = 6 /\ (1 + Len(PartialLabel)) + Len(y) = 7
        /\ ((1 + Len(PartialLabel)) + Len(y)) + Len(t.nversion) = 11
    BY <1>1
  <2> QED  BY <2>2, <2>3
<1>4. \A k \in 1 .. 5 : At(d, k) = PartialLabel[k]
  <2>1. PICK q \in Nat \ {0} : q = 1
    OBVIOUS
  <2>2. Stands(d, q, PartialLabel)
    <3>1. Lies(d.data, q, PartialLabel) /\ PartialLabel \in Numbers
      BY <1>1, <1>3, <2>1
    <3> QED  BY <3>1, LiesTake
  <2>3. \A k \in 1 .. 5 : At(d, q + k - 1) = PartialLabel[k]
    BY <1>1, <2>2 DEF Stands
  <2>4. \A k \in 1 .. 5 : q + k - 1 = k
    BY <2>1
  <2> QED  BY <2>3, <2>4
<1>5. At(d, 6) = 0
  <2>1. PICK p \in Nat \ {0} : p = 6
    OBVIOUS
  <2>2. \A j \in 1 .. Len(y) : At(d, p + j - 1) = y[j]
    <3>1. Lies(d.data, p, y) /\ y \in Numbers
      BY <1>1, <1>3, <2>1
    <3>2. Stands(d, p, y)
      BY <3>1, LiesTake
    <3> QED  BY <3>2 DEF Stands
  <2>3. 1 \in 1 .. Len(y) /\ p + 1 - 1 = 6
    BY <1>1, <2>1
  <2> QED  BY <1>1, <2>2, <2>3
<1>6. At(d, 11) = 0 /\ At(d, 12) = 1
  <2>1. PICK q \in Nat \ {0} : q = 11
    OBVIOUS
  <2>2. Stands(d, q, z)
    <3>1. Lies(d.data, q, z) /\ z \in Numbers
      BY <1>1, <1>3, <2>1
    <3> QED  BY <3>1, LiesTake
  <2>3. At(d, q + 1 - 1) = z[1] /\ At(d, q + 2 - 1) = z[2]
    BY <1>1, <2>2 DEF Stands
  <2>4. q + 1 - 1 = 11 /\ q + 2 - 1 = 12
    BY <2>1
  <2> QED  BY <1>1, <2>3, <2>4
<1>7. Take(d, 7, 4) = t.nversion
  <2>1. PICK q \in Nat \ {0}, a \in Numbers :
          q = 7 /\ a = t.nversion /\ Len(a) = 4 /\ Lies(d.data, q, a)
    BY <1>1, <1>3
  <2>2. Stands(d, q, a)
    BY <2>1, LiesTake
  <2>3. Take(d, q, Len(a)) = a
    BY <2>2 DEF Stands
  <2> QED  BY <2>1, <2>3
<1> QED  BY <1>4, <1>5, <1>6, <1>7 DEF OpeningRead

(* A transaction that can be read back: no list of it is empty, and there  *)
(* is a witness for every input.                                           *)
Readable(t) ==
  /\ t.inputs # <<>> /\ t.outputs # <<>>
  /\ Len(t.witnesses) = Len(t.inputs)
  /\ \A k \in 1 .. Len(t.witnesses) : t.witnesses[k].items # <<>>

(* From data that begin with the partial form of a transaction init_tx     *)
(* returns that transaction, and the position behind it, whatever follows. *)
THEOREM WrittenIsRead ==
  ASSUME NEW d, IsDatum(d), NEW t \in TxsOver(Nat), Readable(t),
         IsPrefix(PartialTx(t), d.data)
  PROVE  init_tx(d) = Read(t, 1 + Len(PartialTx(t)))
<1> DEFINE si == serialize_inputs(t.inputs)
           so == serialize_outputs(t.outputs)
           jw == Joined(PartialWitness, t.witnesses)
<1>1. /\ t = [nversion |-> t.nversion, inputs |-> t.inputs, outputs |-> t.outputs,
              witnesses |-> t.witnesses, lock_time |-> t.lock_time]
      /\ t.inputs \in Seq(InputsOver(Nat)) /\ t.outputs \in Seq(OutputsOver(Nat))
      /\ t.witnesses \in Seq(WitnessesOver(Nat))
      /\ t.lock_time \in Numbers /\ Len(t.lock_time) = 4
  BY DEF TxsOver, Fields, Numbers
<1>2. /\ si \in Numbers /\ Len(si) \in Nat /\ so \in Numbers /\ Len(so) \in Nat
  BY <1>1, InputsLen, OutputsLen, LenProperties DEF Numbers
<1>3. jw \in Numbers /\ Len(jw) \in Nat
  <2> DEFINE n == Len(t.witnesses)
             texts == [k \in 1 .. n |-> PartialWitness(t.witnesses[k])]
  <2>1. n \in Nat /\ \A k \in 1 .. n : t.witnesses[k] \in WitnessesOver(Nat)
    BY <1>1, LenProperties, ElementOfSeq
  <2>2. \A e \in WitnessesOver(Nat) : PartialWitness(e) \in Numbers
    BY PartialLen, Zenon DEF PartialPieces
  <2>3. texts \in Seq(Numbers)
    BY <2>1, <2>2, ListOf
  <2>4. jw = FlattenSeq(texts)
    BY DEF Joined
  <2> HIDE DEF texts, jw
  <2>5. FlattenSeq(texts) \in Seq(Nat)
    BY <2>3, FlattenFacts DEF Numbers
  <2> QED  BY <2>4, <2>5, LenProperties DEF Numbers
<1>4. d.data \in Text /\ Len(d.data) \in Nat
  BY LenProperties DEF IsDatum, Text
<1>5. PartialTx(t) = (((Opening(t) \o si) \o so) \o jw) \o t.lock_time
  BY DEF PartialTx, Opening, PartialVersion
<1> HIDE DEF si, so, jw
<1>6. Opening(t) \in Numbers /\ Len(Opening(t)) = 12
  BY OpeningText
<1>7. PICK a \in Numbers : a = ((Opening(t) \o si) \o so) \o jw
  <2>1. Opening(t) \o si \in Numbers
    BY <1>2, <1>6, NumberCat
  <2>2. (Opening(t) \o si) \o so \in Numbers
    BY <1>2, <2>1, NumberCat
  <2> QED  BY <1>3, <2>2, NumberCat
<1>8. /\ PartialTx(t) \in Numbers
      /\ Lies(d.data, 1, a) /\ Lies(d.data, 1 + Len(a), t.lock_time)
      /\ Len(PartialTx(t)) = Len(a) + 4 /\ Len(a) \in Nat
  <2>1. PartialTx(t) = a \o t.lock_time
    BY <1>5, <1>7
  <2>2. a \o t.lock_time \in Numbers /\ Len(a \o t.lock_time) = Len(a) + Len(t.lock_time) /\ Len(a) \in Nat
    BY <1>1, NumberCat
  <2>3. Lies(d.data, 1, a \o t.lock_time)
    BY <1>4, <2>1, <2>2, LiesFirst
  <2>4. 1 \in Nat \ {0}
    OBVIOUS
  <2>5. Lies(d.data, 1, a) /\ Lies(d.data, 1 + Len(a), t.lock_time)
    BY <1>1, <1>4, <2>3, <2>4, LiesCat
  <2> QED  BY <1>1, <2>1, <2>2, <2>5
<1>9. PICK q \in Nat, r \in Nat, u \in Nat :
        /\ q = 13 + Len(si) /\ r = q + Len(so) /\ u = r + Len(jw) /\ u = 1 + Len(a)
        /\ Lies(d.data, 1, Opening(t)) /\ Lies(d.data, 13, si)
        /\ Lies(d.data, q, so) /\ Lies(d.data, r, jw)
  <2>1. 1 \in Nat \ {0} /\ Lies(d.data, 1, ((Opening(t) \o si) \o so) \o jw)
    BY <1>7, <1>8
  <2>5. PICK p \in Nat \ {0} : p = 1
    OBVIOUS
  <2>6. /\ Lies(d.data, p, Opening(t))
        /\ Lies(d.data, p + Len(Opening(t)), si)
        /\ Lies(d.data, (p + Len(Opening(t))) + Len(si), so)
        /\ Lies(d.data, ((p + Len(Opening(t))) + Len(si)) + Len(so), jw)
        /\ Len(((Opening(t) \o si) \o so) \o jw)
           = ((Len(Opening(t)) + Len(si)) + Len(so)) + Len(jw)
    <3>1. Lies(d.data, p, ((Opening(t) \o si) \o so) \o jw)
      BY <2>1, <2>5
    <3>2. FourLie(d.data, p, Opening(t), si, so, jw)
      BY <1>2, <1>3, <1>4, <1>6, <3>1, LiesFour
    <3> QED  BY <3>2 DEF FourLie
  <2>2. /\ Lies(d.data, 1, Opening(t))
        /\ Lies(d.data, 1 + Len(Opening(t)), si)
        /\ Lies(d.data, (1 + Len(Opening(t))) + Len(si), so)
        /\ Lies(d.data, ((1 + Len(Opening(t))) + Len(si)) + Len(so), jw)
        /\ Len(((Opening(t) \o si) \o so) \o jw)
           = ((Len(Opening(t)) + Len(si)) + Len(so)) + Len(jw)
    BY <2>5, <2>6
  <2>3. /\ 1 + Len(Opening(t)) = 13
        /\ ((13 + Len(si)) + Len(so)) + Len(jw) = 1 + Len(a)
    BY <1>2, <1>3, <1>6, <1>7, <2>2
  <2>4. 13 + Len(si) \in Nat /\ (13 + Len(si)) + Len(so) \in Nat
        /\ ((13 + Len(si)) + Len(so)) + Len(jw) \in Nat
    BY <1>2, <1>3
  <2> QED  BY <2>2, <2>3, <2>4
<1>10. /\ q \in Nat \ {0} /\ r \in Nat \ {0} /\ u \in Nat \ {0}
       /\ 13 <= q /\ q <= r /\ r <= u /\ u + 4 <= Len(d.data) + 1
  <2>1. u + Len(t.lock_time) <= Len(d.data) + 1
    BY <1>8, <1>9 DEF Lies
  <2> QED  BY <1>1, <1>2, <1>3, <1>9, <2>1
<1>11. OpeningRead(d, t.nversion)
  BY <1>9, OpeningBack
<1>12. init_inputs(d, 13) = Read(t.inputs, q)
  <2>1. 13 \in Nat \ {0} /\ Lies(d.data, 13, serialize_inputs(t.inputs))
    BY <1>9 DEF si
  <2>2. init_inputs(d, 13) = Read(t.inputs, 13 + Len(serialize_inputs(t.inputs)))
    BY <1>1, <2>1, InputsBack DEF Readable
  <2> QED  BY <1>9, <2>2 DEF si
<1>13. init_outputs(d, q) = Read(t.outputs, r)
  <2>1. Lies(d.data, q, serialize_outputs(t.outputs))
    BY <1>9 DEF so
  <2>2. init_outputs(d, q) = Read(t.outputs, q + Len(serialize_outputs(t.outputs)))
    BY <1>1, <1>10, <2>1, OutputsBack DEF Readable
  <2> QED  BY <1>9, <2>2 DEF so
<1>14. init_witnesses(d, r, Len(t.inputs)) = Read(t.witnesses, u)
  <2>1. Lies(d.data, r, Joined(PartialWitness, t.witnesses))
    BY <1>9 DEF jw
  <2>2. init_witnesses(d, r, Len(t.inputs))
        = Read(t.witnesses, r + Len(Joined(PartialWitness, t.witnesses)))
    BY <1>1, <1>10, <2>1, WitnessesBack DEF Readable
  <2> QED  BY <1>9, <2>2 DEF jw
<1>15. Take(d, u, 4) = t.lock_time
  <2>1. PICK b \in Numbers : b = t.lock_time /\ Len(b) = 4 /\ Lies(d.data, u, b)
    BY <1>1, <1>8, <1>9
  <2>2. Stands(d, u, b)
    BY <1>10, <2>1, LiesTake
  <2>3. Take(d, u, Len(b)) = b
    BY <2>2 DEF Stands
  <2> QED  BY <2>1, <2>3
<1> DEFINE ins == Read(t.inputs, q)
           outs == Read(t.outputs, r)
           wits == Read(t.witnesses, u)
<1>16. /\ ins.ok /\ ins.val = t.inputs /\ ins.next = q
       /\ outs.ok /\ outs.val = t.outputs /\ outs.next = r
       /\ wits.ok /\ wits.val = t.witnesses /\ wits.next = u
  BY ReadFields
<1> HIDE DEF ins, outs, wits
<1>17. /\ 12 < Len(d.data) /\ Within(d, ins) /\ Within(d, outs) /\ Within(d, wits)
       /\ u + 4 - 1 <= Len(d.data)
  BY <1>4, <1>10, <1>16 DEF Within
<1>18. init_tx(d) = OutputsAfter(d, ins)
  BY <1>11, <1>12, <1>17 DEF init_tx, OpeningRead, ins
<1>19. OutputsAfter(d, ins) = WitnessesAfter(d, ins, outs)
  BY <1>13, <1>16, <1>17 DEF OutputsAfter, outs
<1>20. WitnessesAfter(d, ins, outs) = TxWith(d, ins, outs, wits)
  BY <1>14, <1>16, <1>17 DEF WitnessesAfter, wits
<1>21. TxWith(d, ins, outs, wits) = Read(t, u + 4)
  BY <1>1, <1>11, <1>15, <1>16, <1>17 DEF TxWith, OpeningRead
<1>22. u + 4 = 1 + Len(PartialTx(t))
  BY <1>8, <1>9
<1> QED  BY <1>18, <1>19, <1>20, <1>21, <1>22
====
