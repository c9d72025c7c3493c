-------------------------- MODULE KeyVault_proofs --------------------------
(* What follows from the promise of the SpaceChain side for all ids and    *)
(* keys: answers stay true for ever.                                       *)
EXTENDS KeyVault, TLAPS

(* The keystores have their type and every answer is true of them. *)
Good ==
  /\ vault \in [Ids -> [state : States, pairs : Seq(Keys)]]
  /\ AnswersStayTrue

(* A keystore that grows at its end keeps the answers given of it. *)
LEMMA GrowthKeepsTruth ==
  ASSUME Good, NEW a \in answers, NEW i \in Ids, NEW v,
         v.state = "ready", NEW k \in Keys,
         \/ v.pairs = vault[i].pairs
         \/ v.pairs = Append(vault[i].pairs, k),
         vault' = [vault EXCEPT ![i] = v]
  PROVE  True(a)'
<1>1. True(a) /\ a.id \in Ids /\ a.index \in Nat
  BY DEF Good, AnswersStayTrue, True
<1>2. CASE a.id # i
  <2>1. vault'[a.id] = vault[a.id]
    BY <1>1, <1>2 DEF Good
  <2> QED
    BY <1>1, <2>1 DEF True
<1>3. CASE a.id = i
  <2>1. vault'[i] = v
    BY DEF Good
  <2>2. vault[i].pairs \in Seq(Keys)
    BY DEF Good
  <2>3. \A n \in 1 .. Len(vault[i].pairs) :
          /\ n <= Len(v.pairs) /\ v.pairs[n] = vault[i].pairs[n]
    BY <2>2
  <2>4. Len(v.pairs) >= Len(vault[i].pairs) /\ Len(v.pairs) \in Nat
    BY <2>2
  <2>5. vault'[a.id].state = "ready" /\ vault'[a.id].pairs = v.pairs
    BY <1>3, <2>1
  <2>6. a.kind \in {"keypair", "sign"} =>
          /\ a.index < Len(vault[i].pairs) /\ a.index + 1 \in 1 .. Len(vault[i].pairs)
          /\ vault[i].pairs[a.index + 1] = a.key
    BY <1>1, <1>3, <2>2 DEF True
  <2>7. a.kind \in {"keypair", "sign"} =>
          a.index < Len(v.pairs) /\ v.pairs[a.index + 1] = a.key
    BY <1>1, <2>2, <2>3, <2>4, <2>6
  <2>8. a.kind = "keypair" => a.key # 0
    BY <1>1 DEF True
  <2> QED
    BY <1>1, <2>5, <2>7, <2>8 DEF True
<1> QED
  BY <1>2, <1>3

(* An answer accepted stays true, whatever keystores are made and pairs    *)
(* added afterwards, by this client or another one.                        *)
THEOREM AnswersHold == VaultSpec => []AnswersStayTrue
<1>1. VaultInit => Good
  BY DEF VaultInit, Good, AnswersStayTrue, States
<1>2. ASSUME Good, [VaultStep]_<<vault, answers>>
      PROVE  Good'
  <2>1. CASE UNCHANGED <<vault, answers>>
    BY <1>2, <2>1 DEF Good, AnswersStayTrue, True
  <2>2. ASSUME NEW i \in Ids, Open(i) PROVE Good'
    <3>1. \A a \in answers : a.id # i
      BY <1>2, <2>2 DEF Good, AnswersStayTrue, True, Open
    <3>2. vault' \in [Ids -> [state : States, pairs : Seq(Keys)]]
      BY <1>2, <2>2 DEF Good, Open, States
    <3> QED
      BY <1>2, <2>2, <3>1, <3>2 DEF Good, AnswersStayTrue, True, Open
  <2>3. ASSUME NEW i \in Ids, Format(i) PROVE Good'
    <3>1. \A a \in answers : a.id # i
      BY <1>2, <2>3 DEF Good, AnswersStayTrue, True, Format
    <3>2. vault' \in [Ids -> [state : States, pairs : Seq(Keys)]]
      BY <1>2, <2>3 DEF Good, Format, States
    <3> QED
      BY <1>2, <2>3, <3>1, <3>2 DEF Good, AnswersStayTrue, True, Format
  <2>4. ASSUME NEW i \in Ids, NEW k \in Keys, AddPair(i, k) PROVE Good'
    <3> DEFINE v == [vault[i] EXCEPT !.pairs = Append(vault[i].pairs, k)]
    <3>1. vault' = [vault EXCEPT ![i] = v] /\ answers' = answers
      BY <2>4 DEF AddPair
    <3>2. v.state = "ready" /\ v.pairs = Append(vault[i].pairs, k)
      BY <1>2, <2>4 DEF Good, AddPair
    <3>3. v \in [state : States, pairs : Seq(Keys)]
      <4>1. vault[i] \in [state : States, pairs : Seq(Keys)]
        BY <1>2 DEF Good
      <4>2. Append(vault[i].pairs, k) \in Seq(Keys)
        BY <4>1
      <4> QED
        BY <4>1, <4>2
    <3>4. \A a \in answers : True(a)'
      <4> HIDE DEF v
      <4> QED
        BY <1>2, <3>1, <3>2, GrowthKeepsTruth
    <3> QED
      BY <1>2, <3>1, <3>3, <3>4 DEF Good, AnswersStayTrue
  <2>5. ASSUME NEW a \in answers', Accept(a) PROVE Good'
    BY <1>2, <2>5 DEF Good, AnswersStayTrue, True, Accept
  <2> QED
    BY <1>2, <2>1, <2>2, <2>3, <2>4, <2>5 DEF VaultStep
<1>3. Good => AnswersStayTrue
  BY DEF Good
<1> QED
  BY <1>1, <1>2, <1>3, PTL DEF VaultSpec
====
