------------------------------ MODULE KeyVault ------------------------------
(***************************************************************************)
(* What the SpaceChain side promises to the Linux side, without the        *)
(* protocol between them: keystores that only grow, and answers that are   *)
(* true of the keystore at the moment they are accepted.                   *)
(***************************************************************************)
EXTENDS Integers, Sequences

CONSTANTS Ids,   \* server ids
          Keys   \* key pairs; 0 is the all-zero pair of a failed creation

VARIABLES vault,    \* state and key pairs of each id's keystore
          answers   \* the answers accepted by the Linux side

States == {"absent", "broken", "ready"}

VaultInit ==
  /\ vault = [i \in Ids |-> [state |-> "absent", pairs |-> <<>>]]
  /\ answers = {}

(* A keystore file is created without a header, and may stay so. *)
Open(i) ==
  /\ vault[i].state = "absent"
  /\ vault' = [vault EXCEPT ![i].state = "broken"]
  /\ UNCHANGED answers

Format(i) ==
  /\ vault[i].state = "broken"
  /\ vault' = [vault EXCEPT ![i].state = "ready"]
  /\ UNCHANGED answers

(* A pair is added behind the others; no pair but the zero one twice. *)
AddPair(i, k) ==
  /\ vault[i].state = "ready"
  /\ k # 0 => \A j \in Ids : \A n \in 1 .. Len(vault[j].pairs) :
                 vault[j].pairs[n] # k
  /\ vault' = [vault EXCEPT ![i].pairs = Append(@, k)]
  /\ UNCHANGED answers

(* Whether an answer is true of the vault. *)
True(a) ==
  /\ a.id \in Ids /\ a.index \in Nat
  /\ vault[a.id].state = "ready"
  /\ a.kind \in {"keypair", "sign"} =>
       /\ a.index < Len(vault[a.id].pairs)
       /\ vault[a.id].pairs[a.index + 1] = a.key
  /\ a.kind = "keypair" => a.key # 0

(* The Linux side accepts an answer; a new key pair is given out once. *)
Accept(a) ==
  /\ True(a)
  /\ a.kind = "keypair" =>
       \A b \in answers : b.kind = "keypair" => b.key # a.key
  /\ answers' = answers \cup {a}
  /\ UNCHANGED vault

VaultStep ==
  \/ \E i \in Ids : Open(i) \/ Format(i) \/ \E k \in Keys : AddPair(i, k)
  \/ \E a \in answers' \ answers : Accept(a)

VaultSpec == VaultInit /\ [][VaultStep]_<<vault, answers>>

-----------------------------------------------------------------------------
(* An answer that was true when the Linux side accepted it stays true: it  *)
(* may act on the index it was given, or on a keystore it was told of, at  *)
(* any later time.                                                         *)
AnswersStayTrue == \A a \in answers : True(a)
====
