--------------------------- MODULE NodeInit_proofs ---------------------------
(***************************************************************************)
(* Theorems about NodeInit, for any sessions and keys of the ground and    *)
(* any number of runs, crashes and failing calls.                          *)
(***************************************************************************)
EXTENDS NodeInit, FiniteSetTheorems, TLAPS

(* While the new pair is on its way there is no public key at all.         *)
KeysInv ==
  /\ satprv \in Int /\ satpub \in Int /\ keys \in Nat
  /\ KeysMatch
  /\ pc \in {"rm_prv", "rm_spc", "take_epub", "gen_prv"} => satpub <= 0
  /\ pc = "gen" => order.cmd \in Cmds

LEMMA KeysInit == Init => KeysInv
  BY DEF Init, KeysInv, KeysMatch, Absent

(* The steps of an initialisation.                                         *)
LEMMA KeysInitNode == KeysInv /\ InitNode => KeysInv'
<1> SUFFICES ASSUME KeysInv, InitNode PROVE KeysInv'
  OBVIOUS
<1> USE DEF KeysInv, KeysMatch, Absent, Goto, End, Return, Take, pems, bounds, hist
<1>1. CASE RmPub BY <1>1 DEF RmPub
<1>2. CASE RmPrv BY <1>2 DEF RmPrv
<1>3. CASE RmSpc BY <1>3 DEF RmSpc
<1>4. CASE TakeEpub BY <1>4 DEF TakeEpub
<1>5. CASE NoEpub BY <1>5 DEF NoEpub
<1>6. CASE GenPrv BY <1>6 DEF GenPrv
<1>7. CASE GenPub BY <1>7 DEF GenPub
<1>8. CASE SaveSpc BY <1>8 DEF SaveSpc
<1>9. CASE ParseEpubRefused BY <1>9 DEF ParseEpubRefused
<1>10. CASE PutEpub BY <1>10 DEF PutEpub
<1> QED BY <1>1, <1>2, <1>3, <1>4, <1>5, <1>6, <1>7, <1>8, <1>9, <1>10 DEF InitNode

(* The stages of the interlock and spcstart leave the keys alone.          *)
LEMMA KeysElsewhere ==
  KeysInv /\ (Run \/ GenFile \/ GenFileRefused \/ Stage1 \/ Stage2) => KeysInv'
<1> SUFFICES ASSUME KeysInv, Run \/ GenFile \/ GenFileRefused \/ Stage1 \/ Stage2
             PROVE  KeysInv'
  OBVIOUS
<1>1. UNCHANGED <<satprv, satpub, keys>>
  <2> USE DEF pems, hist, Return, Take
  <2>1. CASE Run \/ GenFile \/ GenFileRefused BY <2>1 DEF Run, GenFile, GenFileRefused
  <2>2. CASE Stage1
    BY <2>2 DEF Stage1, TakeCs1, NoCs1, Encrypt, EncryptRefused, SaveLen, SaveMspc, PutCs1, ParseCs1Refused
  <2>3. CASE Stage2
    BY <2>3 DEF Stage2, TakeCs2, NoCs2, CheckGood, CheckBad, DecryptRefused, TempAnswer, NoMspc,
      TempRefusal, PutCs2
  <2> QED BY <2>1, <2>2, <2>3
<1>2. pc' \notin {"rm_prv", "rm_spc", "take_epub", "gen_prv"}
  <2> USE DEF Return, Take, Goto, End
  <2>1. CASE Run BY <2>1 DEF Run
  <2>2. CASE GenFile \/ GenFileRefused
    BY <2>2 DEF KeysInv, Cmds, GenFile, GenFileRefused, Dispatch, FirstStep
  <2>3. CASE Stage1
    BY <2>3 DEF Stage1, TakeCs1, NoCs1, Encrypt, EncryptRefused, SaveLen, SaveMspc, PutCs1, ParseCs1Refused
  <2>4. CASE Stage2
    BY <2>4 DEF Stage2, TakeCs2, NoCs2, CheckGood, CheckBad, DecryptRefused, TempAnswer, NoMspc,
      TempRefusal, PutCs2
  <2> QED BY <2>1, <2>2, <2>3, <2>4
<1>3. pc' = "gen" => order'.cmd \in Cmds
  <2> USE DEF Return, Take, Goto, End
  <2>1. CASE Run BY <2>1 DEF Run
  <2>2. CASE GenFile \/ GenFileRefused
    BY <2>2 DEF KeysInv, Cmds, GenFile, GenFileRefused, Dispatch, FirstStep
  <2>3. CASE Stage1
    BY <2>3 DEF Stage1, TakeCs1, NoCs1, Encrypt, EncryptRefused, SaveLen, SaveMspc, PutCs1, ParseCs1Refused
  <2>4. CASE Stage2
    BY <2>4 DEF Stage2, TakeCs2, NoCs2, CheckGood, CheckBad, DecryptRefused, TempAnswer, NoMspc,
      TempRefusal, PutCs2
  <2> QED BY <2>1, <2>2, <2>3, <2>4
<1> QED BY <1>1, <1>2, <1>3 DEF KeysInv, KeysMatch

(* A cut leaves a torn key, which is no key, or no change.                 *)
LEMMA KeysCut == KeysInv /\ (Crash \/ CallFails) => KeysInv'
<1> SUFFICES ASSUME KeysInv, Crash \/ CallFails PROVE KeysInv'
  OBVIOUS
<1>1. Cut
  BY DEF Crash, CallFails
<1>2. keys' = keys /\ satprv' \in Int /\ satpub' \in Int
  BY <1>1 DEF KeysInv, Cut, Whole, TornDeploy, TornPem, TornMspc, TornTemp, pems, Torn
<1>3. satpub' > 0 => satprv' = satpub'
  BY <1>1 DEF KeysInv, KeysMatch, Cut, Whole, TornDeploy, TornPem, TornMspc, TornTemp, pems, Torn
<1>4. pc' \notin {"gen", "rm_prv", "rm_spc", "take_epub", "gen_prv"}
  BY DEF KeysInv, Crash, CallFails, End, Goto, Dispatch, FirstStep, Cmds
<1> QED BY <1>2, <1>3, <1>4 DEF KeysInv, KeysMatch

LEMMA KeysStep == KeysInv /\ [Next]_vars => KeysInv'
<1>1. KeysInv /\ UNCHANGED vars => KeysInv'
  BY DEF KeysInv, KeysMatch, vars, pems, proc, hist
<1> QED BY <1>1, KeysInitNode, KeysElsewhere, KeysCut DEF Next, Start

(* Wherever an initialisation is cut, the public key on the node is the    *)
(* one of the private key on the node, or there is none.                   *)
THEOREM KeysAlwaysMatch == Spec => []KeysMatch
<1>1. KeysInv => KeysMatch
  BY DEF KeysInv
<1> QED BY <1>1, KeysInit, KeysStep, PTL DEF Spec

-----------------------------------------------------------------------------
(* The second half: what lies in temp is a satcs2, which a later refusal   *)
(* may send out under a length of 0; the answer is written only from a     *)
(* message that is earned at that moment.                                  *)
EarnedInv ==
  /\ SecondHalfEarned
  /\ \A a \in temp : a.kind = "satcs2"
  /\ pc = "answer" => mspc.n \in checked

LEMMA EarnedInit == Init => EarnedInv
  BY DEF Init, EarnedInv, SecondHalfEarned

(* Writing temp.satcs2, with an answer or a refusal, sends nothing that is *)
(* not earned.                                                             *)
LEMMA EarnedRefusal ==
  ASSUME EarnedInv
  PROVE  \A a \in Refusal : a.kind = "satcs2" /\ (a.n # 0 => a.n \in checked)
<1>1. CASE temp = {}
  BY <1>1 DEF Refusal, Cs2
<1>2. CASE temp # {}
  <2> DEFINE old == CHOOSE a \in temp : TRUE
  <2>1. old \in temp
    BY <1>2
  <2>2. old.n # 0 => old.n \in checked
    BY <2>1 DEF EarnedInv, SecondHalfEarned
  <2>3. Refusal = Cs2(old.n, FALSE)
    BY <1>2 DEF Refusal
  <2> QED BY <2>2, <2>3 DEF Cs2
<1> QED BY <1>1, <1>2

LEMMA EarnedAnswer ==
  ASSUME EarnedInv, pc = "answer"
  PROVE  \A a \in Answered : a.kind = "satcs2" /\ a.n \in checked
  BY DEF EarnedInv, Answered, Cs2

(* The steps that touch neither temp, download nor checked, and do not lead *)
(* to the answer.                                                          *)
LEMMA EarnedQuiet ==
  ASSUME EarnedInv, UNCHANGED <<temp, download, checked>>, pc' # "answer"
  PROVE  EarnedInv'
  BY DEF EarnedInv, SecondHalfEarned

LEMMA EarnedStart == KeysInv /\ EarnedInv /\ (Run \/ Start) => EarnedInv'
<1> SUFFICES ASSUME KeysInv, EarnedInv, Run \/ Start PROVE EarnedInv'
  OBVIOUS
<1> USE DEF Goto, End, Return, Take, outbox, hist
<1>1. CASE Run
  BY <1>1, EarnedQuiet DEF Run
<1>2. CASE GenFile \/ GenFileRefused
  BY <1>2, EarnedQuiet DEF KeysInv, Cmds, GenFile, GenFileRefused, Dispatch, FirstStep
<1>3. CASE InitNode
  <2>1. CASE PutEpub
    BY <2>1 DEF PutEpub, Put, EarnedInv, SecondHalfEarned
  <2>2. CASE ~PutEpub
    BY <1>3, <2>2, EarnedQuiet DEF InitNode, RmPub, RmPrv, RmSpc, TakeEpub, NoEpub, GenPrv, GenPub,
      SaveSpc, ParseEpubRefused
  <2> QED BY <2>1, <2>2
<1>4. CASE Stage1
  <2>1. CASE PutCs1
    BY <2>1 DEF PutCs1, Put, EarnedInv, SecondHalfEarned
  <2>2. CASE ~PutCs1
    BY <1>4, <2>2, EarnedQuiet DEF Stage1, TakeCs1, NoCs1, Encrypt, EncryptRefused, SaveLen, SaveMspc,
      ParseCs1Refused
  <2> QED BY <2>1, <2>2
<1>5. CASE Stage2
  <2>1. CASE CheckGood
    BY <2>1 DEF CheckGood, EarnedInv, SecondHalfEarned
  <2>2. CASE TempAnswer
    BY <2>2, EarnedAnswer DEF TempAnswer, EarnedInv, SecondHalfEarned
  <2>3. CASE TempRefusal
    BY <2>3, EarnedRefusal DEF TempRefusal, EarnedInv, SecondHalfEarned
  <2>4. CASE PutCs2
    BY <2>4 DEF PutCs2, Put, EarnedInv, SecondHalfEarned
  <2>5. CASE TakeCs2 \/ NoCs2 \/ CheckBad \/ DecryptRefused \/ NoMspc
    BY <2>5, EarnedQuiet DEF TakeCs2, NoCs2, CheckBad, DecryptRefused, NoMspc
  <2> QED BY <1>5, <2>1, <2>2, <2>3, <2>4, <2>5 DEF Stage2
<1> QED BY <1>1, <1>2, <1>3, <1>4, <1>5 DEF Start

LEMMA EarnedCut == KeysInv /\ EarnedInv /\ (Crash \/ CallFails) => EarnedInv'
<1> SUFFICES ASSUME KeysInv, EarnedInv, Crash \/ CallFails PROVE EarnedInv'
  OBVIOUS
<1>1. Cut
  BY DEF Crash, CallFails
<1>2. pc' # "answer"
  BY DEF KeysInv, Crash, CallFails, End, Goto, Dispatch, FirstStep, Cmds
<1>3. checked' = checked /\ download' = download
  BY <1>1 DEF Cut, Whole, TornDeploy, TornPem, TornMspc, TornTemp, outbox
<1>4. CASE temp' = temp
  BY <1>2, <1>3, <1>4, EarnedQuiet
<1>5. CASE TornTemp
  BY <1>2, <1>3, <1>5, EarnedRefusal, EarnedAnswer DEF TornTemp, EarnedInv, SecondHalfEarned
<1> QED BY <1>1, <1>4, <1>5 DEF Cut, Whole, TornDeploy, TornPem, TornMspc, outbox

LEMMA EarnedStep == KeysInv /\ EarnedInv /\ [Next]_vars => EarnedInv'
<1>1. EarnedInv /\ UNCHANGED vars => EarnedInv'
  BY DEF EarnedInv, SecondHalfEarned, vars, outbox, hist
<1> QED BY <1>1, EarnedStart, EarnedCut DEF Next

(* Whatever is cut or fails, no second half of a message of the node       *)
(* leaves it before init_cs2 has found the words in what was sent for it   *)
(* under the node's key, while that message was the node's.                *)
THEOREM InterlockHolds == Spec => []SecondHalfEarned
<1>1. EarnedInv => SecondHalfEarned
  BY DEF EarnedInv
<1> QED BY <1>1, KeysInit, KeysStep, EarnedInit, EarnedStep, PTL DEF Spec

-----------------------------------------------------------------------------
(* Types: a stage reads the file it has taken, a message is counted once   *)
(* it is made, and spc.data is read at the start only.                     *)
InitSteps == {"gen_prv", "gen_pub", "save_spc", "put_epub"}
Stage1Steps == {"encrypt", "save_len", "save_mspc", "put_cs1"}
Stage2Steps == {"decrypt", "answer", "refuse", "put_cs2"}

TypeInv ==
  /\ TypeOK
  /\ pc = "gen" => order \in Order
  /\ msg.n \in Nat
  /\ pc \in InitSteps => taken["spcepub"] # {}
  /\ pc \in Stage1Steps => taken["spccs1"] # {}
  /\ pc \in Stage2Steps => taken["spccs2"] # {}

LEMMA TypeInit == Init => TypeInv
<1> SUFFICES ASSUME Init PROVE TypeInv
  OBVIOUS
<1>1. NoMessage \in Message /\ NoMessage.n \in Nat
  BY DEF NoMessage, Message
<1> QED
  BY <1>1 DEF Init, TypeInv, TypeOK, Absent, NoOrder, Steps, InitSteps, Stage1Steps, Stage2Steps

(* The files of the ground, and the file a directory holds for a kind.     *)
LEMMA GroundFiles ==
  ASSUME TypeOK
  PROVE  \A f \in GroundFile : f \in File /\ f.key > 0 /\ f.whole
<1>1. Published \subseteq Nat /\ \A k \in Published : k > 0
  BY DEF TypeOK, Published, Answer
<1>2. \A f \in [kind : {"spcepub"}, u : Uuids, key : SpcKeys, words : {TRUE}, whole : {TRUE}] :
        f \in File /\ f.key > 0 /\ f.whole
  <2>1. \A k \in SpcKeys : k \in Nat /\ k > 0
    BY NodeAssumption
  <2> QED BY <2>1 DEF File, Kinds
<1>3. \A f \in [kind : {"spccs1", "spccs2"}, u : Uuids, key : Published, words : BOOLEAN, whole : {TRUE}] :
        f \in File /\ f.key > 0 /\ f.whole
  BY <1>1 DEF File, Kinds
<1> QED BY <1>2, <1>3 DEF GroundFile

LEMMA TheTaken == \A kind \in Kinds : taken[kind] # {} => The(kind) \in taken[kind]
  BY DEF The

LEMMA PutTyped ==
  ASSUME NEW S, NEW dir \in SUBSET S, NEW f \in S
  PROVE  Put(dir, f) \in SUBSET S
  BY DEF Put

(* A run of spcstart up to its stage.                                      *)
LEMMA TypeStart == TypeInv /\ (Run \/ GenFile \/ GenFileRefused) => TypeInv'
<1> SUFFICES ASSUME TypeInv, Run \/ GenFile \/ GenFileRefused PROVE TypeInv'
  OBVIOUS
<1> USE DEF TypeInv, TypeOK, Steps, InitSteps, Stage1Steps, Stage2Steps, pems, outbox, hist, bounds, proc
<1>1. CASE Run
  <2>1. order' \in Order
    BY <1>1, GroundFiles DEF Run, Order
  <2> QED BY <1>1, <2>1 DEF Run
<1>2. ASSUME GenFile \/ GenFileRefused
      PROVE  TypeInv'
  <2>1. order \in Order /\ pc = "gen"
    BY <1>2 DEF GenFile, GenFileRefused
  <2>2. order.file \in File /\ [order.file EXCEPT !.whole = FALSE] \in File /\ order.cmd \in Cmds
    BY <2>1 DEF Order, File
  <2>3. deploy' \in SUBSET File
    BY <1>2, <2>2, PutTyped DEF GenFile, GenFileRefused
  <2>4. /\ pc' \in {"idle", "rm_pub", "take_cs1", "take_cs2"}
        /\ order' \in Order \cup {NoOrder} /\ msg' \in Message /\ msg'.n \in Nat
    <3>1. Dispatch
      BY <1>2 DEF GenFile, GenFileRefused
    <3> QED BY <2>1, <2>2, <3>1 DEF Dispatch, Goto, End, FirstStep, Cmds, NoMessage, Message
  <2>5. /\ UNCHANGED <<pems, taken, mspc, outbox, keys, made, checked, first, agreed, bounds>>
        /\ clean' \in BOOLEAN
    BY <1>2 DEF GenFile, GenFileRefused
  <2> QED BY <2>3, <2>4, <2>5
<1> QED BY <1>1, <1>2

LEMMA EndTyped ==
  ASSUME End PROVE pc' = "idle" /\ order' = NoOrder /\ msg' \in Message /\ msg'.n \in Nat
  BY DEF End, NoMessage, Message

LEMMA TypeInitNode == TypeInv /\ InitNode => TypeInv'
<1> SUFFICES ASSUME TypeInv, InitNode PROVE TypeInv'
  OBVIOUS
<1> USE DEF TypeInv, TypeOK, Steps, InitSteps, Stage1Steps, Stage2Steps, pems, outbox, hist, bounds, proc, Goto
<1>1. CASE RmPub BY <1>1 DEF RmPub, Absent
<1>2. CASE RmPrv BY <1>2 DEF RmPrv, Absent
<1>3. CASE RmSpc BY <1>3 DEF RmSpc, Absent
<1>4. CASE TakeEpub BY <1>4 DEF TakeEpub, Take, Kinds
<1>5. CASE NoEpub \/ ParseEpubRefused BY <1>5, EndTyped DEF NoEpub, ParseEpubRefused, Return
<1>6. CASE GenPrv BY <1>6 DEF GenPrv
<1>7. CASE GenPub BY <1>7 DEF GenPub
<1>8. CASE SaveSpc
  <2>1. The("spcepub") \in File
    BY <1>8, TheTaken DEF SaveSpc, Kinds
  <2>2. The("spcepub").key \in Nat
    BY <2>1 DEF File
  <2> QED BY <1>8, <2>2 DEF SaveSpc
<1>9. CASE PutEpub
  <2>1. The("spcepub") \in File
    BY <1>9, TheTaken DEF PutEpub, Kinds
  <2>2. [kind |-> "satepub", u |-> The("spcepub").u, n |-> satpub, said |-> TRUE] \in Answer
    BY <2>1 DEF File, Answer, Torn
  <2>3. download' \in SUBSET Answer
    BY <1>9, <2>2, PutTyped DEF PutEpub
  <2> QED BY <1>9, <2>3, EndTyped DEF PutEpub
<1> QED BY <1>1, <1>2, <1>3, <1>4, <1>5, <1>6, <1>7, <1>8, <1>9 DEF InitNode

LEMMA TypeStage1 == TypeInv /\ Stage1 => TypeInv'
<1> SUFFICES ASSUME TypeInv, Stage1 PROVE TypeInv'
  OBVIOUS
<1> USE DEF TypeInv, TypeOK, Steps, InitSteps, Stage1Steps, Stage2Steps, pems, outbox, hist, bounds, proc, Goto
<1>1. CASE TakeCs1 BY <1>1 DEF TakeCs1, Take, Kinds
<1>2. CASE NoCs1 \/ EncryptRefused \/ ParseCs1Refused
  BY <1>2, EndTyped DEF NoCs1, EncryptRefused, ParseCs1Refused, Return
<1>3. CASE Encrypt
  <2>1. msg' \in Message /\ msg'.n \in Nat
    BY <1>3 DEF Encrypt, Message
  <2> QED BY <1>3, <2>1 DEF Encrypt
<1>4. CASE SaveLen BY <1>4 DEF SaveLen, Short, Message
<1>5. CASE SaveMspc BY <1>5 DEF SaveMspc
<1>6. CASE PutCs1
  <2>1. The("spccs1") \in File
    BY <1>6, TheTaken DEF PutCs1, Kinds
  <2>2. [kind |-> "satcs1", u |-> The("spccs1").u, n |-> msg.n, said |-> TRUE] \in Answer
    BY <2>1 DEF File, Answer
  <2>3. download' \in SUBSET Answer
    BY <1>6, <2>2, PutTyped DEF PutCs1
  <2> QED BY <1>6, <2>3, EndTyped DEF PutCs1
<1> QED BY <1>1, <1>2, <1>3, <1>4, <1>5, <1>6 DEF Stage1

(* What stage 2 puts into temp.satcs2.                                     *)
LEMMA Cs2Typed ==
  ASSUME TypeInv, pc \in Stage2Steps
  PROVE  Refusal \subseteq Answer /\ Answered \subseteq Answer
<1>1. The("spccs2").u \in Uuids
  BY TheTaken DEF TypeInv, TypeOK, Kinds, File
<1>2. \A n \in Int : \A said \in BOOLEAN : Cs2(n, said) \subseteq Answer
  BY <1>1 DEF Cs2, Answer
<1>3. mspc.n \in Int
  BY DEF TypeInv, TypeOK, Message
<1>4. (IF temp = {} THEN 0 ELSE (CHOOSE a \in temp : TRUE).n) \in Int
  <2>1. CASE temp # {}
    <3>1. (CHOOSE a \in temp : TRUE) \in temp
      BY <2>1
    <3> QED BY <3>1, <2>1 DEF TypeInv, TypeOK, Answer
  <2> QED BY <2>1
<1> QED BY <1>2, <1>3, <1>4 DEF Refusal, Answered

LEMMA TypeStage2 == TypeInv /\ Stage2 => TypeInv'
<1> SUFFICES ASSUME TypeInv, Stage2 PROVE TypeInv'
  OBVIOUS
<1> USE DEF TypeInv, TypeOK, Steps, InitSteps, Stage1Steps, Stage2Steps, pems, outbox, hist, bounds, proc, Goto
<1>1. CASE TakeCs2 BY <1>1 DEF TakeCs2, Take, Kinds
<1>2. CASE NoCs2 \/ DecryptRefused \/ NoMspc
  BY <1>2, EndTyped DEF NoCs2, DecryptRefused, NoMspc, Return
<1>3. CASE CheckGood
  <2>1. mspc.n \in Int
    BY DEF Message
  <2>2. checked' \in SUBSET Int
    BY <1>3, <2>1 DEF CheckGood
  <2> QED BY <1>3, <2>2 DEF CheckGood
<1>4. CASE CheckBad BY <1>4 DEF CheckBad
<1>5. CASE TempAnswer BY <1>5, Cs2Typed DEF TempAnswer
<1>6. CASE TempRefusal BY <1>6, Cs2Typed DEF TempRefusal
<1>7. CASE PutCs2
  <2>1. download' \in SUBSET Answer
    BY <1>7, PutTyped DEF PutCs2
  <2> QED BY <1>7, <2>1, EndTyped DEF PutCs2
<1> QED BY <1>1, <1>2, <1>3, <1>4, <1>5, <1>6, <1>7 DEF Stage2

LEMMA TypeCut == TypeInv /\ (Crash \/ CallFails) => TypeInv'
<1> SUFFICES ASSUME TypeInv, Crash \/ CallFails PROVE TypeInv'
  OBVIOUS
<1>1. Cut /\ UNCHANGED taken
  BY DEF Crash, CallFails, Cut, Whole, TornDeploy, TornPem, TornMspc, TornTemp
<1>2. /\ satprv' \in Nat \cup {Torn} /\ satpub' \in Nat \cup {Torn} /\ spcpub' \in Nat \cup {Torn}
      /\ deploy' \in SUBSET File /\ mspc' \in Message
      /\ temp' \in SUBSET Answer /\ download' \in SUBSET Answer
  <2> USE DEF TypeInv, TypeOK, pems, outbox
  <2>1. CASE Whole BY <2>1 DEF Whole
  <2>2. CASE TornDeploy
    <3>1. [order.file EXCEPT !.whole = FALSE] \in File
      BY <2>2 DEF TornDeploy, Order, File
    <3> QED BY <2>2, <3>1, PutTyped DEF TornDeploy
  <2>3. CASE TornPem BY <2>3 DEF TornPem
  <2>4. CASE TornMspc BY <2>4 DEF TornMspc, Short, Mixed, Message
  <2>5. CASE TornTemp BY <2>5, Cs2Typed DEF TornTemp, Stage2Steps
  <2> QED BY <1>1, <2>1, <2>2, <2>3, <2>4, <2>5 DEF Cut
<1>3. /\ pc' \in {"idle", "rm_pub", "take_cs1", "take_cs2"} \/ (pc = "gen_pub" /\ pc' = "save_spc")
      /\ order' \in Order \cup {NoOrder} /\ msg' \in Message /\ msg'.n \in Nat
  <2> USE DEF TypeInv, TypeOK
  <2>1. CASE End BY <2>1, EndTyped
  <2>2. CASE pc = "gen" /\ Dispatch
    <3>1. order.cmd \in Cmds
      BY <2>2 DEF Order
    <3> QED BY <2>2, <3>1, EndTyped DEF Dispatch, Goto, FirstStep, Cmds, proc
  <2>3. CASE pc = "gen_pub" /\ Goto("save_spc") BY <2>3 DEF Goto, proc
  <2> QED BY <2>1, <2>2, <2>3 DEF Crash, CallFails
<1>4. /\ UNCHANGED <<keys, made, checked, first, agreed, runs>>
      /\ clean' \in BOOLEAN /\ crashes' \in Nat /\ faults' \in Nat
  <2>1. crashes \in Nat /\ faults \in Nat
    BY DEF TypeInv, TypeOK
  <2>2. \/ crashes' = crashes + 1 /\ faults' = faults
        \/ crashes' = crashes /\ faults' = faults + 1
    BY DEF Crash, CallFails
  <2>3. crashes' \in Nat /\ faults' \in Nat
    BY <2>1, <2>2
  <2>4. UNCHANGED <<keys, made, checked, first, agreed, runs>> /\ clean' \in BOOLEAN
    BY <1>1, Zenon DEF Cut
  <2> QED BY <2>3, <2>4
<1> QED
  BY <1>1, <1>2, <1>3, <1>4 DEF TypeInv, TypeOK, Steps, InitSteps, Stage1Steps, Stage2Steps

LEMMA TypeStep == TypeInv /\ [Next]_vars => TypeInv'
<1>1. TypeInv /\ UNCHANGED vars => TypeInv'
  BY DEF TypeInv, TypeOK, vars, pems, outbox, proc, hist, bounds
<1> QED BY <1>1, TypeStart, TypeInitNode, TypeStage1, TypeStage2, TypeCut DEF Next, Start

(* Every step leaves every variable in its type; in particular no stage    *)
(* reads a file it has not taken.                                          *)
THEOREM NodeTyped == Spec => []TypeOK
<1>1. TypeInv => TypeOK
  BY DEF TypeInv
<1> QED BY <1>1, TypeInit, TypeStep, PTL DEF Spec

-----------------------------------------------------------------------------
(* The exchange: from the first key that is removed to the answer that is  *)
(* delivered nothing is agreed, and outside of that nothing touches a key, *)
(* the file of the ground's key or a satepub that was delivered.           *)
Exchanging == {"rm_prv", "rm_spc", "take_epub"} \cup InitSteps

AgreedInv ==
  /\ ExchangeAgreed
  /\ pc \in Exchanging => ~agreed
  /\ pc = "gen_pub" => satprv > 0
  /\ clean /\ pc \in {"save_spc", "put_epub"} => satpub > 0
  /\ pc = "put_epub" => spcpub = The("spcepub").key

LEMMA AgreedInit == Init => AgreedInv
  BY DEF Init, AgreedInv, ExchangeAgreed, Exchanging, InitSteps

(* What is delivered in other stages replaces no satepub.                  *)
LEMMA PutKeeps ==
  ASSUME NEW dir, NEW a, a.kind # "satepub"
  PROVE  \A b \in dir : b.kind = "satepub" => b \in Put(dir, a)
  BY DEF Put

(* Outside of an exchange.                                                 *)
LEMMA AgreedElsewhere ==
  ASSUME AgreedInv, pc' \notin Exchanging,
         UNCHANGED <<satpub, spcpub, agreed>>, taken'["spcepub"] = taken["spcepub"], clean' => clean,
         \A a \in download : a.kind = "satepub" => a \in download'
  PROVE  AgreedInv'
<1>1. The("spcepub")' = The("spcepub")
  BY DEF The
<1>2. ExchangeAgreed'
  BY <1>1 DEF AgreedInv, ExchangeAgreed
<1> QED BY <1>2 DEF AgreedInv, Exchanging, InitSteps

LEMMA AgreedStart == TypeInv /\ AgreedInv /\ (Run \/ GenFile \/ GenFileRefused) => AgreedInv'
<1> SUFFICES ASSUME TypeInv, AgreedInv, Run \/ GenFile \/ GenFileRefused PROVE AgreedInv'
  OBVIOUS
<1>1. UNCHANGED <<satpub, spcpub, agreed, taken, download>>
  BY DEF Run, GenFile, GenFileRefused, pems, outbox, hist
<1>2. clean' => clean
  BY DEF Run, GenFile, GenFileRefused, hist
<1>3. pc' \notin Exchanging
  BY DEF TypeInv, Order, Run, GenFile, GenFileRefused, Dispatch, End, Goto, FirstStep, Cmds, Exchanging, InitSteps
<1> QED BY <1>1, <1>2, <1>3, AgreedElsewhere

LEMMA AgreedInitNode == TypeInv /\ AgreedInv /\ InitNode => AgreedInv'
<1> SUFFICES ASSUME TypeInv, AgreedInv, InitNode PROVE AgreedInv'
  OBVIOUS
<1> USE DEF AgreedInv, ExchangeAgreed, Exchanging, InitSteps, Goto, End, Return, pems, outbox, hist, The
<1>1. CASE RmPub BY <1>1 DEF RmPub
<1>2. CASE RmPrv BY <1>2 DEF RmPrv
<1>3. CASE RmSpc BY <1>3 DEF RmSpc
<1>4. CASE TakeEpub BY <1>4 DEF TakeEpub, Take
<1>5. CASE NoEpub \/ ParseEpubRefused BY <1>5 DEF NoEpub, ParseEpubRefused
<1>6. CASE GenPrv BY <1>6 DEF GenPrv, TypeInv, TypeOK
<1>7. CASE GenPub BY <1>7 DEF GenPub
<1>8. CASE SaveSpc BY <1>8 DEF SaveSpc
<1>9. CASE PutEpub
  <2>1. taken["spcepub"] # {} /\ spcpub = The("spcepub").key
    BY <1>9 DEF TypeInv, PutEpub
  <2>2. \E a \in download' : a.kind = "satepub" /\ a.n = satpub
    <3> DEFINE answer == [kind |-> "satepub", u |-> The("spcepub").u, n |-> satpub, said |-> TRUE]
    <3>1. answer.kind = "satepub" /\ answer.n = satpub
      OBVIOUS
    <3>2. answer \in download'
      <4> HIDE DEF answer
      <4>1. download' = Put(download, answer)
        BY <1>9 DEF PutEpub, answer, The
      <4> QED BY <4>1 DEF Put
    <3> HIDE DEF answer
    <3> QED BY <3>1, <3>2
  <2> QED BY <1>9, <2>1, <2>2 DEF PutEpub
<1> QED BY <1>1, <1>2, <1>3, <1>4, <1>5, <1>6, <1>7, <1>8, <1>9 DEF InitNode

LEMMA AgreedStages == TypeInv /\ EarnedInv /\ AgreedInv /\ (Stage1 \/ Stage2) => AgreedInv'
<1> SUFFICES ASSUME TypeInv, EarnedInv, AgreedInv, Stage1 \/ Stage2 PROVE AgreedInv'
  OBVIOUS
<1> USE DEF pems, outbox, hist, Take, Return, Goto, End
<1>1. /\ UNCHANGED <<satpub, spcpub, agreed, clean>> /\ taken'["spcepub"] = taken["spcepub"]
      /\ pc' \notin Exchanging
  <2> USE DEF TypeInv, TypeOK, Kinds, Exchanging, InitSteps
  <2>1. CASE Stage1
    BY <2>1 DEF Stage1, TakeCs1, NoCs1, Encrypt, EncryptRefused, SaveLen, SaveMspc, PutCs1, ParseCs1Refused
  <2>2. CASE Stage2
    BY <2>2 DEF Stage2, TakeCs2, NoCs2, CheckGood, CheckBad, DecryptRefused, TempAnswer, NoMspc,
      TempRefusal, PutCs2
  <2> QED BY <2>1, <2>2
<1>2. \A a \in download : a.kind = "satepub" => a \in download'
  <2>1. CASE PutCs1
    BY <2>1, PutKeeps DEF PutCs1
  <2>2. CASE PutCs2
    <3>1. PICK a \in temp : download' = Put(download, a)
      BY <2>2 DEF PutCs2
    <3> QED BY <3>1, PutKeeps DEF EarnedInv
  <2>3. CASE ~PutCs1 /\ ~PutCs2
    <3>1. CASE Stage1
      BY <2>3, <3>1 DEF Stage1, TakeCs1, NoCs1, Encrypt, EncryptRefused, SaveLen, SaveMspc, ParseCs1Refused
    <3>2. CASE Stage2
      BY <2>3, <3>2 DEF Stage2, TakeCs2, NoCs2, CheckGood, CheckBad, DecryptRefused, TempAnswer, NoMspc,
        TempRefusal
    <3> QED BY <3>1, <3>2
  <2> QED BY <2>1, <2>2, <2>3
<1> QED BY <1>1, <1>2, AgreedElsewhere

(* A cut can tear a key, and openssl fail to write one, only while nothing *)
(* is agreed.                                                              *)
LEMMA AgreedCut == TypeInv /\ AgreedInv /\ (Crash \/ CallFails) => AgreedInv'
<1> SUFFICES ASSUME TypeInv, AgreedInv, Crash \/ CallFails PROVE AgreedInv'
  OBVIOUS
<1>1. Cut /\ UNCHANGED <<taken, download, agreed>> /\ ~clean'
  BY DEF Crash, CallFails, Cut, Whole, TornDeploy, TornPem, TornMspc, TornTemp, hist, outbox
<1>2. pc' \notin Exchanging \/ (pc = "gen_pub" /\ pc' = "save_spc")
  BY DEF TypeInv, Order, Crash, CallFails, Dispatch, End, Goto, FirstStep, Cmds, Exchanging, InitSteps
<1>3. CASE agreed
  <2>1. UNCHANGED <<satpub, spcpub>> /\ pc # "gen_pub"
    BY <1>1, <1>3 DEF AgreedInv, Cut, Whole, TornDeploy, TornPem, TornMspc, TornTemp, pems, Exchanging, InitSteps
  <2> QED BY <1>1, <1>2, <2>1, AgreedElsewhere
<1>4. CASE ~agreed
  BY <1>1, <1>2, <1>4 DEF AgreedInv, ExchangeAgreed, Exchanging, InitSteps
<1> QED BY <1>3, <1>4

LEMMA AgreedStep == TypeInv /\ EarnedInv /\ AgreedInv /\ [Next]_vars => AgreedInv'
<1>1. AgreedInv /\ UNCHANGED vars => AgreedInv'
  BY DEF AgreedInv, ExchangeAgreed, The, vars, pems, outbox, hist
<1> QED BY <1>1, AgreedStart, AgreedInitNode, AgreedStages, AgreedCut DEF Next, Start

(* Once the exchange has ended well both sides have each other's keys, and *)
(* no crash, no failure and no other stage takes that away.                *)
THEOREM ExchangeHolds == Spec => []ExchangeAgreed
<1>1. AgreedInv => ExchangeAgreed
  BY DEF AgreedInv
<1> QED
  BY <1>1, TypeInit, TypeStep, KeysInit, KeysStep, EarnedInit, EarnedStep, AgreedInit, AgreedStep, PTL
  DEF Spec

-----------------------------------------------------------------------------
(* The files of the ground: every one carries a key, and a half was made   *)
(* for a key the node has made. While all goes well they are all there.    *)
Good(f) ==
  /\ f.key > 0
  /\ f.kind # "spcepub" => f.key <= keys
  /\ clean => f.whole

FilesInv ==
  /\ satprv <= keys /\ satpub <= keys
  /\ \A a \in download : a.kind = "satepub" => a.n <= keys
  /\ pc = "gen" => order.file.whole /\ Good(order.file)
  /\ \A f \in deploy : Good(f)
  /\ \A k \in Kinds : \A f \in taken[k] : f.kind = k /\ Good(f)

LEMMA FilesInit == Init => FilesInv
  BY DEF Init, FilesInv, Absent, Kinds

(* A good file stays good.                                                 *)
LEMMA GoodStays ==
  ASSUME keys \in Nat, keys' \in Nat, keys' >= keys, clean' => clean,
         NEW f, Good(f), f.kind # "spcepub" => f.key \in Nat
  PROVE  Good(f)'
  BY DEF Good

(* Where no file of the ground is new, and no key but a torn one.          *)
LEMMA FilesFrame ==
  ASSUME TypeInv, TypeInv', FilesInv, keys' >= keys, clean' => clean,
         satprv' <= keys', satpub' <= keys',
         \A a \in download' : a.kind = "satepub" => a \in download \/ a.n <= keys,
         pc' # "gen", deploy' \subseteq deploy,
         \A k \in Kinds : taken'[k] \subseteq taken[k] \/ (taken'[k] \subseteq deploy /\ \A f \in taken'[k] : f.kind = k)
  PROVE  FilesInv'
<1>1. keys \in Nat /\ keys' \in Nat
  BY DEF TypeInv, TypeOK
<1>2. \A f \in File : Good(f) => Good(f)'
  BY <1>1, GoodStays DEF File
<1>3. \A f \in deploy' : Good(f)'
  BY <1>2 DEF FilesInv, TypeInv, TypeOK
<1>4. ASSUME NEW k \in Kinds, NEW f \in taken'[k]
      PROVE  f.kind = k /\ Good(f)'
  <2>1. f \in File
    BY DEF TypeInv, TypeOK
  <2>2. f.kind = k /\ Good(f)
    BY DEF FilesInv
  <2> QED BY <1>2, <2>1, <2>2
<1>5. \A a \in download' : a.kind = "satepub" => a.n <= keys'
  <2>1. ASSUME NEW a \in download', a.kind = "satepub" PROVE a.n <= keys'
    <3>1. a.n \in Int
      BY DEF TypeInv, TypeOK, Answer
    <3>2. a.n <= keys
      BY <2>1 DEF FilesInv
    <3> QED BY <1>1, <3>1, <3>2
  <2> QED BY <2>1
<1> QED BY <1>3, <1>4, <1>5 DEF FilesInv

LEMMA FilesRun == TypeInv /\ FilesInv /\ Run => FilesInv'
<1> SUFFICES ASSUME TypeInv, FilesInv, Run PROVE FilesInv'
  OBVIOUS
<1>1. UNCHANGED <<satprv, satpub, download, deploy, taken, keys, clean>>
  BY DEF Run, pems, outbox, hist
<1>2. order'.file \in GroundFile
  BY DEF Run
<1>3. order'.file.whole /\ order'.file.key > 0
  BY <1>2, GroundFiles DEF TypeInv
<1>4. \A k \in Published : k <= keys
  BY DEF Published, FilesInv
<1>5. order'.file.kind # "spcepub" => order'.file.key <= keys
  BY <1>2, <1>4 DEF GroundFile
<1> QED BY <1>1, <1>3, <1>5 DEF FilesInv, Good

(* A part of a good file, once something was cut or failed.                *)
LEMMA PartGood ==
  ASSUME TypeInv, FilesInv, pc = "gen", keys' = keys, ~clean',
         NEW f, f = [order.file EXCEPT !.whole = FALSE]
  PROVE  Good(f)'
<1>1. order.file \in File
  BY DEF TypeInv, Order
<1>2. f.key = order.file.key /\ f.kind = order.file.kind
  BY <1>1 DEF File
<1> QED BY <1>2 DEF Good, FilesInv

LEMMA FilesGen == TypeInv /\ FilesInv /\ (GenFile \/ GenFileRefused) => FilesInv'
<1> SUFFICES ASSUME TypeInv, FilesInv, GenFile \/ GenFileRefused PROVE FilesInv'
  OBVIOUS
<1>1. UNCHANGED <<satprv, satpub, download, taken, keys>> /\ (clean' => clean) /\ pc = "gen"
  BY DEF GenFile, GenFileRefused, pems, outbox
<1>2. pc' # "gen"
  BY <1>1 DEF TypeInv, Order, GenFile, GenFileRefused, Dispatch, End, Goto, FirstStep, Cmds
<1>3. \A f : Good(f) => Good(f)'
  BY <1>1 DEF Good
<1>4. \A f \in deploy' : Good(f)'
  <2>1. CASE GenFile
    BY <1>1, <1>3, <2>1 DEF GenFile, Put, FilesInv
  <2>2. CASE GenFileRefused /\ deploy' = deploy
    BY <1>3, <2>2 DEF FilesInv
  <2>3. CASE GenFileRefused /\ deploy' # deploy
    <3>1. PICK f : f = [order.file EXCEPT !.whole = FALSE] /\ deploy' = Put(deploy, f) /\ ~clean'
      BY <2>3 DEF GenFileRefused
    <3>2. Good(f)'
      BY <1>1, <3>1, PartGood
    <3> QED BY <1>3, <3>1, <3>2 DEF Put, FilesInv
  <2> QED BY <2>1, <2>2, <2>3
<1> QED BY <1>1, <1>2, <1>3, <1>4 DEF FilesInv

LEMMA FilesInitNode == TypeInv /\ FilesInv /\ InitNode /\ TypeInv' => FilesInv'
<1> SUFFICES ASSUME TypeInv, FilesInv, InitNode, TypeInv' PROVE FilesInv'
  OBVIOUS
<1>0. keys \in Nat /\ satprv <= keys /\ satpub <= keys /\ satprv \in Int /\ satpub \in Int
  BY DEF TypeInv, TypeOK, FilesInv, Torn
<1> USE DEF Goto, End, Return, pems, outbox, hist
<1>1. CASE RmPub \/ RmPrv \/ RmSpc
  BY <1>0, <1>1, FilesFrame DEF RmPub, RmPrv, RmSpc, Absent
<1>2. CASE TakeEpub
  BY <1>0, <1>2, FilesFrame DEF TakeEpub, Take, OfKind, TypeInv, TypeOK, Kinds
<1>3. CASE NoEpub \/ ParseEpubRefused \/ SaveSpc
  BY <1>0, <1>3, FilesFrame DEF NoEpub, ParseEpubRefused, SaveSpc
<1>4. CASE GenPrv BY <1>0, <1>4, FilesFrame DEF GenPrv
<1>5. CASE GenPub BY <1>0, <1>5, FilesFrame DEF GenPub
<1>6. CASE PutEpub
  <2>1. PICK answer : answer.n = satpub /\ download' = Put(download, answer)
    BY <1>6 DEF PutEpub
  <2>2. \A a \in download' : a.kind = "satepub" => a \in download \/ a.n <= keys
    BY <1>0, <2>1 DEF Put
  <2>3. UNCHANGED <<satprv, satpub, deploy, taken, keys, clean>> /\ pc' # "gen"
    BY <1>6 DEF PutEpub
  <2> QED BY <1>0, <2>2, <2>3, FilesFrame
<1> QED BY <1>1, <1>2, <1>3, <1>4, <1>5, <1>6 DEF InitNode

LEMMA FilesStages == TypeInv /\ EarnedInv /\ FilesInv /\ (Stage1 \/ Stage2) /\ TypeInv' => FilesInv'
<1> SUFFICES ASSUME TypeInv, EarnedInv, FilesInv, Stage1 \/ Stage2, TypeInv' PROVE FilesInv'
  OBVIOUS
<1>0. keys \in Nat /\ satprv <= keys /\ satpub <= keys
  BY DEF TypeInv, TypeOK, FilesInv
<1> USE DEF Goto, End, Return, pems, outbox, hist
<1>1. CASE TakeCs1
  BY <1>0, <1>1, FilesFrame DEF TakeCs1, Take, OfKind, TypeInv, TypeOK, Kinds
<1>2. CASE TakeCs2
  BY <1>0, <1>2, FilesFrame DEF TakeCs2, Take, OfKind, TypeInv, TypeOK, Kinds
<1>3. CASE ~TakeCs1 /\ ~TakeCs2
  <2>1. UNCHANGED <<satprv, satpub, deploy, taken, keys, clean>> /\ pc' # "gen"
    <3>1. CASE Stage1
      BY <1>3, <3>1 DEF Stage1, NoCs1, Encrypt, EncryptRefused, SaveLen, SaveMspc, PutCs1, ParseCs1Refused
    <3>2. CASE Stage2
      BY <1>3, <3>2 DEF Stage2, NoCs2, CheckGood, CheckBad, DecryptRefused, TempAnswer, NoMspc,
        TempRefusal, PutCs2
    <3> QED BY <3>1, <3>2
  <2>2. \A a \in download' : a.kind = "satepub" => a \in download
    <3>1. CASE PutCs1 BY <3>1 DEF PutCs1, Put
    <3>2. CASE PutCs2 BY <3>2 DEF PutCs2, Put, EarnedInv
    <3>3. CASE Stage1 /\ ~PutCs1
      BY <1>3, <3>3 DEF Stage1, NoCs1, Encrypt, EncryptRefused, SaveLen, SaveMspc, ParseCs1Refused
    <3>4. CASE Stage2 /\ ~PutCs2
      BY <1>3, <3>4 DEF Stage2, NoCs2, CheckGood, CheckBad, DecryptRefused, TempAnswer, NoMspc, TempRefusal
    <3> QED BY <3>1, <3>2, <3>3, <3>4
  <2> QED BY <1>0, <2>1, <2>2, FilesFrame
<1> QED BY <1>1, <1>2, <1>3

LEMMA FilesCut == TypeInv /\ FilesInv /\ (Crash \/ CallFails) /\ TypeInv' => FilesInv'
<1> SUFFICES ASSUME TypeInv, FilesInv, Crash \/ CallFails, TypeInv' PROVE FilesInv'
  OBVIOUS
<1>0. keys \in Nat /\ satprv <= keys /\ satpub <= keys /\ satprv \in Int /\ satpub \in Int
  BY DEF TypeInv, TypeOK, FilesInv, Torn
<1>1. Cut /\ UNCHANGED <<taken, download, keys>> /\ ~clean'
  BY DEF Crash, CallFails, Cut, Whole, TornDeploy, TornPem, TornMspc, TornTemp, hist, outbox
<1>2. satprv' <= keys /\ satpub' <= keys
  BY <1>0, <1>1 DEF Cut, Whole, TornDeploy, TornPem, TornMspc, TornTemp, pems, Torn
<1>3. pc' # "gen"
  BY DEF TypeInv, Order, Crash, CallFails, Dispatch, End, Goto, FirstStep, Cmds
<1>4. CASE deploy' = deploy
  BY <1>1, <1>2, <1>3, <1>4 DEF FilesInv, Good
<1>5. CASE TornDeploy
  <2>1. PICK f : f = [order.file EXCEPT !.whole = FALSE] /\ deploy' = Put(deploy, f) /\ pc = "gen"
    BY <1>5 DEF TornDeploy
  <2>2. Good(f)'
    BY <1>1, <2>1, PartGood
  <2>3. \A g : Good(g) => Good(g)'
    BY <1>1 DEF Good
  <2> QED BY <1>1, <1>2, <1>3, <2>1, <2>2, <2>3 DEF FilesInv, Put
<1> QED BY <1>1, <1>4, <1>5 DEF Cut, Whole, TornPem, TornMspc, TornTemp

LEMMA FilesStep == TypeInv /\ EarnedInv /\ FilesInv /\ [Next]_vars => FilesInv'
<1>1. FilesInv /\ UNCHANGED vars => FilesInv'
  BY DEF FilesInv, Good, vars, pems, outbox, proc, hist
<1> QED
  BY <1>1, TypeStep, FilesRun, FilesGen, FilesInitNode, FilesStages, FilesCut DEF Next, Start

(* The half in spc.cs1 was made for the key pair the node has now.         *)
Bound == taken["spccs1"] # {} /\ satprv > 0 /\ The("spccs1").key = satprv

(* A half can be bound only to a pair whose initialisation was over when   *)
(* it came, so that stage 1 made and delivered a message for the ground's  *)
(* key of that pair; the next initialisation unbinds it.                   *)
FitInv ==
  /\ pc \in {"rm_spc", "take_epub", "gen_prv"} => satprv = 0
  /\ pc \in {"gen_pub", "save_spc"} => ~Bound
  /\ clean /\ satprv > 0 /\ pc \notin {"gen_pub", "save_spc"} => spcpub > 0
  /\ pc \in {"save_len", "save_mspc", "put_cs1"} => msg.key = spcpub
  /\ pc = "put_cs1" => mspc = msg
  /\ pc = "answer" => Bound
  /\ clean /\ Bound /\ pc \notin Stage1Steps => mspc.n = first /\ mspc.key = spcpub

LEMMA FitInit == Init => FitInv
  BY DEF Init, FitInv, Bound, Absent

(* Where neither the keys, nor the first half, nor the message changes.    *)
FitPoints == {"rm_spc", "take_epub", "gen_prv", "gen_pub", "save_spc"} \cup Stage1Steps

LEMMA FitFrame ==
  ASSUME FitInv, UNCHANGED <<satprv, spcpub, mspc, first>>, taken'["spccs1"] = taken["spccs1"],
         clean' => clean, pc' \notin FitPoints,
         pc \in {"gen_pub", "save_spc"} \cup Stage1Steps => ~clean', pc' = "answer" => Bound
  PROVE  FitInv'
<1>1. Bound' = Bound
  BY DEF Bound, The
<1> QED BY <1>1 DEF FitInv, FitPoints, Stage1Steps

LEMMA FitStart == TypeInv /\ FitInv /\ (Run \/ GenFile \/ GenFileRefused) => FitInv'
<1> SUFFICES ASSUME TypeInv, FitInv, Run \/ GenFile \/ GenFileRefused PROVE FitInv'
  OBVIOUS
<1>1. UNCHANGED <<satprv, spcpub, mspc, first, taken>> /\ (clean' => clean) /\ pc \in {"idle", "gen"}
  <2>1. CASE Run BY <2>1 DEF Run, pems, hist
  <2>2. CASE GenFile BY <2>2 DEF GenFile, pems, hist
  <2>3. CASE GenFileRefused BY <2>3 DEF GenFileRefused, pems, hist
  <2> QED BY <2>1, <2>2, <2>3
<1>2. pc' \in {"idle", "gen", "rm_pub", "take_cs1", "take_cs2"}
  BY DEF TypeInv, Order, Run, GenFile, GenFileRefused, Dispatch, End, Goto, FirstStep, Cmds
<1> QED BY <1>1, <1>2, FitFrame DEF FitPoints, Stage1Steps

LEMMA FitInitNode == TypeInv /\ FilesInv /\ FitInv /\ InitNode => FitInv'
<1> SUFFICES ASSUME TypeInv, FilesInv, FitInv, InitNode PROVE FitInv'
  OBVIOUS
<1> USE DEF Goto, End, Return, pems, hist, FitPoints, Stage1Steps
<1>1. CASE RmPub BY <1>1, FitFrame DEF RmPub
<1>2. CASE RmPrv BY <1>2 DEF RmPrv, FitInv, Bound, Absent
<1>3. CASE RmSpc BY <1>3 DEF RmSpc, FitInv, Bound, The
<1>4. CASE TakeEpub BY <1>4 DEF TakeEpub, Take, FitInv, Bound
<1>5. CASE NoEpub BY <1>5, FitFrame DEF NoEpub
<1>6. CASE GenPrv
  <2>1. taken["spccs1"] # {} => The("spccs1").key <= keys /\ keys \in Nat
    BY TheTaken DEF TypeInv, TypeOK, FilesInv, Good, Kinds
  <2>2. taken["spccs1"] # {} => The("spccs1").key # keys + 1
    <3>1. taken["spccs1"] # {} => The("spccs1").key \in Nat
      BY TheTaken DEF TypeInv, TypeOK, File, Kinds
    <3> QED BY <2>1, <3>1
  <2>3. ~Bound'
    BY <1>6, <2>2 DEF GenPrv, Bound, The
  <2> QED BY <1>6, <2>3 DEF GenPrv, FitInv
<1>7. CASE GenPub BY <1>7 DEF GenPub, FitInv, Bound, The
<1>8. CASE SaveSpc
  <2>1. spcpub' > 0
    BY <1>8, TheTaken DEF SaveSpc, TypeInv, InitSteps, FilesInv, Good, Kinds
  <2>2. ~Bound'
    BY <1>8 DEF SaveSpc, FitInv, Bound, The
  <2> QED BY <1>8, <2>1, <2>2 DEF SaveSpc, FitInv
<1>9. CASE ParseEpubRefused
  <2>1. ~clean
    BY <1>9, TheTaken DEF ParseEpubRefused, TypeInv, InitSteps, FilesInv, Good, Kinds
  <2> QED BY <1>9, <2>1, FitFrame DEF ParseEpubRefused
<1>10. CASE PutEpub BY <1>10, FitFrame DEF PutEpub
<1> QED BY <1>1, <1>2, <1>3, <1>4, <1>5, <1>6, <1>7, <1>8, <1>9, <1>10 DEF InitNode

LEMMA FitStage1 == TypeInv /\ FilesInv /\ FitInv /\ Stage1 => FitInv'
<1> SUFFICES ASSUME TypeInv, FilesInv, FitInv, Stage1 PROVE FitInv'
  OBVIOUS
<1> USE DEF Goto, End, Return, pems, hist, FitPoints, Stage1Steps
<1>1. CASE TakeCs1 BY <1>1 DEF TakeCs1, Take, FitInv
<1>2. CASE NoCs1 BY <1>2, FitFrame DEF NoCs1
<1>3. CASE Encrypt
  <2>1. Bound' = Bound /\ msg'.key = spcpub
    BY <1>3 DEF Encrypt, Bound, The
  <2> QED BY <1>3, <2>1 DEF Encrypt, FitInv
<1>4. CASE EncryptRefused
  <2>1. Bound' = Bound /\ (Bound => satprv > 0)
    BY <1>4 DEF EncryptRefused, Bound, The
  <2>2. spcpub \in Int
    BY DEF TypeInv, TypeOK, Torn
  <2>3. clean /\ satprv > 0 => FALSE
    BY <1>4, <2>2 DEF EncryptRefused, FitInv
  <2> QED BY <1>4, <2>1, <2>3 DEF EncryptRefused, FitInv
<1>5. CASE SaveLen
  <2>1. Bound' = Bound
    BY <1>5 DEF SaveLen, Bound, The
  <2> QED BY <1>5, <2>1 DEF SaveLen, FitInv, proc
<1>6. CASE SaveMspc
  <2>1. Bound' = Bound
    BY <1>6 DEF SaveMspc, Bound, The
  <2> QED BY <1>6, <2>1 DEF SaveMspc, FitInv, proc
<1>7. CASE PutCs1
  <2>1. Bound' = Bound
    BY <1>7 DEF PutCs1, Bound, The
  <2> QED BY <1>7, <2>1 DEF PutCs1, FitInv
<1>8. CASE ParseCs1Refused
  <2>1. ~clean
    BY <1>8, TheTaken DEF ParseCs1Refused, TypeInv, FilesInv, Good, Kinds
  <2> QED BY <1>8, <2>1, FitFrame DEF ParseCs1Refused
<1> QED BY <1>1, <1>2, <1>3, <1>4, <1>5, <1>6, <1>7, <1>8 DEF Stage1

LEMMA FitStage2 == TypeInv /\ FitInv /\ Stage2 => FitInv'
<1> SUFFICES ASSUME TypeInv, FitInv, Stage2 PROVE FitInv'
  OBVIOUS
<1>1. /\ UNCHANGED <<satprv, spcpub, mspc, first, clean>> /\ taken'["spccs1"] = taken["spccs1"]
      /\ pc \notin {"gen_pub", "save_spc"} \cup Stage1Steps /\ pc' \notin FitPoints
  BY DEF Stage2, TakeCs2, NoCs2, CheckGood, CheckBad, DecryptRefused, TempAnswer, NoMspc, TempRefusal, PutCs2,
    Take, Return, End, Goto, pems, hist, TypeInv, TypeOK, Kinds, FitPoints, Stage1Steps
<1>2. pc' = "answer" => Bound
  <2>1. CASE CheckGood
    <3>1. taken["spccs1"] # {} /\ The("spccs2") \in File /\ Decrypts
      BY <2>1, TheTaken DEF CheckGood, HaveMsat, Words, TypeInv, TypeOK, Kinds
    <3>2. The("spccs1").key = The("spccs2").key
      BY <3>1 DEF Decrypts, File
    <3> QED BY <3>1, <3>2 DEF Decrypts, Bound
  <2>2. CASE ~CheckGood
    BY <2>2 DEF Stage2, TakeCs2, NoCs2, CheckBad, DecryptRefused, TempAnswer, NoMspc, TempRefusal, PutCs2,
      Take, Return, End, Goto
  <2> QED BY <2>1, <2>2
<1> QED BY <1>1, <1>2, FitFrame

LEMMA FitCut == TypeInv /\ FitInv /\ (Crash \/ CallFails) => FitInv'
<1> SUFFICES ASSUME TypeInv, FitInv, Crash \/ CallFails PROVE FitInv'
  OBVIOUS
<1>1. Cut /\ UNCHANGED taken /\ ~clean'
  BY DEF Crash, CallFails, Cut, Whole, TornDeploy, TornPem, TornMspc, TornTemp
<1>2. pc' \in {"idle", "rm_pub", "take_cs1", "take_cs2"} \/ (pc = "gen_pub" /\ pc' = "save_spc")
  BY DEF TypeInv, Order, Crash, CallFails, Dispatch, End, Goto, FirstStep, Cmds
<1>3. pc = "gen_pub" => ~Bound'
  <2>1. pc = "gen_pub" => satprv' = satprv
    BY <1>1 DEF Cut, Whole, TornDeploy, TornPem, TornMspc, TornTemp, pems
  <2> QED BY <1>1, <2>1 DEF FitInv, Bound, The
<1> QED BY <1>1, <1>2, <1>3 DEF FitInv

LEMMA FitStep == TypeInv /\ FilesInv /\ FitInv /\ [Next]_vars => FitInv'
<1>1. FitInv /\ UNCHANGED vars => FitInv'
  BY DEF FitInv, Bound, The, vars, pems, outbox, proc, hist
<1> QED BY <1>1, FitStart, FitInitNode, FitStage1, FitStage2, FitCut DEF Next, Start

(* What the node gives away in stage 2 is the other half of the message    *)
(* whose first half the ground has, for the key the node holds.            *)
THEOREM HalvesAlwaysFit == Spec => []HalvesFit
<1>1. FitInv => HalvesFit
  BY DEF FitInv, HalvesFit, Stage1Steps
<1> QED
  BY <1>1, TypeInit, TypeStep, KeysInit, KeysStep, EarnedInit, EarnedStep, FilesInit, FilesStep,
    FitInit, FitStep, PTL
  DEF Spec

-----------------------------------------------------------------------------
(* The deploy directory: while all goes well it holds at most the file the *)
(* stage under way is about to take.                                       *)
AtMost(kind) == deploy = {} \/ \E f \in deploy : deploy = {f} /\ f.kind = kind

DrainInv ==
  /\ pc = "gen" /\ order.cmd # "other" => order.file.kind = KindOf[order.cmd]
  /\ clean =>
       /\ pc \in {"rm_pub", "rm_prv", "rm_spc", "take_epub"} => AtMost("spcepub")
       /\ pc = "take_cs1" => AtMost("spccs1")
       /\ pc = "take_cs2" => AtMost("spccs2")
       /\ pc \in {"idle", "gen"} \cup InitSteps \cup Stage1Steps \cup Stage2Steps => deploy = {}

LEMMA DrainInit == Init => DrainInv
  BY DEF Init, DrainInv

(* A stage that finds at most the file of its kind takes it, and the       *)
(* directory is empty; if it finds not one, it was empty.                  *)
LEMMA DrainTake ==
  ASSUME NEW kind, AtMost(kind)
  PROVE  /\ NotOne(kind) => deploy = {}
         /\ \A f \in deploy : OfKind(kind) = {f} => deploy \ {f} = {}
<1>1. CASE deploy = {}
  BY <1>1
<1>2. ASSUME NEW f \in deploy, deploy = {f}, f.kind = kind
      PROVE  /\ NotOne(kind) => deploy = {}
             /\ \A g \in deploy : OfKind(kind) = {g} => deploy \ {g} = {}
  <2>1. OfKind(kind) = {f}
    BY <1>2 DEF OfKind
  <2>2. Cardinality(OfKind(kind)) = 1
    BY <2>1, FS_Singleton
  <2> QED BY <1>2, <2>2 DEF NotOne
<1> QED BY <1>1, <1>2 DEF AtMost

LEMMA DrainStart == TypeInv /\ DrainInv /\ (Run \/ GenFile \/ GenFileRefused) => DrainInv'
<1> SUFFICES ASSUME TypeInv, DrainInv, Run \/ GenFile \/ GenFileRefused PROVE DrainInv'
  OBVIOUS
<1>1. CASE Run
  BY <1>1 DEF Run, DrainInv, hist, InitSteps, Stage1Steps, Stage2Steps
<1>2. CASE GenFile \/ GenFileRefused
  <2>1. pc = "gen" /\ order.cmd \in Cmds /\ Dispatch
    BY <1>2 DEF TypeInv, Order, GenFile, GenFileRefused
  <2>2. pc' = IF order.cmd = "other" THEN "idle" ELSE FirstStep[order.cmd]
    BY <2>1 DEF Dispatch, End, Goto
  <2>3. ASSUME clean'
        PROVE  \/ deploy' = {}
               \/ order.cmd # "other" /\ \E f \in deploy' : deploy' = {f} /\ f.kind = KindOf[order.cmd]
    <3>1. clean /\ deploy = {}
      BY <1>2, <2>1, <2>3 DEF GenFile, GenFileRefused, DrainInv
    <3>2. CASE GenFile
      <4>1. order.cmd # "other" /\ deploy' = {order.file}
        BY <2>3, <3>1, <3>2 DEF GenFile, Put
      <4> QED BY <2>1, <4>1 DEF DrainInv
    <3>3. CASE GenFileRefused
      BY <2>3, <3>1, <3>3 DEF GenFileRefused
    <3> QED BY <1>2, <3>2, <3>3
  <2>4. CASE order.cmd = "other"
    BY <2>1, <2>2, <2>3, <2>4 DEF DrainInv, InitSteps, Stage1Steps, Stage2Steps
  <2>5. CASE order.cmd # "other"
    BY <2>1, <2>2, <2>3, <2>5 DEF DrainInv, AtMost, FirstStep, KindOf, Cmds, InitSteps, Stage1Steps, Stage2Steps
  <2> QED BY <2>4, <2>5
<1> QED BY <1>1, <1>2

LEMMA DrainInitNode == TypeInv /\ DrainInv /\ InitNode => DrainInv'
<1> SUFFICES ASSUME TypeInv, DrainInv, InitNode PROVE DrainInv'
  OBVIOUS
<1> USE DEF Goto, End, Return, hist, DrainInv, InitSteps, Stage1Steps, Stage2Steps, proc
<1>1. CASE RmPub \/ RmPrv \/ RmSpc
  BY <1>1 DEF RmPub, RmPrv, RmSpc, AtMost
<1>2. CASE TakeEpub
  BY <1>2, DrainTake DEF TakeEpub, Take
<1>3. CASE NoEpub
  BY <1>3, DrainTake DEF NoEpub
<1>4. CASE GenPrv \/ GenPub \/ SaveSpc \/ ParseEpubRefused \/ PutEpub
  BY <1>4 DEF GenPrv, GenPub, SaveSpc, ParseEpubRefused, PutEpub
<1> QED BY <1>1, <1>2, <1>3, <1>4 DEF InitNode

LEMMA DrainStages == TypeInv /\ DrainInv /\ (Stage1 \/ Stage2) => DrainInv'
<1> SUFFICES ASSUME TypeInv, DrainInv, Stage1 \/ Stage2 PROVE DrainInv'
  OBVIOUS
<1> USE DEF Goto, End, Return, hist, DrainInv, InitSteps, Stage1Steps, Stage2Steps, proc
<1>1. CASE TakeCs1 \/ TakeCs2
  BY <1>1, DrainTake DEF TakeCs1, TakeCs2, Take
<1>2. CASE NoCs1 \/ NoCs2
  BY <1>2, DrainTake DEF NoCs1, NoCs2
<1>3. CASE Encrypt \/ EncryptRefused \/ SaveLen \/ SaveMspc \/ PutCs1 \/ ParseCs1Refused
  BY <1>3 DEF Encrypt, EncryptRefused, SaveLen, SaveMspc, PutCs1, ParseCs1Refused
<1>4. CASE CheckGood \/ CheckBad \/ DecryptRefused \/ TempAnswer \/ NoMspc \/ TempRefusal \/ PutCs2
  BY <1>4 DEF CheckGood, CheckBad, DecryptRefused, TempAnswer, NoMspc, TempRefusal, PutCs2
<1> QED BY <1>1, <1>2, <1>3, <1>4 DEF Stage1, Stage2

LEMMA DrainCut == TypeInv /\ (Crash \/ CallFails) => DrainInv'
<1> SUFFICES ASSUME TypeInv, Crash \/ CallFails PROVE DrainInv'
  OBVIOUS
<1>1. ~clean'
  BY DEF Crash, CallFails, Cut
<1>2. pc' # "gen"
  BY DEF TypeInv, Order, Crash, CallFails, Dispatch, End, Goto, FirstStep, Cmds
<1> QED BY <1>1, <1>2 DEF DrainInv

LEMMA DrainStep == TypeInv /\ DrainInv /\ [Next]_vars => DrainInv'
<1>1. DrainInv /\ UNCHANGED vars => DrainInv'
  BY DEF DrainInv, AtMost, vars, proc, hist
<1> QED BY <1>1, DrainStart, DrainInitNode, DrainStages, DrainCut DEF Next, Start

(* However many runs there were, a run that neither was cut nor failed has *)
(* left no file lying at which a later one would stop.                     *)
THEOREM DeployAlwaysDrained == Spec => []DeployDrained
<1>1. DrainInv => DeployDrained
  BY DEF DrainInv, DeployDrained
<1> QED BY <1>1, TypeInit, TypeStep, DrainInit, DrainStep, PTL DEF Spec
=============================================================================
