------------------------------ MODULE NodeInit ------------------------------
(***************************************************************************)
(* The initialisation of a node (spcstart.c, spc_init_node.c, spc_cs_1.c,  *)
(* spc_cs_2.c, spcmodinit.c, spcmodnode.c): the exchange of public keys,   *)
(* and the interlock by which both sides show that they hold the private   *)
(* key. In stage 1 each side gives the first half of a message encrypted   *)
(* for the other, in stage 2 the second half; the node gives its second    *)
(* half only after the whole message of the ground has decrypted to the    *)
(* words agreed on.                                                        *)
(*                                                                         *)
(* Each stage is a run of spcstart on one order of the ground. Between the *)
(* runs there is only the disk, where nothing of an earlier stage is ever  *)
(* cleaned up; a run may be cut by a crash between any two steps.          *)
(***************************************************************************)
EXTENDS Integers, FiniteSets

CONSTANTS
  Uuids,        \* what the ground names its sessions
  SpcKeys,      \* public keys of the ground
  MaxRuns,      \* bound: runs of spcstart
  MaxCrashes,   \* bound: power cycles
  MaxFaults     \* bound: calls that fail

(* A key file holds no key, a part of one, or a key: a positive number.    *)
Absent == 0
Torn == -1

ASSUME NodeAssumption ==
  /\ SpcKeys \subseteq Nat \ {0}
  /\ MaxRuns \in Nat /\ MaxCrashes \in Nat /\ MaxFaults \in Nat

Kinds == {"spcepub", "spccs1", "spccs2"}
Cmds == {"init", "cs1", "cs2", "other"}

(* A file of the ground: its session, the key it carries (spcepub) or for  *)
(* which its half was encrypted (spccs1, spccs2), whether the two halves   *)
(* make the words agreed on, and whether the file is all there.            *)
File == [kind : Kinds, u : Uuids, key : Nat, words : BOOLEAN, whole : BOOLEAN]

(* What spc.data holds: a command, a file, and whether it can be read.     *)
Order == [cmd : Cmds, file : File, readable : BOOLEAN]
NoOrder == [cmd |-> "none"]

(* A message of the node: the number of the encryption that made it and    *)
(* the ground's key it was made for. mspc.data holds none (0), too little  *)
(* to be read (-1), or parts of two messages (-2).                         *)
Message == [n : Nat \cup {-1, -2}, key : Nat]
NoMessage == [n |-> 0, key |-> 0]
Short == [n |-> -1, key |-> 0]
Mixed == [n |-> -2, key |-> 0]

(* An answer of the node: n is the key of a satepub, the message whose     *)
(* first half a satcs1 carries, the message whose second half a satcs2     *)
(* carries (0: none); said is FALSE in a satcs2 that gives length 0.       *)
Answer == [kind : {"satepub", "satcs1", "satcs2"}, u : Uuids, n : Int, said : BOOLEAN]

VARIABLES
  \* the disk
  satprv, satpub, spcpub,  \* node/satprv.pem, satpub.pem, spcpub.pem
  deploy,      \* prepare/deploy
  taken,       \* node/temp: spc.epub, spc.cs1, spc.cs2, by kind
  mspc,        \* node/mspc.data
  temp,        \* node/temp/temp.satcs2
  download,    \* download
  \* the process
  pc,
  order,       \* spc.data
  msg,         \* the message stage 1 has encrypted
  \* history and bounds
  keys, made,  \* key pairs and messages made so far
  checked,      \* messages at hand when _checkMsg found the words
  first,       \* the message whose first half was delivered last
  agreed,      \* the last run of init_exchangeEpub returned 0
  clean,       \* no run was cut, failed, or left its file lying
  runs, crashes, faults

pems == <<satprv, satpub, spcpub>>
outbox == <<temp, download>>
proc == <<order, msg>>
hist == <<keys, made, checked, first, agreed, clean>>
bounds == <<runs, crashes, faults>>
vars == <<pems, deploy, taken, mspc, outbox, pc, proc, hist, bounds>>

Init ==
  /\ satprv = Absent /\ satpub = Absent /\ spcpub = Absent
  /\ deploy = {} /\ taken = [k \in Kinds |-> {}]
  /\ mspc = NoMessage /\ temp = {} /\ download = {}
  /\ pc = "idle" /\ order = NoOrder
  /\ msg = NoMessage
  /\ keys = 0 /\ made = 0 /\ checked = {} /\ first = 0 /\ agreed = FALSE /\ clean = TRUE
  /\ runs = 0 /\ crashes = 0 /\ faults = 0

-----------------------------------------------------------------------------
(* One file in a directory for each name, which is made of session and     *)
(* kind.                                                                   *)
Put(dir, f) == {g \in dir : g.kind # f.kind \/ g.u # f.u} \cup {f}

OfKind(kind) == {f \in deploy : f.kind = kind}
The(kind) == CHOOSE f \in taken[kind] : TRUE
KindOf == [init |-> "spcepub", cs1 |-> "spccs1", cs2 |-> "spccs2"]

(* The keys of the node the ground has been told.                          *)
Published == {a.n : a \in {a \in download : a.kind = "satepub" /\ a.n > 0}}

(* The files the ground makes: whole ones, with halves encrypted for a key *)
(* it has been told.                                                       *)
GroundFile ==
  [kind : {"spcepub"}, u : Uuids, key : SpcKeys, words : {TRUE}, whole : {TRUE}] \cup
  [kind : {"spccs1", "spccs2"}, u : Uuids, key : Published, words : BOOLEAN, whole : {TRUE}]

(* What a run has in memory ends with it.                                  *)
Goto(step) == pc' = step /\ UNCHANGED proc
End == pc' = "idle" /\ order' = NoOrder /\ msg' = NoMessage
Return == End /\ UNCHANGED <<pems, deploy, taken, mspc, outbox, hist, bounds>>

(* Where main goes for a command.                                          *)
FirstStep == [init |-> "rm_pub", cs1 |-> "take_cs1", cs2 |-> "take_cs2"]
Dispatch == IF order.cmd = "other" THEN End ELSE Goto(FirstStep[order.cmd])

-----------------------------------------------------------------------------
(* spcstart: the command is read from spc.data, the file in it is written  *)
(* to the deploy directory, and the command is carried out.                *)
Run ==
  /\ pc = "idle" /\ runs < MaxRuns
  /\ \E cmd \in Cmds, f \in GroundFile, readable \in BOOLEAN :
       /\ cmd # "other" => f.kind = KindOf[cmd]
       /\ order' = [cmd |-> cmd, file |-> f, readable |-> readable]
  /\ pc' = "gen" /\ runs' = runs + 1
  /\ UNCHANGED <<pems, deploy, taken, mspc, outbox, msg, hist, crashes, faults>>

(* A command that is not known leaves the file where it is.                *)
GenFile ==
  /\ pc = "gen" /\ order.readable
  /\ deploy' = Put(deploy, order.file)
  /\ Dispatch
  /\ clean' = (clean /\ order.cmd # "other")
  /\ UNCHANGED <<pems, taken, mspc, outbox, keys, made, checked, first, agreed, bounds>>

(* A failing _genFile is only logged; it may have written a part.          *)
GenFileRefused ==
  /\ pc = "gen" /\ ~order.readable
  /\ deploy' \in {deploy, Put(deploy, [order.file EXCEPT !.whole = FALSE])}
  /\ Dispatch
  /\ clean' = (clean /\ deploy' = deploy)
  /\ UNCHANGED <<pems, taken, mspc, outbox, keys, made, checked, first, agreed, bounds>>

(* Mutant: the file is copied.                                             *)
TakeCopy(kind, next) ==
  \E f \in deploy :
    /\ OfKind(kind) = {f}
    /\ taken' = [taken EXCEPT ![kind] = {f}] /\ deploy' = deploy
    /\ Goto(next)
    /\ UNCHANGED <<pems, mspc, outbox, hist, bounds>>

(* Every stage takes the one file of its kind from the deploy directory;   *)
(* it refuses to choose between two.                                       *)
Take(kind, next) ==
  \E f \in deploy :
    /\ OfKind(kind) = {f}
    /\ taken' = [taken EXCEPT ![kind] = {f}]
    /\ deploy' = deploy \ {f}
    /\ Goto(next)
    /\ UNCHANGED <<pems, mspc, outbox, hist, bounds>>

NotOne(kind) == Cardinality(OfKind(kind)) # 1

-----------------------------------------------------------------------------
(* Mutant: the old public key stays.                                       *)
RmPubNot ==
  /\ pc = "rm_pub" /\ Goto("rm_prv") /\ agreed' = FALSE
  /\ UNCHANGED <<pems, deploy, taken, mspc, outbox, keys, made, checked, first, clean, bounds>>

(* spc_init_node: the old keys go first.                                   *)
RmPub ==
  /\ pc = "rm_pub" /\ satpub' = Absent /\ Goto("rm_prv") /\ agreed' = FALSE
  /\ UNCHANGED <<satprv, spcpub, deploy, taken, mspc, outbox, keys, made, checked, first, clean, bounds>>

RmPrv ==
  /\ pc = "rm_prv" /\ satprv' = Absent /\ Goto("rm_spc")
  /\ UNCHANGED <<satpub, spcpub, deploy, taken, mspc, outbox, hist, bounds>>

RmSpc ==
  /\ pc = "rm_spc" /\ spcpub' = Absent /\ Goto("take_epub")
  /\ UNCHANGED <<satprv, satpub, deploy, taken, mspc, outbox, hist, bounds>>

TakeEpub == pc = "take_epub" /\ Take("spcepub", "gen_prv")
NoEpub == pc = "take_epub" /\ NotOne("spcepub") /\ Return

GenPrv ==
  /\ pc = "gen_prv" /\ keys' = keys + 1 /\ satprv' = keys' /\ Goto("gen_pub")
  /\ UNCHANGED <<satpub, spcpub, deploy, taken, mspc, outbox, made, checked, first, agreed, clean, bounds>>

GenPub ==
  /\ pc = "gen_pub" /\ satpub' = satprv /\ Goto("save_spc")
  /\ UNCHANGED <<satprv, spcpub, deploy, taken, mspc, outbox, hist, bounds>>

(* Mutant: the key of the ground is read but not stored.                   *)
SaveSpcNot ==
  /\ pc = "save_spc" /\ The("spcepub").whole /\ Goto("put_epub")
  /\ UNCHANGED <<pems, deploy, taken, mspc, outbox, hist, bounds>>

SaveSpc ==
  /\ pc = "save_spc" /\ The("spcepub").whole
  /\ spcpub' = The("spcepub").key /\ Goto("put_epub")
  /\ UNCHANGED <<satprv, satpub, deploy, taken, mspc, outbox, hist, bounds>>

ParseEpubRefused == pc = "save_spc" /\ ~The("spcepub").whole /\ Return

(* temp.satepub is written whole each time and then moved: one step.       *)
PutEpub ==
  /\ pc = "put_epub"
  /\ download' = Put(download, [kind |-> "satepub", u |-> The("spcepub").u, n |-> satpub, said |-> TRUE])
  /\ agreed' = TRUE /\ End
  /\ UNCHANGED <<pems, deploy, taken, mspc, temp, keys, made, checked, first, clean, bounds>>

-----------------------------------------------------------------------------
(* Stage 1.                                                                *)
TakeCs1 == pc = "take_cs1" /\ Take("spccs1", "encrypt")
NoCs1 == pc = "take_cs1" /\ NotOne("spccs1") /\ Return

(* Mutant: encrypts whatever is in spcpub.pem.                             *)
EncryptUnchecked ==
  /\ pc = "encrypt"
  /\ made' = made + 1 /\ msg' = [n |-> made', key |-> spcpub]
  /\ pc' = "save_len" /\ UNCHANGED order
  /\ UNCHANGED <<pems, deploy, taken, mspc, outbox, keys, checked, first, agreed, clean, bounds>>

Encrypt ==
  /\ pc = "encrypt" /\ spcpub > 0
  /\ made' = made + 1 /\ msg' = [n |-> made', key |-> spcpub]
  /\ pc' = "save_len" /\ UNCHANGED order
  /\ UNCHANGED <<pems, deploy, taken, mspc, outbox, keys, checked, first, agreed, clean, bounds>>

EncryptRefused == pc = "encrypt" /\ spcpub <= 0 /\ Return

(* mspc.data is not truncated: under the new length, which is the old one  *)
(* (the ground's keys have one size), the old message is still there.      *)
SaveLen ==
  /\ pc = "save_len"
  /\ mspc' = IF mspc = NoMessage THEN Short ELSE mspc
  /\ Goto("save_mspc")
  /\ UNCHANGED <<pems, deploy, taken, outbox, hist, bounds>>

(* Mutant: a message that is there already is not replaced.                *)
SaveMspcOnce ==
  /\ pc = "save_mspc" /\ mspc' = (IF mspc.n > 0 THEN mspc ELSE msg) /\ Goto("put_cs1")
  /\ UNCHANGED <<pems, deploy, taken, outbox, hist, bounds>>

SaveMspc ==
  /\ pc = "save_mspc" /\ mspc' = msg /\ Goto("put_cs1")
  /\ UNCHANGED <<pems, deploy, taken, outbox, hist, bounds>>

(* All that stage 1 reads of the ground's file is the session.             *)
PutCs1 ==
  /\ pc = "put_cs1"
  /\ download' = Put(download, [kind |-> "satcs1", u |-> The("spccs1").u, n |-> msg.n, said |-> TRUE])
  /\ first' = msg.n /\ End
  /\ UNCHANGED <<pems, deploy, taken, mspc, temp, keys, made, checked, agreed, clean, bounds>>

ParseCs1Refused == pc = "put_cs1" /\ ~The("spccs1").whole /\ Return

-----------------------------------------------------------------------------
(* Stage 2.                                                                *)
TakeCs2 == pc = "take_cs2" /\ Take("spccs2", "decrypt")
NoCs2 == pc = "take_cs2" /\ NotOne("spccs2") /\ Return

(* _getMsat: both halves can be read.                                      *)
HaveMsat == \A k \in {"spccs1", "spccs2"} : taken[k] # {} /\ The(k).whole

(* The halves are of one message, made for the key the node has. Nothing   *)
(* else ties the file of stage 2 to the one of stage 1.                    *)
Decrypts ==
  /\ The("spccs1") = [The("spccs2") EXCEPT !.kind = "spccs1"]
  /\ satprv > 0 /\ The("spccs2").key = satprv

Words == Decrypts /\ The("spccs2").words

(* _checkMsg finds the words in what the joined halves decrypt to. They    *)
(* are the same for every node and session, and sealing takes no key of    *)
(* the ground: whoever knows them and the node's public key passes.        *)
CheckGood ==
  /\ pc = "decrypt" /\ HaveMsat /\ Words
  /\ checked' = checked \cup {mspc.n} /\ Goto("answer")
  /\ UNCHANGED <<pems, deploy, taken, mspc, outbox, keys, made, first, agreed, clean, bounds>>

(* Mutant: the result of _checkMsg is not looked at.                       *)
CheckBadAnswers ==
  /\ pc = "decrypt" /\ HaveMsat /\ satprv > 0 /\ ~Words
  /\ Goto("answer")
  /\ UNCHANGED <<pems, deploy, taken, mspc, outbox, hist, bounds>>

(* Halves that do not fit together are an error to openssl, or decrypt to  *)
(* something that is not the words.                                        *)
CheckBad ==
  /\ pc = "decrypt" /\ HaveMsat /\ satprv > 0 /\ ~Words
  /\ Goto("refuse")
  /\ UNCHANGED <<pems, deploy, taken, mspc, outbox, hist, bounds>>

DecryptRefused ==
  /\ pc = "decrypt" /\ (HaveMsat => ~Decrypts)
  /\ Return

Cs2(n, said) == {[kind |-> "satcs2", u |-> The("spccs2").u, n |-> n, said |-> said]}

(* temp.satcs2 is not truncated either: what an earlier run left behind    *)
(* the length is still there when the new length is 0.                     *)
Refusal == Cs2(IF temp = {} THEN 0 ELSE (CHOOSE a \in temp : TRUE).n, FALSE)

Answered == Cs2(mspc.n, TRUE)

TempAnswer ==
  /\ pc = "answer" /\ mspc.n \notin {0, -1}
  /\ temp' = Answered /\ Goto("put_cs2")
  /\ UNCHANGED <<pems, deploy, taken, mspc, download, hist, bounds>>

NoMspc == pc = "answer" /\ mspc.n \in {0, -1} /\ Return

TempRefusal ==
  /\ pc = "refuse" /\ temp' = Refusal /\ Goto("put_cs2")
  /\ UNCHANGED <<pems, deploy, taken, mspc, download, hist, bounds>>

PutCs2 ==
  /\ pc = "put_cs2"
  /\ \E a \in temp : download' = Put(download, a)
  /\ temp' = {} /\ End
  /\ UNCHANGED <<pems, deploy, taken, mspc, hist, bounds>>

-----------------------------------------------------------------------------
(* What a write that is cut leaves.                                        *)
TornDeploy ==
  /\ pc = "gen"
  /\ deploy' = Put(deploy, [order.file EXCEPT !.whole = FALSE])
  /\ UNCHANGED <<pems, taken, mspc, outbox>>

TornPem ==
  /\ \/ pc = "gen_prv" /\ satprv' = Torn /\ UNCHANGED <<satpub, spcpub>>
     \/ pc = "gen_pub" /\ satpub' = Torn /\ UNCHANGED <<satprv, spcpub>>
     \/ pc = "save_spc" /\ spcpub' = Torn /\ UNCHANGED <<satprv, satpub>>
  /\ UNCHANGED <<deploy, taken, mspc, outbox>>

TornMspc ==
  /\ pc \in {"save_len", "save_mspc"}
  /\ mspc' = IF mspc.n \in {0, -1} THEN Short
             ELSE IF pc = "save_mspc" THEN Mixed ELSE mspc
  /\ UNCHANGED <<pems, deploy, taken, outbox>>

TornTemp ==
  /\ pc = "refuse" \/ (pc = "answer" /\ mspc.n \notin {0, -1})
  /\ temp' = IF pc = "refuse" THEN Refusal ELSE Answered
  /\ UNCHANGED <<pems, deploy, taken, mspc, download>>

Whole == UNCHANGED <<pems, deploy, taken, mspc, outbox>>

Cut ==
  /\ Whole \/ TornDeploy \/ TornPem \/ TornMspc \/ TornTemp
  /\ clean' = FALSE
  /\ UNCHANGED <<keys, made, checked, first, agreed, runs>>

Crash ==
  /\ pc # "idle" /\ crashes < MaxCrashes
  /\ Cut /\ End /\ crashes' = crashes + 1
  /\ UNCHANGED faults

(* A call that fails ends the run, except that a failing _genFile is only  *)
(* logged, and that nobody asks whether openssl wrote all of the public    *)
(* key: a part of it is sent to the ground like a key.                     *)
CallFails ==
  /\ pc # "idle" /\ faults < MaxFaults
  /\ Cut /\ faults' = faults + 1
  /\ \/ pc # "gen" /\ End
     \/ pc = "gen" /\ Dispatch
     \/ pc = "gen_pub" /\ satpub' = Torn /\ Goto("save_spc")
  /\ UNCHANGED crashes

-----------------------------------------------------------------------------
InitNode ==
  \/ RmPub \/ RmPrv \/ RmSpc \/ TakeEpub \/ NoEpub
  \/ GenPrv \/ GenPub \/ SaveSpc \/ ParseEpubRefused \/ PutEpub

Stage1 ==
  \/ TakeCs1 \/ NoCs1 \/ Encrypt \/ EncryptRefused
  \/ SaveLen \/ SaveMspc \/ PutCs1 \/ ParseCs1Refused

Stage2 ==
  \/ TakeCs2 \/ NoCs2 \/ CheckGood \/ CheckBad \/ DecryptRefused
  \/ TempAnswer \/ NoMspc \/ TempRefusal \/ PutCs2

Start == GenFile \/ GenFileRefused \/ InitNode \/ Stage1 \/ Stage2

Next == Run \/ Start \/ Crash \/ CallFails

Spec == Init /\ [][Next]_vars

-----------------------------------------------------------------------------
Steps == {"idle", "gen", "rm_pub", "rm_prv", "rm_spc", "take_epub", "gen_prv", "gen_pub",
          "save_spc", "put_epub", "take_cs1", "encrypt", "save_len", "save_mspc", "put_cs1",
          "take_cs2", "decrypt", "answer", "refuse", "put_cs2"}

(* Every variable has its type.                                            *)
TypeOK ==
  /\ satprv \in Nat \cup {Torn} /\ satpub \in Nat \cup {Torn} /\ spcpub \in Nat \cup {Torn}
  /\ deploy \subseteq File
  /\ taken \in [Kinds -> SUBSET File]
  /\ mspc \in Message /\ msg \in Message
  /\ temp \subseteq Answer /\ download \subseteq Answer
  /\ pc \in Steps /\ order \in Order \cup {NoOrder}
  /\ keys \in Nat /\ made \in Nat /\ checked \subseteq Int /\ first \in Nat
  /\ agreed \in BOOLEAN /\ clean \in BOOLEAN
  /\ runs \in Nat /\ crashes \in Nat /\ faults \in Nat

(* Wherever an initialisation is cut, the node never holds a public key    *)
(* that is not the one of its private key: the public one goes first and   *)
(* comes last (rm_pem_files, create_epub_pem_file).                        *)
KeysMatch == satpub > 0 => satprv = satpub

(* Once init_exchangeEpub has returned 0, and through whatever happens to  *)
(* later stages, the ground has the public key the node has, and the node  *)
(* has the ground's key of the same session.                               *)
ExchangeAgreed ==
  agreed =>
    /\ taken["spcepub"] # {} /\ spcpub = The("spcepub").key
    /\ \E a \in download : a.kind = "satepub" /\ a.n = satpub
    /\ clean => satpub > 0

(* The interlock: the node's second half of a message leaves it, be it as  *)
(* what is left behind the end of a refusal, only if both halves of a      *)
(* message that decrypts to the words under the node's private key have    *)
(* come in while that message was the node's (init_cs2). Of the sender     *)
(* this shows that it knows the words and the node's public key, not that  *)
(* it holds a key of its own.                                              *)
SecondHalfEarned ==
  \A a \in download \cup temp : a.kind = "satcs2" /\ a.n # 0 => a.n \in checked

(* As long as nothing was cut or failed: what the node is about to give is *)
(* the second half of a message whose first half the ground has been       *)
(* given, and it is made for the ground's key that the node holds now,     *)
(* however often and in whatever order the stages were run before.         *)
HalvesFit ==
  clean /\ pc = "answer" => mspc.n = first /\ mspc.key = spcpub

(* As long as nothing was cut or failed every run consumes its file. A     *)
(* file left over makes every later stage of its kind refuse.              *)
DeployDrained == clean /\ pc = "idle" => deploy = {}
=============================================================================
