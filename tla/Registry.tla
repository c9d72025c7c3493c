------------------------------ MODULE Registry ------------------------------
(***************************************************************************)
(* server.list and the commands of the ground (spc_do_cmd.c): a new server *)
(* is initialised (spc_init_server.c), gets more key pairs                 *)
(* (spc_update_satpub.c) or a new secret (spc_update_secret.c). The key    *)
(* pairs are in a keystore of the SpaceChain side (Moscp.tla); here it is  *)
(* seen as the number of pairs it holds and the index it answers.          *)
(*                                                                         *)
(* Every write to the disk and every request to the SpaceChain side is a   *)
(* step; a crash may fall between two, a write or a request may fail, and  *)
(* a request that fails may have had its effect.                           *)
(***************************************************************************)
EXTENDS Integers, Sequences, FiniteSets

CONSTANTS
  MaxId,         \* bound: ids that commands and records name
  MakeMax,       \* MAKEMAX: key pairs made by one command
  U16,           \* number of values of a uint16_t
  MaxPairs,      \* bound: pairs of a keystore for which GenPair is enabled
  MaxTime,       \* bound: the last second of the clock
  MaxCmds,       \* bound: commands
  MaxSpent,      \* bound: codes spent by missions
  MaxRefusals,   \* bound: requests that fail
  MaxFaults,     \* bound: writes and renames that fail
  MaxCrashes     \* bound: power cycles

ASSUME RegistryAssumption ==
  /\ {MaxId, MakeMax, MaxTime} \subseteq Nat \ {0}
  /\ U16 \in Nat /\ U16 > MakeMax
  /\ MaxPairs \in Nat
  /\ {MaxCmds, MaxSpent, MaxRefusals, MaxFaults, MaxCrashes} \subseteq Nat

Ids == 1 .. MaxId

VARIABLES
  \* the disk
  next,       \* server_id of info0: the next id; Absent or Empty without it
  recs,       \* the records of server.list
  wallet,     \* satpub files being made: the pairs in the file of an id
  satpubs,    \* satpub files in the download directory
  sec,        \* the last secret released for each id in a .sec file
  keys,       \* SpaceChain side: pairs in each id's keystore
  \* the process
  pc, cmd,    \* where it stands; the kind of the command
  info,       \* struct server_info, id and record
  idx,        \* index of seed_makeSeed's loop, a uint16_t
  \* the clock
  now,        \* time(NULL)
  \* history and bounds
  secrets,    \* the seconds in which secrets were made
  again,      \* another had been made in the second of the last one
  issued,     \* ids taken by an initialisation, in order
  undone,     \* ids whose last write to server.list failed
  cmds, spent, refusals, faults, crashes

disk == <<next, recs, wallet, satpubs, sec, keys>>
proc == <<cmd, info, idx>>
bounds == <<cmds, spent, refusals, faults, crashes>>
clock == <<now, secrets, again>>
hist == <<clock, issued, undone>>
vars == <<disk, pc, proc, hist, bounds>>

(* server.list is not there, or there without its first record. *)
Absent == -1
Empty == 0

(* A record; secret 0: sixteen zero bytes. A record never written reads as *)
(* zeros when a later one has been written, and cannot be read otherwise.  *)
Rec == [id : 0 .. MaxId, start : Nat, secret : Nat, counter : Nat]
Zero == [id |-> 0, start |-> 0, secret |-> 0, counter |-> 0]
Written(i) == recs[i] # Zero
Readable(i) == i < next /\ \E j \in Ids : j >= i /\ Written(j)

NoKeystore == -1

(* An entry of a satpub file: the index written, and the pair it is of.    *)
Entry == [index : Nat, pair : Nat]

Init ==
  /\ next = Absent
  /\ recs = [i \in Ids |-> Zero]
  /\ wallet = [i \in Ids |-> <<>>]
  /\ satpubs = {}
  /\ sec = [i \in Ids |-> 0]
  /\ keys = [i \in Ids |-> NoKeystore]
  /\ pc = "idle" /\ cmd = "none" /\ info = Zero /\ idx = 0
  /\ now = 1 /\ secrets = {} /\ again = FALSE
  /\ issued = <<>> /\ undone = {}
  /\ cmds = 0 /\ spent = 0 /\ refusals = 0 /\ faults = 0 /\ crashes = 0

-----------------------------------------------------------------------------
(* Steps and their failures.                                               *)

Goto(stage) == pc' = stage /\ UNCHANGED <<proc, hist>>

(* Back to spc_do_cmd's loop. *)
Finish == pc' = "idle" /\ cmd' = "none" /\ info' = Zero /\ idx' = 0

Refusal == refusals < MaxRefusals /\ refusals' = refusals + 1
           /\ UNCHANGED <<cmds, spent, faults, crashes>>
Fault == faults < MaxFaults /\ faults' = faults + 1
         /\ UNCHANGED <<cmds, spent, refusals, crashes>>

-----------------------------------------------------------------------------
(* spc_do_cmd: the next command file; it has left the epub directory before*)
(* the command is carried out.                                             *)

DoInit ==
  /\ pc = "idle" /\ cmds < MaxCmds
  /\ cmds' = cmds + 1
  /\ cmd' = "init" /\ pc' = "list"
  /\ UNCHANGED <<disk, info, idx, hist, spent, refusals, faults, crashes>>

(* The start of seed_makeSeed is a uint16_t, that of the record is not.    *)
Start == info.start % U16

(* server_getServerInfo: the id must be below the next one and its record  *)
(* must be in the file; the record's own id is used from here on. (The     *)
(* start is 0 or has grown by MAKEMAX, which is what seed_makeSeed asks.)  *)
DoUpdate ==
  /\ pc = "idle" /\ cmds < MaxCmds
  /\ cmds' = cmds + 1
  /\ \E i \in Ids, kind \in {"satpub", "secret"} :
       IF Readable(i)
         THEN /\ cmd' = kind /\ info' = recs[i] /\ idx' = recs[i].start % U16
              /\ pc' = IF kind = "satpub" THEN "pair" ELSE "newsec"
         ELSE UNCHANGED <<cmd, info, idx, pc>>
  /\ UNCHANGED <<disk, hist, spent, refusals, faults, crashes>>

(* A mission between two commands saves a counter (TxMission.tla). *)
SpendCode ==
  /\ pc = "idle" /\ spent < MaxSpent
  /\ spent' = spent + 1
  /\ \E i \in Ids : /\ Readable(i) /\ recs[i].counter # 0
                    /\ recs' = [recs EXCEPT ![i].counter = @ + 1]
  /\ UNCHANGED <<next, wallet, satpubs, sec, keys, pc, proc, hist, cmds,
                 refusals, faults, crashes>>

-----------------------------------------------------------------------------
(* spc_init_server.                                                        *)

(* server_getNewInfo: the file is created, then written (_initServerList). *)
CreateList ==
  /\ pc = "list" /\ next = Absent
  /\ next' = Empty
  /\ Goto("info0")
  /\ UNCHANGED <<recs, wallet, satpubs, sec, keys, bounds>>

WriteInfo0 ==
  /\ pc = "info0"
  /\ next' = 1
  /\ Goto("list")
  /\ UNCHANGED <<recs, wallet, satpubs, sec, keys, bounds>>

(* Mutant: the next id is not written back. *)
TakeIdAgain ==
  /\ pc = "list" /\ next \in Ids
  /\ info' = [id |-> next, start |-> 0, secret |-> 0, counter |-> 1]
  /\ issued' = Append(issued, next)
  /\ pc' = "keystore"
  /\ UNCHANGED <<disk, cmd, idx, clock, undone, bounds>>

(* info0 is read; the next id is written back before this one is used. *)
TakeId ==
  /\ pc = "list" /\ next \in Ids
  /\ next' = next + 1
  /\ info' = [id |-> next, start |-> 0, secret |-> 0, counter |-> 1]
  /\ issued' = Append(issued, next)
  /\ pc' = "keystore"
  /\ UNCHANGED <<recs, wallet, satpubs, sec, keys, cmd, idx, clock, undone,
                 bounds>>

(* There is a file, but info0 cannot be read from it. (MaxId is this       *)
(* model's last id.)                                                       *)
NoInfo0 ==
  /\ pc = "list" /\ next \notin Ids \cup {Absent}
  /\ Finish
  /\ UNCHANGED <<disk, hist, bounds>>

(* hotp_getNewSecret with srand(time(NULL)): a secret is a function of the *)
(* second in which it is made, and the second is what it is named by.      *)
SecretOf(t) ==
  /\ now' = t
  /\ secrets' = secrets \cup {t}
  /\ again' = (t \in secrets)

(* tcp_gen_new_keystore, and hotp_getNewSecret. *)
GenKeystore ==
  /\ pc = "keystore" /\ keys[info.id] = NoKeystore
  /\ keys' = [keys EXCEPT ![info.id] = 0]
  /\ \E t \in now .. MaxTime :
       SecretOf(t) /\ info' = [info EXCEPT !.secret = t]
  /\ pc' = "record"
  /\ UNCHANGED <<next, recs, wallet, satpubs, sec, cmd, idx, issued, undone,
                 bounds>>

(* It refuses a keystore that exists; a request that fails may have made   *)
(* the keystore all the same.                                              *)
KeystoreFails ==
  /\ pc = "keystore"
  /\ \/ keys[info.id] # NoKeystore /\ UNCHANGED <<keys, bounds>>
     \/ Refusal /\ UNCHANGED keys
     \/ Refusal /\ keys[info.id] = NoKeystore
        /\ keys' = [keys EXCEPT ![info.id] = 0]
  /\ Finish
  /\ UNCHANGED <<next, recs, wallet, satpubs, sec, hist>>

(* server_initNewServer: the record is in the list from here on. *)
InitRecord ==
  /\ pc = "record"
  /\ recs' = [recs EXCEPT ![info.id] = info]
  /\ idx' = 0 /\ pc' = "pair"
  /\ UNCHANGED <<next, wallet, satpubs, sec, keys, cmd, info, hist, bounds>>

-----------------------------------------------------------------------------
(* seed_makeSeed.                                                          *)

HasKeystore == info.id \in Ids /\ keys[info.id] # NoKeystore

(* The index answered is the number of pairs, cut to 16 bits. *)
Index(pair) == pair % U16

(* Mutant: the index answered is not looked at. *)
GenPairUnchecked ==
  /\ pc = "pair" /\ HasKeystore /\ keys[info.id] < MaxPairs
  /\ keys' = [keys EXCEPT ![info.id] = @ + 1]
  /\ Goto("save")
  /\ UNCHANGED <<next, recs, wallet, satpubs, sec, bounds>>

(* A new pair whose index is the one expected goes to the satpub file. *)
GenPair ==
  /\ pc = "pair" /\ HasKeystore /\ keys[info.id] < MaxPairs
  /\ Index(keys[info.id]) = idx
  /\ keys' = [keys EXCEPT ![info.id] = @ + 1]
  /\ Goto("save")
  /\ UNCHANGED <<next, recs, wallet, satpubs, sec, bounds>>

(* The index answered is not the one expected: the pair stays, the command *)
(* is over.                                                                *)
WrongIndex ==
  /\ pc = "pair" /\ HasKeystore /\ Index(keys[info.id]) # idx
  /\ keys' = [keys EXCEPT ![info.id] = @ + 1]
  /\ Finish
  /\ UNCHANGED <<next, recs, wallet, satpubs, sec, hist, bounds>>

PairFails ==
  /\ pc = "pair"
  /\ \/ ~ HasKeystore /\ UNCHANGED <<keys, bounds>>
     \/ Refusal /\ UNCHANGED keys
     \/ Refusal /\ HasKeystore /\ keys' = [keys EXCEPT ![info.id] = @ + 1]
  /\ Finish
  /\ UNCHANGED <<next, recs, wallet, satpubs, sec, hist>>

(* Mutant: the loop makes one pair too many. *)
NextPairLong ==
  /\ idx' = (idx + 1) % U16
  /\ pc' = IF idx' <= Start + MakeMax THEN "pair" ELSE "release"
  /\ UNCHANGED <<cmd, info, hist>>

(* index++ wraps, the sum it is compared with is an int: at the last start *)
(* below 2^16 the loop does not end.                                       *)
NextPair ==
  /\ idx' = (idx + 1) % U16
  /\ pc' = IF idx' < Start + MakeMax THEN "pair" ELSE "release"
  /\ UNCHANGED <<cmd, info, hist>>

(* _saveXpubToFile refuses an index of another file. *)
InFile == idx \in Start .. Start + MakeMax - 1

SavePair ==
  /\ pc = "save" /\ InFile
  /\ wallet' = [wallet EXCEPT ![info.id] =
                   Append(@, [index |-> idx, pair |-> keys[info.id] - 1])]
  /\ NextPair
  /\ UNCHANGED <<next, recs, satpubs, sec, keys, bounds>>

(* A failure is logged and the loop goes on. *)
SaveFails ==
  /\ pc = "save"
  /\ \/ ~ InFile /\ UNCHANGED bounds
     \/ Fault
  /\ NextPair
  /\ UNCHANGED disk

(* _mvToDownloadDir. *)
ReleaseSatpub ==
  /\ pc = "release" /\ wallet[info.id] # <<>>
  /\ satpubs' = satpubs \cup {[id |-> info.id, start |-> info.start,
                               pairs |-> wallet[info.id]]}
  /\ wallet' = [wallet EXCEPT ![info.id] = <<>>]
  /\ info' = [info EXCEPT !.start = @ + MakeMax]
  /\ pc' = IF cmd = "init" THEN "sec" ELSE "set"
  /\ UNCHANGED <<next, recs, sec, keys, cmd, idx, hist, bounds>>

ReleaseFails ==
  /\ pc = "release"
  /\ \/ wallet[info.id] = <<>> /\ UNCHANGED bounds
     \/ Fault
  /\ Finish
  /\ UNCHANGED <<disk, hist>>

-----------------------------------------------------------------------------
(* Secrets, and the last write.                                            *)

(* Mutant: the counter is not set back to 1 with a new secret. *)
NewSecretOldCounter ==
  /\ pc = "newsec"
  /\ \E t \in now .. MaxTime :
       SecretOf(t) /\ info' = [info EXCEPT !.secret = t]
  /\ pc' = "sec"
  /\ UNCHANGED <<disk, cmd, idx, issued, undone, bounds>>

(* spc_update_secret: hotp_getNewSecret; the counter goes back to 1. *)
NewSecret ==
  /\ pc = "newsec"
  /\ \E t \in now .. MaxTime :
       SecretOf(t) /\ info' = [info EXCEPT !.secret = t, !.counter = 1]
  /\ pc' = "sec"
  /\ UNCHANGED <<disk, cmd, idx, issued, undone, bounds>>

(* buffer_to_pem and secret_genSecFile, which refuses id 0. *)
ReleaseSecret ==
  /\ pc = "sec" /\ info.id # 0
  /\ sec' = [sec EXCEPT ![info.id] = info.secret]
  /\ Goto("set")
  /\ UNCHANGED <<next, recs, wallet, satpubs, keys, bounds>>

SecretFails ==
  /\ pc = "sec"
  /\ \/ info.id = 0 /\ UNCHANGED bounds
     \/ Fault
  /\ Finish
  /\ UNCHANGED <<disk, hist>>

(* Mutant: nothing is saved. *)
SetInfoForgotten ==
  /\ pc = "set"
  /\ Finish
  /\ UNCHANGED <<disk, hist, bounds>>

(* server_setServerInfo. *)
SetInfo ==
  /\ pc = "set"
  /\ recs' = [recs EXCEPT ![info.id] = info]
  /\ Finish
  /\ UNCHANGED <<next, wallet, satpubs, sec, keys, hist, bounds>>

(* It fails: nothing is taken back. *)
SetFails ==
  /\ pc = "set"
  /\ Fault
  /\ undone' = undone \cup {info.id}
  /\ Finish
  /\ UNCHANGED <<disk, clock, issued>>

(* Another write fails, or ends before it has written. *)
WriteFails ==
  /\ pc \in {"list", "info0", "record"}
  /\ Fault
  /\ Finish
  /\ UNCHANGED <<disk, hist>>

(* A power cycle, after which the clock may stand anywhere. *)
Crash ==
  /\ pc # "idle" /\ crashes < MaxCrashes
  /\ crashes' = crashes + 1
  /\ now' \in 1 .. MaxTime
  /\ Finish
  /\ UNCHANGED <<disk, secrets, again, issued, undone, cmds, spent, refusals,
                 faults>>

-----------------------------------------------------------------------------
InitServer == CreateList \/ WriteInfo0 \/ TakeId \/ NoInfo0 \/ GenKeystore
              \/ KeystoreFails \/ InitRecord
MakeSeed == GenPair \/ WrongIndex \/ PairFails \/ SavePair \/ SaveFails
            \/ ReleaseSatpub \/ ReleaseFails
Secret == NewSecret \/ ReleaseSecret \/ SecretFails
Work == InitServer \/ MakeSeed \/ Secret \/ SetInfo \/ SetFails \/ WriteFails

Next == DoInit \/ DoUpdate \/ SpendCode \/ Work \/ Crash

Spec == Init /\ [][Next]_vars

-----------------------------------------------------------------------------
(* Properties.                                                             *)

Stages == {"idle", "list", "info0", "keystore", "record", "pair", "save",
           "release", "newsec", "sec", "set"}

(* Type invariant. server_start never passes what the 16 bits of           *)
(* seed_makeSeed's parameter hold; and where its pairs end below that, its *)
(* index stays between start and start + MAKEMAX.                          *)
TypeOK ==
  /\ next \in {Absent, Empty} \cup 1 .. MaxId + 1
  /\ recs \in [Ids -> Rec] /\ info \in Rec
  /\ wallet \in [Ids -> Seq(Entry)] /\ sec \in [Ids -> Nat]
  /\ keys \in [Ids -> Nat \cup {NoKeystore}]
  /\ pc \in Stages /\ cmd \in {"none", "init", "satpub", "secret"}
  /\ idx \in 0 .. U16 - 1
  /\ pc \in {"pair", "save", "release"} /\ Start + MakeMax < U16 =>
       idx \in Start .. Start + MakeMax
  /\ \A i \in Ids : recs[i].id \in {0, i} /\ recs[i].start < U16
  /\ now \in 1 .. MaxTime /\ secrets \subseteq 1 .. MaxTime /\ again \in BOOLEAN
  /\ issued \in Seq(Ids) /\ undone \subseteq Ids

Elements(s) == {s[n] : n \in 1 .. Len(s)}
Numbers(s) == {e.pair : e \in Elements(s)}

(* No key pair is released twice, whatever crashes lost the record of      *)
(* earlier releases: two satpub files of one server have no pair in        *)
(* common, and have only pairs that the keystore holds, each under the     *)
(* index that gen_new_keypair answered (the pair's number, until 2^16 of   *)
(* them make indexes repeat); nor does server_start claim pairs that have  *)
(* not been made.                                                          *)
PairsReleasedOnce ==
  /\ \A i \in Ids : Written(i) => recs[i].start <= keys[i]
  /\ \A s \in satpubs :
       /\ \A e \in Elements(s.pairs) :
            e.pair < keys[s.id] /\ e.index = Index(e.pair)
       /\ \A t \in satpubs : (s.id = t.id /\ s # t) =>
            Numbers(s.pairs) \cap Numbers(t.pairs) = {}

(* An id is taken by one initialisation only, although one that fails      *)
(* gives nothing back.                                                     *)
IdIssuedOnce ==
  \A m, n \in 1 .. Len(issued) : issued[m] = issued[n] => m = n

(* As long as nothing fails, between two commands every record agrees with *)
(* the SpaceChain side (the next pair gets the index server_start) and     *)
(* with the ground (the secret is the last one released).                  *)
InStep ==
  (pc = "idle" /\ refusals = 0 /\ faults = 0 /\ crashes = 0) =>
    \A i \in Ids : Written(i) =>
      recs[i].start = keys[i] /\ recs[i].secret = sec[i]

(* A record that gets another secret gets the counter 1 in the same write, *)
(* and the ground has been given that secret before; under one secret its  *)
(* counter never falls, in particular not when spc_update_satpub writes    *)
(* back the record it read. The exception: a secret update in a second     *)
(* (by a clock that a power cycle may set back) in which a secret was made *)
(* before can bring back the same secret, with the counter 1.              *)
CounterPerSecret ==
  [][\A i \in Ids :
       IF recs'[i].secret = recs[i].secret
         THEN \/ recs'[i].counter >= recs[i].counter
              \/ pc = "set" /\ cmd = "secret" /\ again
         ELSE /\ recs'[i].counter = 1
              /\ Written(i) => sec[i] = recs'[i].secret]_vars

(* "if failed to write into server.list should delete dir and struct in    *)
(* server.list": a command whose last write failed leaves no record. (It   *)
(* does, see the README.)                                                  *)
FailedWriteUndone == pc = "idle" => \A i \in undone : ~ Written(i)
====
