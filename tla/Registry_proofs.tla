--------------------------- MODULE Registry_proofs ---------------------------
(***************************************************************************)
(* The commands of the ground, for any number of servers, key pairs to a   *)
(* command, commands, refusals, faults and crashes: ids and key pairs are  *)
(* given out once, and a counter never falls under one secret.             *)
(***************************************************************************)
EXTENDS Registry, TLAPS

-----------------------------------------------------------------------------
(* Remainders: what a uint16_t keeps of a number.                          *)

LEMMA Remainder ==
  ASSUME NEW n \in Nat, n > 0, NEW a \in Nat
  PROVE  /\ a \div n \in Int /\ a = n * (a \div n) + (a % n)
         /\ a % n \in 0 .. n - 1 /\ a % n <= a
  OBVIOUS

LEMMA RemainderOfSmall ==
  ASSUME NEW n \in Nat, NEW a \in Nat, a < n
  PROVE  a % n = a
  OBVIOUS

LEMMA Multiple ==
  ASSUME NEW n \in Nat, n > 0, NEW k \in Int
  PROVE  /\ n * k \in Int
         /\ k >= 1 => n * k >= n
         /\ k <= -1 => n * k <= -n
<1>1. k >= 1 => n * k >= n
  OBVIOUS
<1>2. k <= -1 => n * k <= -n
  OBVIOUS
<1> QED  BY <1>1, <1>2

LEMMA RemainderOfSum ==
  ASSUME NEW n \in Nat, n > 0, NEW q \in Int, NEW s \in 0 .. n - 1, n * q + s \in Nat
  PROVE  (n * q + s) % n = s
<1> DEFINE b == n * q + s
           k == q - (b \div n)
<1>1. b \in Nat /\ n * q \in Int /\ b = n * q + s
  OBVIOUS
<1> HIDE DEF b
<1>2. b \div n \in Int /\ b = n * (b \div n) + (b % n) /\ b % n \in 0 .. n - 1
  BY <1>1, Remainder
<1>3. k \in Int
  BY <1>2
<1>4. n * k = n * q - n * (b \div n)
  BY <1>2
<1>5. n * k = (b % n) - s
  BY <1>1, <1>2, <1>4
<1> HIDE DEF k
<1>6. k = 0
  <2>1. n * k < n /\ n * k > -n
    BY <1>2, <1>5
  <2> QED  BY <2>1, <1>3, Multiple
<1>7. b % n = s
  BY <1>2, <1>5, <1>6
<1> QED  BY <1>7 DEF b

(* Counting on after the remainder was taken counts the same.              *)
LEMMA RemainderOfNext ==
  ASSUME NEW n \in Nat, n > 0, NEW a \in Nat
  PROVE  (a + 1) % n = ((a % n) + 1) % n
<1> DEFINE q == a \div n
           s == a % n
<1>1. q \in Int /\ a = n * q + s /\ s \in 0 .. n - 1
  BY Remainder
<1> HIDE DEF q, s
<1>2. CASE s + 1 < n
  <2>1. s + 1 \in 0 .. n - 1 /\ n * q + (s + 1) = a + 1 /\ n * q \in Int
    BY <1>1, <1>2
  <2>2. (a + 1) % n = s + 1
    BY <2>1, <1>1, RemainderOfSum
  <2>3. (s + 1) % n = s + 1
    BY <2>1, RemainderOfSmall
  <2> QED  BY <2>2, <2>3 DEF s
<1>3. CASE s + 1 = n
  <2>1. n * (q + 1) + 0 = a + 1 /\ 0 \in 0 .. n - 1 /\ q + 1 \in Int
    <3>1. n * (q + 1) = n * q + n /\ n * q \in Int
      BY <1>1
    <3> QED  BY <3>1, <1>1, <1>3
  <2>2. (a + 1) % n = 0
    BY <2>1, RemainderOfSum
  <2>3. n * 1 + 0 = n /\ 0 \in 0 .. n - 1
    OBVIOUS
  <2>4. n % n = 0
    BY <2>3, RemainderOfSum
  <2> QED  BY <1>3, <2>2, <2>4 DEF s
<1> QED  BY <1>1, <1>2, <1>3

(* seed_makeSeed's parameter is the record's start, as long as that is     *)
(* below 2^16.                                                             *)
LEMMA StartIs ==
  ASSUME info.start \in Nat, info.start < U16
  PROVE  Start = info.start
  BY RemainderOfSmall, RegistryAssumption DEF Start

-----------------------------------------------------------------------------
(* Which steps change what.                                                *)

LEMMA NextFrame ==
  ASSUME [Next]_vars, next' # next
  PROVE  CreateList \/ WriteInfo0 \/ TakeId
  BY DEF Next, Work, InitServer, MakeSeed, Secret, vars, disk,
         DoInit, DoUpdate, SpendCode, NoInfo0, GenKeystore, KeystoreFails,
         InitRecord, GenPair, WrongIndex, PairFails, SavePair, SaveFails,
         ReleaseSatpub, ReleaseFails, NewSecret, ReleaseSecret, SecretFails,
         SetInfo, SetFails, WriteFails, Crash

LEMMA RecsFrame ==
  ASSUME [Next]_vars, recs' # recs
  PROVE  SpendCode \/ InitRecord \/ SetInfo
  BY DEF Next, Work, InitServer, MakeSeed, Secret, vars, disk,
         DoInit, DoUpdate, CreateList, WriteInfo0, TakeId, NoInfo0,
         GenKeystore, KeystoreFails, GenPair, WrongIndex, PairFails, SavePair,
         SaveFails, ReleaseSatpub, ReleaseFails, NewSecret, ReleaseSecret,
         SecretFails, SetFails, WriteFails, Crash

LEMMA WalletFrame ==
  ASSUME [Next]_vars, wallet' # wallet
  PROVE  SavePair \/ ReleaseSatpub
  BY DEF Next, Work, InitServer, MakeSeed, Secret, vars, disk,
         DoInit, DoUpdate, SpendCode, CreateList, WriteInfo0, TakeId, NoInfo0,
         GenKeystore, KeystoreFails, InitRecord, GenPair, WrongIndex, PairFails,
         SaveFails, ReleaseFails, NewSecret, ReleaseSecret, SecretFails,
         SetInfo, SetFails, WriteFails, Crash

LEMMA SatpubsFrame ==
  ASSUME [Next]_vars, satpubs' # satpubs
  PROVE  ReleaseSatpub
  BY DEF Next, Work, InitServer, MakeSeed, Secret, vars, disk,
         DoInit, DoUpdate, SpendCode, CreateList, WriteInfo0, TakeId, NoInfo0,
         GenKeystore, KeystoreFails, InitRecord, GenPair, WrongIndex, PairFails,
         SavePair, SaveFails, ReleaseFails, NewSecret, ReleaseSecret,
         SecretFails, SetInfo, SetFails, WriteFails, Crash

LEMMA SecFrame ==
  ASSUME [Next]_vars, sec' # sec
  PROVE  ReleaseSecret
  BY DEF Next, Work, InitServer, MakeSeed, Secret, vars, disk,
         DoInit, DoUpdate, SpendCode, CreateList, WriteInfo0, TakeId, NoInfo0,
         GenKeystore, KeystoreFails, InitRecord, GenPair, WrongIndex, PairFails,
         SavePair, SaveFails, ReleaseSatpub, ReleaseFails, NewSecret,
         SecretFails, SetInfo, SetFails, WriteFails, Crash

LEMMA KeysFrame ==
  ASSUME [Next]_vars, keys' # keys
  PROVE  GenKeystore \/ KeystoreFails \/ GenPair \/ WrongIndex \/ PairFails
  BY DEF Next, Work, InitServer, MakeSeed, Secret, vars, disk,
         DoInit, DoUpdate, SpendCode, CreateList, WriteInfo0, TakeId, NoInfo0,
         InitRecord, SavePair, SaveFails, ReleaseSatpub, ReleaseFails,
         NewSecret, ReleaseSecret, SecretFails, SetInfo, SetFails, WriteFails,
         Crash

LEMMA HistFrame ==
  ASSUME [Next]_vars, hist' # hist
  PROVE  TakeId \/ GenKeystore \/ NewSecret \/ SetFails \/ Crash
  BY DEF Next, Work, InitServer, MakeSeed, Secret, vars, hist, NextPair, Goto,
         DoInit, DoUpdate, SpendCode, CreateList, WriteInfo0, NoInfo0,
         KeystoreFails, InitRecord, GenPair, WrongIndex, PairFails, SavePair,
         SaveFails, ReleaseSatpub, ReleaseFails, ReleaseSecret, SecretFails,
         SetInfo, WriteFails

(* The record in memory, apart from the command's end.                     *)
LEMMA InfoFrame ==
  ASSUME [Next]_vars, info' # info
  PROVE  Finish \/ DoUpdate \/ TakeId \/ GenKeystore \/ ReleaseSatpub \/ NewSecret
  BY DEF Next, Work, InitServer, MakeSeed, Secret, vars, proc, NextPair, Goto,
         DoInit, SpendCode, CreateList, WriteInfo0, NoInfo0,
         KeystoreFails, InitRecord, GenPair, WrongIndex, PairFails, SavePair,
         SaveFails, ReleaseFails, ReleaseSecret, SecretFails,
         SetInfo, SetFails, WriteFails, Crash

LEMMA PcFrame ==
  ASSUME [Next]_vars, <<pc, idx>>' # <<pc, idx>>
  PROVE  \/ Finish \/ DoInit \/ DoUpdate
         \/ CreateList \/ WriteInfo0 \/ TakeId \/ GenKeystore \/ InitRecord
         \/ GenPair \/ SavePair \/ SaveFails \/ ReleaseSatpub
         \/ NewSecret \/ ReleaseSecret
  BY DEF Next, Work, InitServer, MakeSeed, Secret, vars, proc,
         SpendCode, NoInfo0, KeystoreFails, WrongIndex, PairFails,
         ReleaseFails, SecretFails, SetInfo, SetFails, WriteFails, Crash

-----------------------------------------------------------------------------
(* Type correctness.                                                       *)

(* The pairs of the command end below 2^16. *)
Fits == info.start + MakeMax < U16

(* Where a record is about to be written, used or released, it has an id;  *)
(* a new one has no pairs and the counter 1; a pair is saved after it was  *)
(* made. seed_makeSeed's index stays inside the pairs of its command if    *)
(* they end below 2^16, and only then does its loop end.                   *)
StageOK ==
  /\ pc = "info0" => next = Empty
  /\ pc \in {"keystore", "record", "save", "release", "set"} => info.id \in Ids
  /\ pc \in {"keystore", "record"} => info.start = 0 /\ info.counter = 1
  /\ pc \in {"idle", "list", "info0", "keystore"} => idx = 0
  /\ info.start < U16
  /\ pc \in {"pair", "save"} /\ Fits => idx >= info.start /\ idx < info.start + MakeMax
  /\ pc = "save" => keys[info.id] \in Nat \ {0}
  /\ pc = "release" => idx = info.start + MakeMax

Typed == TypeOK /\ StageOK

LEMMA NextTyped ==
  ASSUME Typed, [Next]_vars
  PROVE  next' \in {Absent, Empty} \cup 1 .. MaxId + 1
<1>1. CASE next' = next  BY <1>1 DEF Typed, TypeOK
<1>2. CASE CreateList  BY <1>2 DEF CreateList
<1>3. CASE WriteInfo0  BY <1>3, RegistryAssumption DEF WriteInfo0
<1>4. CASE TakeId  BY <1>4, RegistryAssumption DEF TakeId, Ids
<1> QED  BY <1>1, <1>2, <1>3, <1>4, NextFrame

LEMMA InfoTyped ==
  ASSUME Typed, [Next]_vars
  PROVE  info' \in Rec
<1>1. CASE info' = info  BY <1>1 DEF Typed, TypeOK
<1>2. CASE Finish  BY <1>2, RegistryAssumption DEF Finish, Zero, Rec
<1>3. CASE DoUpdate  BY <1>3 DEF DoUpdate, Typed, TypeOK, Ids
<1>4. CASE TakeId  BY <1>4, RegistryAssumption DEF TakeId, Ids, Rec
<1>5. CASE GenKeystore \/ NewSecret
  <2>1. PICK t \in now .. MaxTime :
          \/ info' = [info EXCEPT !.secret = t]
          \/ info' = [info EXCEPT !.secret = t, !.counter = 1]
    BY <1>5 DEF GenKeystore, NewSecret
  <2>2. info \in Rec /\ t \in Nat  BY <2>1, RegistryAssumption DEF Typed, TypeOK
  <2>3. CASE info' = [info EXCEPT !.secret = t]
    BY <2>2, <2>3 DEF Rec
  <2>4. CASE info' = [info EXCEPT !.secret = t, !.counter = 1]
    BY <2>2, <2>4 DEF Rec
  <2> QED  BY <2>1, <2>3, <2>4
<1>6. CASE ReleaseSatpub
  <2>1. info \in Rec  BY DEF Typed, TypeOK
  <2>2. info.start + MakeMax \in Nat  BY <2>1, RegistryAssumption DEF Rec
  <2> QED  BY <1>6, <2>1, <2>2 DEF ReleaseSatpub, Rec
<1> QED  BY <1>1, <1>2, <1>3, <1>4, <1>5, <1>6, InfoFrame

LEMMA RecsTyped ==
  ASSUME Typed, [Next]_vars
  PROVE  /\ recs' \in [Ids -> Rec]
         /\ \A i \in Ids : recs'[i].id \in {0, i} /\ recs'[i].start < U16
<1>1. CASE recs' = recs  BY <1>1 DEF Typed, TypeOK
<1>2. CASE SpendCode
  <2>1. PICK i \in Ids : recs' = [recs EXCEPT ![i].counter = @ + 1]
    BY <1>2 DEF SpendCode
  <2>a. recs[i] \in Rec  BY DEF Typed, TypeOK
  <2>2. [recs[i] EXCEPT !.counter = @ + 1] \in Rec  BY <2>a DEF Rec
  <2>3. /\ [recs[i] EXCEPT !.counter = @ + 1].id = recs[i].id
        /\ [recs[i] EXCEPT !.counter = @ + 1].start = recs[i].start
    BY <2>a DEF Rec
  <2> QED  BY <2>1, <2>2, <2>3 DEF Typed, TypeOK
<1>3. CASE InitRecord
  BY <1>3 DEF InitRecord, Typed, TypeOK, StageOK
<1>4. CASE SetInfo
  BY <1>4 DEF SetInfo, Typed, TypeOK, StageOK
<1> QED  BY <1>1, <1>2, <1>3, <1>4, RecsFrame

(* The entry that SavePair writes.                                         *)
LEMMA EntryTyped ==
  ASSUME Typed, pc = "save"
  PROVE  [index |-> idx, pair |-> keys[info.id] - 1] \in Entry
<1>1. idx \in Nat
  BY RegistryAssumption DEF Typed, TypeOK
<1>2. keys[info.id] - 1 \in Nat
  BY DEF Typed, StageOK
<1> QED  BY <1>1, <1>2 DEF Entry

LEMMA WalletTyped ==
  ASSUME Typed, [Next]_vars
  PROVE  wallet' \in [Ids -> Seq(Entry)]
<1>1. CASE wallet' = wallet  BY <1>1 DEF Typed, TypeOK
<1>2. CASE SavePair
  <2>1. info.id \in Ids
    BY <1>2 DEF SavePair, Typed, StageOK
  <2> DEFINE e == [index |-> idx, pair |-> keys[info.id] - 1]
  <2>2. e \in Entry
    BY <1>2, EntryTyped DEF SavePair
  <2>3. wallet' = [wallet EXCEPT ![info.id] = Append(@, e)]
    BY <1>2 DEF SavePair
  <2> HIDE DEF e
  <2>4. Append(wallet[info.id], e) \in Seq(Entry)
    BY <2>1, <2>2 DEF Typed, TypeOK
  <2> QED  BY <2>3, <2>4 DEF Typed, TypeOK
<1>3. CASE ReleaseSatpub
  <2>1. <<>> \in Seq(Entry)
    OBVIOUS
  <2> QED  BY <1>3, <2>1 DEF ReleaseSatpub, Typed, TypeOK
<1> QED  BY <1>1, <1>2, <1>3, WalletFrame

LEMMA KeysTyped ==
  ASSUME Typed, [Next]_vars
  PROVE  keys' \in [Ids -> Nat \cup {NoKeystore}]
<1>1. CASE keys' = keys  BY <1>1 DEF Typed, TypeOK
<1>2. CASE GenKeystore
  BY <1>2 DEF GenKeystore, Typed, TypeOK
<1>3. CASE KeystoreFails
  BY <1>3 DEF KeystoreFails, Typed, TypeOK
<1>4. CASE HasKeystore /\ keys' = [keys EXCEPT ![info.id] = @ + 1]
  BY <1>4 DEF HasKeystore, Typed, TypeOK
<1> QED
  BY <1>1, <1>2, <1>3, <1>4, KeysFrame DEF GenPair, WrongIndex, PairFails

LEMMA SecTyped ==
  ASSUME Typed, [Next]_vars
  PROVE  sec' \in [Ids -> Nat]
<1>1. CASE sec' = sec  BY <1>1 DEF Typed, TypeOK
<1>2. CASE ReleaseSecret
  BY <1>2 DEF ReleaseSecret, Typed, TypeOK, Rec
<1> QED  BY <1>1, <1>2, SecFrame

LEMMA HistTyped ==
  ASSUME Typed, [Next]_vars
  PROVE  /\ now' \in 1 .. MaxTime /\ secrets' \subseteq 1 .. MaxTime /\ again' \in BOOLEAN
         /\ issued' \in Seq(Ids) /\ undone' \subseteq Ids
<1>a. /\ now \in 1 .. MaxTime /\ secrets \subseteq 1 .. MaxTime /\ again \in BOOLEAN
      /\ issued \in Seq(Ids) /\ undone \subseteq Ids
  BY DEF Typed, TypeOK
<1>1. CASE hist' = hist  BY <1>1, <1>a DEF hist, clock
<1>2. CASE TakeId  BY <1>2, <1>a DEF TakeId, clock
<1>3. CASE GenKeystore \/ NewSecret
  <2>1. PICK t \in now .. MaxTime : SecretOf(t) /\ UNCHANGED <<issued, undone>>
    BY <1>3 DEF GenKeystore, NewSecret
  <2>2. t \in 1 .. MaxTime
    BY <1>a, RegistryAssumption
  <2>3. again' \in BOOLEAN
    <3>1. again' = (t \in secrets)  BY <2>1 DEF SecretOf
    <3> QED  BY <3>1
  <2> QED  BY <1>a, <2>1, <2>2, <2>3 DEF SecretOf
<1>4. CASE SetFails
  BY <1>4, <1>a DEF SetFails, clock, Typed, StageOK
<1>5. CASE Crash
  BY <1>5, <1>a DEF Crash
<1> QED  BY <1>1, <1>2, <1>3, <1>4, <1>5, HistFrame

(* Where the process stands, and the index of its loop.                    *)
PcOK ==
  /\ pc \in Stages /\ idx \in 0 .. U16 - 1
  /\ pc \in {"pair", "save", "release"} /\ Start + MakeMax < U16 =>
       idx \in Start .. Start + MakeMax
  /\ StageOK

(* A pass of the loop ends: the index goes up, and wraps only where the    *)
(* loop does not end.                                                      *)
LEMMA NextPairStage ==
  ASSUME Typed, NextPair, pc = "save"
  PROVE  /\ idx' \in 0 .. U16 - 1 /\ info' = info /\ pc' \in {"pair", "release"}
         /\ pc' = "pair" /\ Fits => idx' >= info.start /\ idx' < info.start + MakeMax
         /\ pc' = "release" => idx' = info.start + MakeMax
         /\ Fits => idx' = idx + 1
         /\ idx' <= idx + 1
<1>1. /\ idx \in 0 .. U16 - 1 /\ info.start \in Nat /\ info.start < U16
      /\ MakeMax \in Nat /\ MakeMax > 0 /\ U16 \in Nat /\ U16 > 0
      /\ Fits => idx >= info.start /\ idx < info.start + MakeMax
  BY RegistryAssumption DEF Typed, TypeOK, StageOK, Rec
<1>2. idx' = (idx + 1) % U16 /\ info' = info
      /\ pc' = IF idx' < info.start + MakeMax THEN "pair" ELSE "release"
  BY <1>1, StartIs DEF NextPair
<1>3. idx' \in 0 .. U16 - 1 /\ idx' <= idx + 1
  BY <1>1, <1>2, Remainder
<1>4. CASE Fits
  <2>1. idx + 1 < U16 /\ idx + 1 <= info.start + MakeMax
    BY <1>1, <1>4 DEF Fits
  <2>2. idx' = idx + 1
    BY <1>1, <1>2, <2>1, RemainderOfSmall
  <2> QED  BY <1>1, <1>2, <1>3, <1>4, <2>1, <2>2
<1>5. CASE ~ Fits
  <2>1. idx' < info.start + MakeMax
    BY <1>1, <1>3, <1>5 DEF Fits
  <2> QED  BY <1>2, <1>3, <1>5, <2>1
<1> QED  BY <1>4, <1>5

LEMMA StageKept ==
  ASSUME Typed, [Next]_vars
  PROVE  pc' \in Stages /\ idx' \in 0 .. U16 - 1 /\ StageOK'
<1> USE DEF StageOK, Stages
<1>0. info' \in Rec
  BY InfoTyped
<1>a. /\ info \in Rec /\ idx \in 0 .. U16 - 1 /\ info.start \in Nat /\ info.start < U16
      /\ MakeMax \in Nat /\ MakeMax > 0 /\ U16 \in Nat /\ U16 > 0
  BY RegistryAssumption DEF Typed, TypeOK, Rec
<1>1. CASE Finish
  BY <1>1, RegistryAssumption DEF Finish, Zero
<1>2. CASE DoInit
  BY <1>2, <1>a DEF DoInit, Typed, TypeOK, Fits
<1>3. CASE DoUpdate
  <2>1. CASE UNCHANGED <<info, idx, pc>>
    BY <1>3, <2>1 DEF DoUpdate, disk, Typed, TypeOK, Fits
  <2>2. CASE \E i \in Ids : /\ info' = recs[i] /\ idx' = recs[i].start % U16
                             /\ pc' \in {"pair", "newsec"}
    <3>1. PICK i \in Ids : /\ info' = recs[i] /\ idx' = recs[i].start % U16
                           /\ pc' \in {"pair", "newsec"}
      BY <2>2
    <3>2. recs[i].start \in Nat /\ recs[i].start < U16
      BY DEF Typed, TypeOK, Rec
    <3>3. idx' = info'.start
      BY <1>a, <3>1, <3>2, RemainderOfSmall
    <3> QED  BY <1>a, <3>1, <3>2, <3>3 DEF Fits
  <2> QED  BY <1>3, <2>1, <2>2 DEF DoUpdate
<1>4. CASE CreateList
  BY <1>4 DEF CreateList, Goto, proc, Typed, TypeOK
<1>5. CASE WriteInfo0
  BY <1>5 DEF WriteInfo0, Goto, proc, Typed, TypeOK
<1>6. CASE TakeId
  BY <1>6, <1>a DEF TakeId, Typed, TypeOK
<1>7. CASE GenKeystore \/ NewSecret
  <2>1. info'.id = info.id /\ info'.start = info.start
    BY <1>7, <1>a DEF GenKeystore, NewSecret, Rec
  <2>2. CASE GenKeystore
    <3>1. pc = "keystore" /\ pc' = "record" /\ idx' = idx /\ info'.counter = info.counter
      BY <2>2, <1>a DEF GenKeystore, Rec
    <3> QED  BY <1>a, <2>1, <3>1 DEF Typed
  <2>3. CASE NewSecret
    <3>1. pc' = "sec" /\ idx' = idx
      BY <2>3 DEF NewSecret
    <3> QED  BY <1>a, <2>1, <3>1 DEF Typed
  <2> QED  BY <1>7, <2>2, <2>3
<1>8. CASE InitRecord
  <2>1. /\ pc = "record" /\ idx' = 0 /\ pc' = "pair"
        /\ info' = info /\ next' = next
    BY <1>8 DEF InitRecord
  <2> QED  BY <1>a, <2>1 DEF Typed, Fits
<1>9. CASE GenPair
  <2>1. /\ pc = "pair" /\ pc' = "save" /\ UNCHANGED <<info, idx, next>> /\ info.id \in Ids
        /\ keys[info.id] # NoKeystore /\ keys' = [keys EXCEPT ![info.id] = @ + 1]
    BY <1>9 DEF GenPair, Goto, proc, HasKeystore
  <2>2. keys'[info.id] \in Nat \ {0}
    BY <2>1 DEF Typed, TypeOK
  <2> QED  BY <1>a, <2>1, <2>2 DEF Typed, Fits
<1>10. CASE SavePair \/ SaveFails
  <2>1. pc = "save" /\ NextPair /\ next' = next
    BY <1>10 DEF SavePair, SaveFails, disk
  <2> QED  BY <2>1, NextPairStage DEF Typed, Fits
<1>11. CASE ReleaseSatpub
  <2>1. /\ pc = "release" /\ idx' = idx /\ next' = next
        /\ info' = [info EXCEPT !.start = @ + MakeMax] /\ pc' \in {"sec", "set"}
    BY <1>11 DEF ReleaseSatpub
  <2>2. idx = info.start + MakeMax /\ info.id \in Ids
    BY <2>1 DEF Typed
  <2>3. info'.start = info.start + MakeMax /\ info'.id = info.id
    BY <1>a, <2>1 DEF Rec
  <2> QED  BY <1>a, <2>1, <2>2, <2>3
<1>12. CASE ReleaseSecret
  <2>1. /\ pc' = "set" /\ UNCHANGED <<info, idx>> /\ info.id # 0
    BY <1>12 DEF ReleaseSecret, Goto, proc
  <2>2. info.id \in Ids
    BY <1>a, <2>1 DEF Rec, Ids
  <2> QED  BY <1>a, <2>1, <2>2
<1>13. CASE UNCHANGED <<pc, idx>>
  <2>1. CASE UNCHANGED <<info, next, keys>>
    BY <1>13, <2>1 DEF Typed, TypeOK, Fits
  <2>2. CASE UNCHANGED <<info, next>> /\ pc # "save"
    BY <1>13, <2>2 DEF Typed, TypeOK, Fits
  <2>3. keys' # keys => pc # "save"
    BY KeysFrame DEF GenKeystore, KeystoreFails, GenPair, WrongIndex, PairFails
  <2> QED  BY <1>13, <2>1, <2>2, <2>3, <1>1, <1>3, <1>4, <1>5, <1>6, <1>7, <1>11,
              NextFrame, InfoFrame
<1> QED
  BY <1>1, <1>2, <1>3, <1>4, <1>5, <1>6, <1>7, <1>8, <1>9, <1>10, <1>11,
     <1>12, <1>13, PcFrame

LEMMA PcKept ==
  ASSUME Typed, [Next]_vars
  PROVE  PcOK'
<1>1. pc' \in Stages /\ idx' \in 0 .. U16 - 1 /\ StageOK' /\ info' \in Rec
  BY StageKept, InfoTyped
<1>2. info'.start \in Nat /\ info'.start < U16 /\ U16 \in Nat /\ MakeMax \in Nat
  BY <1>1, RegistryAssumption DEF StageOK, Rec
<1>3. Start' = info'.start
  BY <1>2, RemainderOfSmall, RegistryAssumption DEF Start
<1> QED  BY <1>1, <1>2, <1>3 DEF PcOK, StageOK, Fits

LEMMA CmdTyped ==
  ASSUME Typed, [Next]_vars
  PROVE  cmd' \in {"none", "init", "satpub", "secret"}
<1>1. CASE cmd' = cmd  BY <1>1 DEF Typed, TypeOK
<1>2. CASE Finish \/ DoInit \/ DoUpdate
  BY <1>2 DEF Finish, DoInit, DoUpdate, Typed, TypeOK
<1>3. Finish \/ DoInit \/ DoUpdate \/ cmd' = cmd
  BY DEF Next, Work, InitServer, MakeSeed, Secret, vars, proc, NextPair, Goto,
         SpendCode, CreateList, WriteInfo0, TakeId, NoInfo0, GenKeystore,
         KeystoreFails, InitRecord, GenPair, WrongIndex, PairFails, SavePair,
         SaveFails, ReleaseSatpub, ReleaseFails, NewSecret, ReleaseSecret,
         SecretFails, SetInfo, SetFails, WriteFails, Crash
<1> QED  BY <1>1, <1>2, <1>3

LEMMA TypedKept == ASSUME Typed, [Next]_vars PROVE Typed'
  BY NextTyped, InfoTyped, RecsTyped, WalletTyped, KeysTyped, SecTyped,
     HistTyped, PcKept, CmdTyped DEF Typed, TypeOK, PcOK

LEMMA TypedInit == ASSUME Init PROVE Typed
<1>1. StageOK
  BY RegistryAssumption DEF Init, StageOK, Zero, Ids, Fits
<1>2. /\ next \in {Absent, Empty} \cup 1 .. MaxId + 1
      /\ recs \in [Ids -> Rec] /\ info \in Rec
      /\ wallet \in [Ids -> Seq(Entry)] /\ sec \in [Ids -> Nat]
      /\ keys \in [Ids -> Nat \cup {NoKeystore}]
      /\ \A i \in Ids : recs[i].id \in {0, i} /\ recs[i].start < U16
  BY RegistryAssumption DEF Init, Rec, Zero, Ids, NoKeystore
<1>3. /\ pc = "idle" /\ pc \in Stages /\ cmd \in {"none", "init", "satpub", "secret"}
      /\ idx \in 0 .. U16 - 1
      /\ now \in 1 .. MaxTime /\ secrets \subseteq 1 .. MaxTime
      /\ issued \in Seq(Ids) /\ undone \subseteq Ids
  BY RegistryAssumption DEF Init, Stages
<1>4. again \in BOOLEAN
  BY DEF Init
<1> QED  BY <1>1, <1>2, <1>3, <1>4 DEF Typed, TypeOK

(* Every step keeps the types. seed_makeSeed's index stays within the      *)
(* pairs of its command where they end below 2^16; server_start never      *)
(* passes 2^16, since no satpub file is released where they do not.        *)
THEOREM TypeCorrect == Spec => []TypeOK
<1>1. Init => Typed
  BY TypedInit
<1>2. Typed /\ [Next]_vars => Typed'
  BY TypedKept
<1>3. Typed => TypeOK
  BY DEF Typed
<1> QED
  BY <1>1, <1>2, <1>3, PTL DEF Spec

-----------------------------------------------------------------------------
(* Ids.                                                                    *)

(* Ids are handed out upwards: every one in use is below the next.         *)
IssuedBelow == \A m \in 1 .. Len(issued) : issued[m] < next

LEMMA IssuedKept ==
  ASSUME Typed, IssuedBelow, IdIssuedOnce, [Next]_vars
  PROVE  IssuedBelow' /\ IdIssuedOnce'
<1> USE DEF IssuedBelow, IdIssuedOnce
<1>a. next \in Int /\ issued \in Seq(Ids) /\ Ids \subseteq Nat \ {0}
  <2>1. MaxId \in Nat
    BY RegistryAssumption
  <2>2. Ids \subseteq Nat \ {0}
    BY <2>1 DEF Ids
  <2>3. next \in Int /\ issued \in Seq(Ids)
    BY <2>1 DEF Typed, TypeOK, Ids, Absent, Empty
  <2> QED  BY <2>2, <2>3
<1>b. \A m \in 1 .. Len(issued) : issued[m] \in Ids
  BY <1>a
<1>c. Len(issued) \in Nat /\ \A m \in 1 .. Len(issued) : issued[m] \in Int
  <2>1. Len(issued) \in Nat  BY <1>a
  <2>2. \A m \in 1 .. Len(issued) : issued[m] \in Int  BY <1>b DEF Ids
  <2> QED  BY <2>1, <2>2
<1>1. CASE TakeId
  <2>1. /\ issued' = Append(issued, next) /\ next' = next + 1
        /\ Len(issued') = Len(issued) + 1
        /\ issued'[Len(issued) + 1] = next
        /\ \A m \in 1 .. Len(issued) : issued'[m] = issued[m]
    BY <1>1, <1>a DEF TakeId
  <2>2. IssuedBelow'
    <3>1. ASSUME NEW m \in 1 .. Len(issued') PROVE issued'[m] < next'
      <4>1. CASE m = Len(issued) + 1  BY <4>1, <2>1, <1>a
      <4>2. CASE m \in 1 .. Len(issued)  BY <4>2, <2>1, <1>a, <1>c
      <4> QED  BY <4>1, <4>2, <2>1, <1>c
    <3> QED  BY <3>1
  <2>3. ASSUME NEW m \in 1 .. Len(issued'), NEW n \in 1 .. Len(issued'),
               issued'[m] = issued'[n]
        PROVE  m = n
    <3>1. CASE m \in 1 .. Len(issued) /\ n \in 1 .. Len(issued)
      BY <3>1, <2>1, <2>3
    <3>2. CASE m = Len(issued) + 1 /\ n \in 1 .. Len(issued)
      BY <3>2, <2>1, <2>3, <1>a, <1>c
    <3>3. CASE n = Len(issued) + 1 /\ m \in 1 .. Len(issued)
      BY <3>3, <2>1, <2>3, <1>a, <1>c
    <3> QED  BY <3>1, <3>2, <3>3, <2>1, <1>c
  <2> QED  BY <2>2, <2>3
<1>2. CASE ~ TakeId
  <2>1. issued' = issued
    BY <1>2, HistFrame DEF hist, GenKeystore, NewSecret, SetFails, Crash
  <2>2. next' = next \/ next' > next
    BY <1>2, NextFrame DEF CreateList, WriteInfo0, Typed, StageOK, Absent, Empty
  <2>3. next' \in Int
    BY NextTyped, RegistryAssumption DEF Absent, Empty
  <2> QED  BY <1>a, <1>c, <2>1, <2>2, <2>3
<1> QED  BY <1>1, <1>2

(* server_getNewInfo gives out no id twice.                                *)
THEOREM IdsOnce == Spec => []IdIssuedOnce
<1> DEFINE I == Typed /\ IssuedBelow /\ IdIssuedOnce
<1>1. Init => I
  <2>1. ASSUME Init PROVE Typed /\ Len(issued) = 0
    BY <2>1, TypedInit DEF Init
  <2> QED  BY <2>1 DEF IssuedBelow, IdIssuedOnce
<1>2. I /\ [Next]_vars => I'
  BY TypedKept, IssuedKept
<1>3. I => IdIssuedOnce
  OBVIOUS
<1> QED
  BY <1>1, <1>2, <1>3, PTL DEF Spec

(* An id that is in use is below the next; the record of a new one is not  *)
(* in the list before it is written.                                       *)
BelowNext ==
  /\ \A i \in Ids : Written(i) => i < next
  /\ info.id \in Ids => info.id < next
  /\ pc \in {"keystore", "record"} => ~ Written(info.id)
  /\ pc \in {"list", "info0", "keystore", "record"} => cmd = "init"

LEMMA BelowKept ==
  ASSUME Typed, BelowNext, [Next]_vars
  PROVE  BelowNext'
<1> USE DEF BelowNext, Written
<1>a. /\ next \in Int /\ Ids \subseteq Int /\ info \in Rec /\ recs \in [Ids -> Rec]
      /\ \A i \in Ids : recs[i].id \in {0, i}
      /\ pc \in {"keystore", "record", "set"} => info.id \in Ids
      /\ pc = "info0" => next = Empty
      /\ 0 \notin Ids
  <2>1. /\ next \in Int /\ Ids \subseteq Int /\ info \in Rec /\ recs \in [Ids -> Rec]
        /\ \A i \in Ids : recs[i].id \in {0, i}
        /\ 0 \notin Ids
    BY RegistryAssumption DEF Typed, TypeOK, Ids, Absent, Empty
  <2>2. /\ pc \in {"keystore", "record", "set"} => info.id \in Ids
        /\ pc = "info0" => next = Empty
    BY DEF Typed, StageOK
  <2> QED  BY <2>1, <2>2
<1>1. CASE SpendCode
  <2>1. PICK j \in Ids : recs' = [recs EXCEPT ![j].counter = @ + 1]
                         /\ recs[j].counter # 0
    BY <1>1 DEF SpendCode
  <2>2. \A i \in Ids : recs'[i] # Zero => recs[i] # Zero
    BY <2>1, <1>a DEF Zero
  <2>3. UNCHANGED <<next, info, pc, cmd>> /\ pc = "idle"
    BY <1>1 DEF SpendCode, proc
  <2> QED  BY <2>2, <2>3
<1>2. CASE InitRecord \/ SetInfo
  <2>1. /\ recs' = [recs EXCEPT ![info.id] = info] /\ next' = next
        /\ info.id \in Ids /\ info.id < next
        /\ \/ pc' = "pair" /\ info' = info
           \/ pc' = "idle" /\ info'.id = 0
    BY <1>2, <1>a DEF InitRecord, SetInfo, Finish, Zero
  <2> QED  BY <2>1, <1>a
<1>3. CASE TakeId
  <2>1. /\ recs' = recs /\ next' = next + 1 /\ info'.id = next /\ pc' = "keystore"
        /\ cmd' = cmd /\ pc = "list" /\ next \in Ids
    BY <1>3 DEF TakeId
  <2>2. \A i \in Ids : i < next => i < next + 1 /\ i # next
    BY <1>a
  <2> QED  BY <2>1, <2>2, <1>a
<1>4. CASE CreateList \/ WriteInfo0
  <2>1. UNCHANGED <<recs, info, cmd>> /\ next' > next /\ pc \in {"list", "info0"}
        /\ pc' \in {"list", "info0"} /\ next' \in Int
    BY <1>4, <1>a DEF CreateList, WriteInfo0, Goto, proc, Absent, Empty
  <2>2. \A i \in Ids : i < next => i < next'
    BY <2>1, <1>a
  <2> QED  BY <2>1, <2>2, <1>a
<1>5. CASE DoInit
  BY <1>5, <1>a DEF DoInit, disk
<1>6. CASE DoUpdate
  <2>1. CASE UNCHANGED <<cmd, info, pc>>
    BY <1>6, <2>1 DEF DoUpdate, disk
  <2>2. CASE \E i \in Ids : info' = recs[i] /\ i < next /\ pc' \in {"pair", "newsec"}
    <3>1. PICK i \in Ids : info' = recs[i] /\ i < next /\ pc' \in {"pair", "newsec"}
      BY <2>2
    <3>2. info'.id \in Ids => info'.id < next
      BY <3>1, <1>a
    <3> QED  BY <1>6, <3>1, <3>2 DEF DoUpdate, disk
  <2> QED  BY <1>6, <2>1, <2>2 DEF DoUpdate, Readable
<1>7. CASE GenKeystore
  <2>1. info'.id = info.id
    BY <1>7, <1>a DEF GenKeystore, Rec
  <2> QED  BY <1>7, <2>1 DEF GenKeystore
<1>8. CASE ReleaseSatpub \/ NewSecret
  <2>1. info'.id = info.id /\ pc \in {"release", "newsec"} /\ pc' \in {"sec", "set"}
        /\ UNCHANGED <<recs, next>>
    BY <1>8, <1>a DEF ReleaseSatpub, NewSecret, Rec, disk
  <2> QED  BY <2>1
<1>9. CASE Finish /\ UNCHANGED <<recs, next>>
  BY <1>9, <1>a DEF Finish, Zero
<1>10. CASE /\ UNCHANGED <<recs, next, info, cmd>>
            /\ pc' \in {"list", "info0", "keystore", "record"} => pc' = pc
  BY <1>10
<1> QED
  <2>1. \/ SpendCode \/ InitRecord \/ SetInfo \/ TakeId \/ CreateList \/ WriteInfo0
        \/ DoInit \/ DoUpdate \/ GenKeystore \/ ReleaseSatpub \/ NewSecret
        \/ Finish /\ UNCHANGED <<recs, next>>
        \/ /\ UNCHANGED <<recs, next, info, cmd>>
           /\ pc' \in {"list", "info0", "keystore", "record"} => pc' = pc
    BY DEF Next, Work, InitServer, MakeSeed, Secret, vars, proc, disk, NextPair,
           Goto, NoInfo0, KeystoreFails, GenPair, WrongIndex, PairFails, SavePair,
           SaveFails, ReleaseFails, ReleaseSecret, SecretFails, SetFails,
           WriteFails, Crash
  <2> QED  BY <2>1, <1>1, <1>2, <1>3, <1>4, <1>5, <1>6, <1>7, <1>8, <1>9, <1>10

LEMMA BelowInit == ASSUME Init PROVE BelowNext
  BY DEF Init, BelowNext, Written, Zero, Ids

-----------------------------------------------------------------------------
(* Secrets and counters.                                                   *)

(* A secret is of a second in which one was made, or it is still zero.     *)
SecretsKnown ==
  /\ info.secret \in secrets \cup {0}
  /\ \A i \in Ids : recs[i].secret \in secrets \cup {0}
  /\ pc = "record" => info.secret # 0

(* Whoever holds the record of a server has the list's counter of the      *)
(* list's secret, or is an update with a new secret and the counter 1. The *)
(* new secret may be the list's own only if two were made in one second.   *)
Holding == {"pair", "save", "release", "newsec", "sec", "set"}

AsListed ==
  info.secret = recs[info.id].secret /\ info.counter = recs[info.id].counter

Renewed ==
  /\ cmd = "secret" /\ pc \in {"sec", "set"}
  /\ info.counter = 1
  /\ again \/ info.secret # recs[info.id].secret
  /\ pc = "set" => sec[info.id] = info.secret

Held ==
  /\ pc \in Holding /\ info.id \in Ids => AsListed \/ Renewed
  /\ pc = "newsec" => cmd = "secret"

SecretsOK == SecretsKnown /\ Held

LEMMA HoldingFrame ==
  ASSUME [Next]_vars
  PROVE  \/ Finish /\ UNCHANGED <<secrets, again>>
         \/ DoUpdate \/ TakeId \/ GenKeystore \/ InitRecord \/ ReleaseSatpub
         \/ NewSecret \/ ReleaseSecret
         \/ /\ UNCHANGED <<info, secrets, again>>
            /\ pc' \in Holding => pc \in Holding
            /\ pc' = "record" => pc = "record"
            /\ pc' \in {"newsec", "sec", "set"} => UNCHANGED <<pc, cmd, sec>>
            /\ pc' \in {"pair", "save", "release"} => pc \in {"pair", "save", "release"}
  BY DEF Next, Work, InitServer, MakeSeed, Secret, vars, proc, disk, hist, clock,
         NextPair, Goto, Holding, DoInit, SpendCode, CreateList, WriteInfo0,
         NoInfo0, KeystoreFails, GenPair, WrongIndex, PairFails, SavePair,
         SaveFails, ReleaseFails, SecretFails, SetInfo, SetFails, WriteFails,
         Crash

(* A secret that was made, and what is known of the record it goes to.     *)
LEMMA MadeSecret ==
  ASSUME Typed, SecretsKnown, GenKeystore \/ NewSecret
  PROVE  /\ info'.secret # 0 /\ info'.id = info.id /\ UNCHANGED <<recs, sec, cmd>>
         /\ secrets' = secrets \cup {info'.secret}
         /\ \A i \in Ids : again' \/ info'.secret # recs[i].secret
         /\ NewSecret => info'.counter = 1
<1>1. PICK t \in now .. MaxTime :
        /\ SecretOf(t) /\ UNCHANGED <<recs, sec, cmd>>
        /\ \/ info' = [info EXCEPT !.secret = t] /\ ~ NewSecret
           \/ info' = [info EXCEPT !.secret = t, !.counter = 1]
  BY DEF GenKeystore, NewSecret, disk
<1>2. info \in Rec /\ t # 0
  BY RegistryAssumption DEF Typed, TypeOK
<1>3. info'.secret = t /\ info'.id = info.id /\ (NewSecret => info'.counter = 1)
  BY <1>1, <1>2 DEF Rec
<1>4. secrets' = secrets \cup {t} /\ (~ again' => t \notin secrets)
  BY <1>1 DEF SecretOf
<1> QED  BY <1>1, <1>2, <1>3, <1>4 DEF SecretsKnown

LEMMA KnownKept ==
  ASSUME Typed, SecretsKnown, [Next]_vars
  PROVE  SecretsKnown'
<1> USE DEF SecretsKnown
<1>a. info \in Rec /\ recs \in [Ids -> Rec]
  BY DEF Typed, TypeOK
<1>1. \A i \in Ids : recs'[i].secret \in secrets \cup {0}
  <2>1. CASE SpendCode
    BY <2>1, <1>a DEF SpendCode, Rec
  <2>2. CASE InitRecord \/ SetInfo
    BY <2>2, <1>a DEF InitRecord, SetInfo
  <2>3. CASE UNCHANGED recs
    BY <2>3
  <2> QED  BY <2>1, <2>2, <2>3, RecsFrame
<1>2. CASE Finish /\ UNCHANGED secrets
  BY <1>1, <1>2 DEF Finish, Zero
<1>3. CASE DoUpdate
  <2>1. secrets' = secrets /\ pc' # "record"
    BY <1>3 DEF DoUpdate, hist, clock
  <2>2. info' = info \/ \E i \in Ids : info' = recs[i]
    BY <1>3 DEF DoUpdate
  <2> QED  BY <1>1, <2>1, <2>2
<1>4. CASE TakeId
  BY <1>1, <1>4 DEF TakeId, clock
<1>5. CASE GenKeystore \/ NewSecret
  BY <1>1, <1>5, MadeSecret DEF NewSecret
<1>6. CASE ReleaseSatpub
  BY <1>1, <1>6, <1>a DEF ReleaseSatpub, hist, clock, Rec
<1>7. CASE InitRecord \/ ReleaseSecret
  BY <1>1, <1>7 DEF InitRecord, ReleaseSecret, Goto, proc, hist, clock
<1>8. CASE UNCHANGED <<info, secrets>> /\ (pc' = "record" => pc = "record")
  BY <1>1, <1>8
<1> QED  BY <1>2, <1>3, <1>4, <1>5, <1>6, <1>7, <1>8, HoldingFrame

LEMMA HeldKept ==
  ASSUME Typed, SecretsOK, [Next]_vars
  PROVE  Held'
<1>a. /\ info \in Rec /\ recs \in [Ids -> Rec] /\ sec \in [Ids -> Nat]
      /\ \A i \in Ids : recs[i].id \in {0, i}
      /\ pc = "record" => info.id \in Ids
      /\ 0 \notin Ids
  BY DEF Typed, TypeOK, StageOK, Ids
<1>b. Held /\ SecretsKnown
  BY DEF SecretsOK
<1> USE DEF Held, AsListed, Renewed
<1>1. CASE Finish
  BY <1>1 DEF Finish, Holding
<1>2. CASE DoUpdate
  <2>1. UNCHANGED <<recs, sec, again>> /\ pc = "idle"
    BY <1>2 DEF DoUpdate, disk, hist, clock
  <2>2. CASE UNCHANGED <<info, pc>>
    BY <2>1, <2>2 DEF Holding
  <2>3. CASE \E i \in Ids, kind \in {"satpub", "secret"} :
               /\ cmd' = kind /\ info' = recs[i]
               /\ pc' = IF kind = "satpub" THEN "pair" ELSE "newsec"
    <3>1. PICK i \in Ids : info' = recs[i] /\ (pc' = "newsec" => cmd' = "secret")
      BY <2>3
    <3>2. info'.id \in Ids => info'.id = i
      BY <3>1, <1>a
    <3> QED  BY <2>1, <3>1, <3>2
  <2> QED  BY <1>2, <2>2, <2>3 DEF DoUpdate
<1>3. CASE TakeId
  BY <1>3 DEF TakeId, Holding
<1>4. CASE GenKeystore
  BY <1>4 DEF GenKeystore, Holding
<1>5. CASE InitRecord
  BY <1>5, <1>a DEF InitRecord
<1>6. CASE ReleaseSatpub
  <2>1. /\ info'.id = info.id /\ info'.secret = info.secret /\ info'.counter = info.counter
        /\ UNCHANGED recs /\ pc = "release" /\ pc' \in {"sec", "set"}
    BY <1>6, <1>a DEF ReleaseSatpub, Rec
  <2> QED  BY <1>b, <2>1 DEF Holding
<1>7. CASE NewSecret
  <2>1. pc = "newsec" /\ pc' = "sec"
    BY <1>7 DEF NewSecret
  <2> QED  BY <1>b, <1>7, <2>1, MadeSecret
<1>8. CASE ReleaseSecret
  <2>1. /\ UNCHANGED <<info, recs, cmd, again>> /\ pc = "sec" /\ pc' = "set"
        /\ info.id \in Ids => sec'[info.id] = info.secret
    BY <1>8, <1>a DEF ReleaseSecret, Goto, proc, hist, clock
  <2> QED  BY <1>b, <2>1 DEF Holding
<1>9. CASE /\ UNCHANGED <<info, again>>
           /\ pc' \in Holding => pc \in Holding
           /\ pc' \in {"newsec", "sec", "set"} => UNCHANGED <<pc, cmd, sec>>
           /\ pc' \in {"pair", "save", "release"} => pc \in {"pair", "save", "release"}
  <2>1. CASE pc' \in Holding /\ UNCHANGED recs
    BY <1>b, <1>9, <2>1 DEF Holding
  <2>2. CASE pc' \notin Holding
    BY <2>2 DEF Holding
  <2>3. CASE SpendCode
    <3>1. pc' = "idle"
      BY <2>3 DEF SpendCode
    <3> QED  BY <3>1 DEF Holding
  <2>4. CASE SetInfo
    BY <2>4, <1>1 DEF SetInfo
  <2> QED  BY <2>1, <2>2, <2>3, <2>4, <1>5, RecsFrame
<1> QED  BY <1>1, <1>2, <1>3, <1>4, <1>5, <1>6, <1>7, <1>8, <1>9, HoldingFrame

LEMMA SecretsKept ==
  ASSUME Typed, SecretsOK, [Next]_vars
  PROVE  SecretsOK'
  BY KnownKept, HeldKept DEF SecretsOK

LEMMA SecretsInit == ASSUME Init PROVE SecretsOK
  BY DEF Init, SecretsOK, SecretsKnown, Held, Holding, Zero

(* What a step may do to the secret and the counter of a record. *)
CounterMoves(i) ==
  IF recs'[i].secret = recs[i].secret
    THEN \/ recs'[i].counter >= recs[i].counter
         \/ pc = "set" /\ cmd = "secret" /\ again
    ELSE /\ recs'[i].counter = 1
         /\ Written(i) => sec[i] = recs'[i].secret

LEMMA CounterStep ==
  ASSUME Typed, BelowNext, SecretsOK, [Next]_vars, NEW i \in Ids
  PROVE  CounterMoves(i)
<1> USE DEF CounterMoves
<1>a. /\ info \in Rec /\ recs \in [Ids -> Rec]
      /\ \A j \in Ids : recs[j].secret \in Nat /\ recs[j].counter \in Nat
  BY DEF Typed, TypeOK, Rec
<1>1. CASE SpendCode
  <2>1. PICK j \in Ids : recs' = [recs EXCEPT ![j].counter = @ + 1]
    BY <1>1 DEF SpendCode
  <2>2. recs[j] \in Rec
    BY <1>a
  <2>3. CASE i = j
    BY <2>1, <2>2, <2>3, <1>a DEF Rec
  <2>4. CASE i # j
    BY <2>1, <2>4, <1>a
  <2> QED  BY <2>3, <2>4
<1>2. CASE InitRecord
  <2>1. /\ pc = "record" /\ recs' = [recs EXCEPT ![info.id] = info]
        /\ info.counter = 1 /\ recs[info.id] = Zero /\ info.secret # 0
    BY <1>2 DEF InitRecord, Typed, StageOK, BelowNext, Written, SecretsOK,
                SecretsKnown
  <2> QED  BY <2>1, <1>a DEF Zero, Written
<1>3. CASE SetInfo
  <2>1. /\ pc = "set" /\ recs' = [recs EXCEPT ![info.id] = info] /\ info.id \in Ids
        /\ AsListed \/ Renewed
    BY <1>3 DEF SetInfo, Typed, StageOK, SecretsOK, Held, Holding
  <2> QED  BY <2>1, <1>a DEF AsListed, Renewed
<1>4. CASE UNCHANGED recs
  BY <1>4, <1>a
<1> QED  BY <1>1, <1>2, <1>3, <1>4, RecsFrame

(* Under one secret the counter of a server never falls, unless a secret   *)
(* update makes the same secret again in the same second; a new secret     *)
(* starts with the counter 1 and was released before it is listed, or it   *)
(* is the first of its record: whatever is cut or fails in between.        *)
THEOREM CounterKept == Spec => CounterPerSecret
<1> DEFINE I == Typed /\ BelowNext /\ SecretsOK
           Step == \A i \in Ids : CounterMoves(i)
<1>1. Init => I
  BY TypedInit, BelowInit, SecretsInit
<1>2. I /\ [Next]_vars => I'
  BY TypedKept, BelowKept, SecretsKept
<1>3. I /\ [Next]_vars => [Step]_vars
  BY CounterStep
<1>4. Spec => [][Step]_vars
  BY <1>1, <1>2, <1>3, PTL DEF Spec
<1> QED
  BY <1>4 DEF CounterPerSecret, CounterMoves

-----------------------------------------------------------------------------
(* Key pairs.                                                              *)

(* What the two sides know of the pairs of a server: the list, and whoever *)
(* holds its record, claim no pair that has not been made.                 *)
StartBehind == \A i \in Ids : Written(i) => recs[i].start <= keys[i]

InfoBehind ==
  (pc \in Holding \cup {"record"} /\ info.id \in Ids) => info.start <= keys[info.id]

(* A pair that waits to be saved is the last one of the keystore, under    *)
(* its index, and what is in a satpub file was made before it.             *)
PairFresh ==
  /\ pc = "save" => /\ idx = Index(keys[info.id] - 1)
                    /\ \A s \in satpubs : s.id = info.id =>
                         \A n \in Numbers(s.pairs) : n < keys[info.id] - 1
  /\ pc = "release" => idx <= keys[info.id]

(* The entries of a file are of pairs that have been made, each under the  *)
(* index that was answered for it.                                         *)
Indexed(s) == \A e \in Elements(s) : e.index = Index(e.pair)

Made ==
  /\ \A i \in Ids : /\ \A n \in Numbers(wallet[i]) : n < keys[i]
                    /\ Indexed(wallet[i])
  /\ \A s \in satpubs : /\ s.id \in Ids /\ s.pairs \in Seq(Entry)
                        /\ \A n \in Numbers(s.pairs) : n < keys[s.id]
                        /\ Indexed(s.pairs)

(* A satpub file shares no pair with another, nor with one being made.     *)
Apart ==
  \A s \in satpubs :
    /\ Numbers(s.pairs) \cap Numbers(wallet[s.id]) = {}
    /\ \A t \in satpubs : (s.id = t.id /\ s # t) =>
         Numbers(s.pairs) \cap Numbers(t.pairs) = {}

PairsOK == StartBehind /\ InfoBehind /\ PairFresh /\ Made /\ Apart

(* The number of pairs of a keystore never falls.                          *)
LEMMA KeysGrow ==
  ASSUME Typed, [Next]_vars, NEW i \in Ids
  PROVE  keys[i] \in Int /\ keys'[i] \in Int /\ keys'[i] >= keys[i]
<1>a. keys \in [Ids -> Nat \cup {NoKeystore}]
  BY DEF Typed, TypeOK
<1>b. keys'[i] \in Nat \cup {NoKeystore}
  BY KeysTyped
<1>1. CASE keys' = keys  BY <1>1, <1>a DEF NoKeystore
<1>2. CASE keys[info.id] = NoKeystore /\ keys' = [keys EXCEPT ![info.id] = 0]
  BY <1>2, <1>a DEF NoKeystore
<1>3. CASE HasKeystore /\ keys' = [keys EXCEPT ![info.id] = @ + 1]
  BY <1>3, <1>a DEF NoKeystore, HasKeystore
<1> QED
  BY <1>1, <1>2, <1>3, KeysFrame
     DEF GenKeystore, KeystoreFails, GenPair, WrongIndex, PairFails

LEMMA ElementsAppend ==
  ASSUME NEW s \in Seq(Entry), NEW e \in Entry
  PROVE  Elements(Append(s, e)) \subseteq Elements(s) \cup {e}
<1>1. /\ Len(s) \in Nat /\ Len(Append(s, e)) = Len(s) + 1
      /\ Append(s, e)[Len(s) + 1] = e
      /\ \A n \in 1 .. Len(s) : Append(s, e)[n] = s[n]
  OBVIOUS
<1>2. ASSUME NEW n \in 1 .. Len(Append(s, e))
      PROVE  Append(s, e)[n] \in Elements(s) \cup {e}
  <2>1. CASE n \in 1 .. Len(s)  BY <2>1, <1>1 DEF Elements
  <2>2. CASE n = Len(s) + 1  BY <2>2, <1>1
  <2> QED  BY <2>1, <2>2, <1>1
<1> QED  BY <1>2 DEF Elements

LEMMA NumbersAppend ==
  ASSUME NEW s \in Seq(Entry), NEW e \in Entry
  PROVE  /\ Numbers(Append(s, e)) \subseteq Numbers(s) \cup {e.pair}
         /\ Indexed(s) /\ e.index = Index(e.pair) => Indexed(Append(s, e))
  BY ElementsAppend DEF Numbers, Indexed

LEMMA NumbersEmpty == Numbers(<<>>) = {} /\ Indexed(<<>>)
  BY DEF Numbers, Indexed, Elements

LEMMA NumbersNat == ASSUME NEW s \in Seq(Entry) PROVE Numbers(s) \subseteq Nat
<1>1. \A n \in 1 .. Len(s) : s[n] \in Entry
  OBVIOUS
<1> QED  BY <1>1 DEF Elements, Numbers, Entry

(* What SavePair writes. *)
LEMMA SaveWrites ==
  ASSUME Typed, PairFresh, SavePair
  PROVE  \E e \in Entry :
           /\ wallet' = [wallet EXCEPT ![info.id] = Append(@, e)]
           /\ e.pair = keys[info.id] - 1 /\ e.index = Index(e.pair)
           /\ info.id \in Ids /\ keys[info.id] \in Nat
<1> DEFINE e == [index |-> idx, pair |-> keys[info.id] - 1]
<1>1. pc = "save" /\ wallet' = [wallet EXCEPT ![info.id] = Append(@, e)]
  BY DEF SavePair
<1>2. e \in Entry
  BY <1>1, EntryTyped
<1>3. e.index = idx /\ e.pair = keys[info.id] - 1
  OBVIOUS
<1>4. info.id \in Ids /\ keys[info.id] \in Nat /\ idx = Index(keys[info.id] - 1)
  BY <1>1 DEF Typed, StageOK, PairFresh
<1> HIDE DEF e
<1> QED  BY <1>1, <1>2, <1>3, <1>4

LEMMA StartKept ==
  ASSUME Typed, StartBehind, InfoBehind, [Next]_vars
  PROVE  StartBehind'
<1>a. /\ info \in Rec /\ recs \in [Ids -> Rec]
      /\ \A i \in Ids : recs[i] \in Rec /\ recs[i].start \in Nat
  BY DEF Typed, TypeOK, Rec
<1>1. CASE SpendCode
  <2>1. PICK j \in Ids : recs' = [recs EXCEPT ![j].counter = @ + 1]
                         /\ recs[j].counter # 0 /\ keys' = keys
    BY <1>1 DEF SpendCode
  <2>2. recs'[j].start = recs[j].start /\ recs[j] # Zero
    BY <2>1, <1>a DEF Rec, Zero
  <2>3. \A i \in Ids \ {j} : recs'[i] = recs[i]
    BY <2>1, <1>a
  <2> QED  BY <2>1, <2>2, <2>3 DEF StartBehind, Written
<1>2. CASE InitRecord \/ SetInfo
  <2>1. /\ pc \in {"record", "set"} /\ keys' = keys /\ info.id \in Ids
        /\ recs' = [recs EXCEPT ![info.id] = info]
    BY <1>2 DEF InitRecord, SetInfo, Typed, StageOK
  <2>2. info.start <= keys[info.id]
    BY <2>1 DEF InfoBehind, Holding
  <2> QED  BY <2>1, <2>2, <1>a DEF StartBehind, Written
<1>3. CASE UNCHANGED recs
  BY <1>3, <1>a, KeysGrow DEF StartBehind, Written
<1> QED  BY <1>1, <1>2, <1>3, RecsFrame

LEMMA InfoKept ==
  ASSUME Typed, StartBehind, InfoBehind, PairFresh, [Next]_vars
  PROVE  InfoBehind'
<1> USE DEF InfoBehind, Holding
<1>a. /\ info \in Rec /\ \A i \in Ids : recs[i].id \in {0, i}
      /\ info.start \in Nat /\ \A i \in Ids : recs[i].start \in Nat
  BY DEF Typed, TypeOK, Rec
<1>1. CASE Finish
  BY <1>1 DEF Finish
<1>2. CASE DoUpdate
  <2>1. keys' = keys
    BY <1>2 DEF DoUpdate, disk
  <2>2. CASE UNCHANGED <<info, pc>>
    BY <2>1, <2>2
  <2>3. CASE \E i \in Ids : info' = recs[i]
    <3>1. PICK i \in Ids : info' = recs[i]
      BY <2>3
    <3>2. info'.id \in Ids => info'.id = i /\ Written(i)
      BY <3>1, <1>a DEF Ids, Written, Zero
    <3> QED  BY <3>1, <3>2, <2>1 DEF StartBehind
  <2> QED  BY <1>2, <2>2, <2>3 DEF DoUpdate
<1>3. CASE TakeId
  BY <1>3 DEF TakeId
<1>4. CASE GenKeystore
  <2>1. info.id \in Ids /\ info.start = 0
    BY <1>4 DEF GenKeystore, Typed, StageOK
  <2>2. info'.id = info.id /\ info'.start = 0
    BY <1>4, <1>a, <2>1 DEF GenKeystore, Rec
  <2>3. keys'[info.id] = 0
    BY <1>4, <2>1 DEF GenKeystore, Typed, TypeOK
  <2> QED  BY <2>1, <2>2, <2>3
<1>5. CASE InitRecord
  BY <1>5 DEF InitRecord
<1>6. CASE ReleaseSatpub
  <2>1. /\ info'.id = info.id /\ info'.start = info.start + MakeMax
        /\ keys' = keys /\ pc = "release"
    BY <1>6, <1>a DEF ReleaseSatpub, Rec
  <2> QED  BY <2>1 DEF PairFresh, Typed, StageOK
<1>7. CASE NewSecret
  <2>1. info'.id = info.id /\ info'.start = info.start /\ pc = "newsec" /\ keys' = keys
    BY <1>7, <1>a DEF NewSecret, Rec, disk
  <2> QED  BY <2>1
<1>8. CASE UNCHANGED info /\ (pc' \in Holding => pc \in Holding)
           /\ (pc' = "record" => pc = "record")
  BY <1>8, <1>a, KeysGrow
<1>9. CASE ReleaseSecret
  BY <1>9, <1>8 DEF ReleaseSecret, Goto, proc
<1> QED  BY <1>1, <1>2, <1>3, <1>4, <1>5, <1>6, <1>7, <1>8, <1>9, HoldingFrame

LEMMA FreshFrame ==
  ASSUME [Next]_vars, pc' \in {"save", "release"}
  PROVE  GenPair \/ SavePair \/ SaveFails \/ UNCHANGED <<disk, pc, info, idx>>
  BY DEF Next, Work, InitServer, MakeSeed, Secret, vars, proc, disk, Finish,
         Goto, DoInit, DoUpdate, SpendCode, CreateList, WriteInfo0, TakeId,
         NoInfo0, GenKeystore, KeystoreFails, InitRecord, WrongIndex, PairFails,
         ReleaseSatpub, ReleaseFails, NewSecret, ReleaseSecret, SecretFails,
         SetInfo, SetFails, WriteFails, Crash

LEMMA FreshKept ==
  ASSUME Typed, PairFresh, Made, [Next]_vars
  PROVE  PairFresh'
<1>a. keys \in [Ids -> Nat \cup {NoKeystore}] /\ idx \in Nat
  BY RegistryAssumption DEF Typed, TypeOK
<1>1. CASE GenPair
  <2>1. /\ UNCHANGED <<satpubs, info, idx>> /\ pc' = "save" /\ info.id \in Ids
        /\ Index(keys[info.id]) = idx /\ keys' = [keys EXCEPT ![info.id] = @ + 1]
        /\ keys[info.id] # NoKeystore
    BY <1>1 DEF GenPair, HasKeystore, Goto, proc
  <2>2. keys[info.id] \in Nat /\ keys'[info.id] - 1 = keys[info.id]
    BY <2>1, <1>a
  <2>3. \A s \in satpubs : s.id = info.id =>
          \A n \in Numbers(s.pairs) : n < keys[info.id]
    BY <2>1 DEF Made
  <2> QED  BY <2>1, <2>2, <2>3 DEF PairFresh, Index
<1>2. CASE SavePair \/ SaveFails
  <2>1. /\ UNCHANGED <<keys, info>> /\ NextPair /\ pc = "save" /\ info.id \in Ids
        /\ keys[info.id] \in Nat \ {0} /\ idx = Index(keys[info.id] - 1)
    BY <1>2 DEF SavePair, SaveFails, NextPair, disk, Typed, StageOK, PairFresh
  <2>2. idx <= keys[info.id] - 1
    BY <2>1, Remainder, RegistryAssumption DEF Index
  <2>3. idx' \in Nat /\ idx' <= idx + 1 /\ pc' # "save"
    BY <2>1, NextPairStage, RegistryAssumption
  <2> QED  BY <2>1, <2>2, <2>3, <1>a DEF PairFresh
<1>3. CASE UNCHANGED <<disk, pc, info, idx>>
  BY <1>3 DEF PairFresh, disk, Index
<1>4. CASE pc' \notin {"save", "release"}
  BY <1>4 DEF PairFresh
<1> QED  BY <1>1, <1>2, <1>3, <1>4, FreshFrame

LEMMA MadeKept ==
  ASSUME Typed, PairFresh, Made, [Next]_vars
  PROVE  Made'
<1>a. wallet \in [Ids -> Seq(Entry)] /\ keys \in [Ids -> Nat \cup {NoKeystore}]
  BY DEF Typed, TypeOK
<1> DEFINE Below(s, i) == (\A n \in Numbers(s) : n < keys'[i]) /\ Indexed(s)
<1>b. \A i \in Ids : Below(wallet[i], i)
  BY <1>a, KeysGrow, NumbersNat DEF Made
<1>c. \A s \in satpubs : Below(s.pairs, s.id)
  <2>1. SUFFICES ASSUME NEW s \in satpubs, NEW n \in Numbers(s.pairs)
                 PROVE  n < keys'[s.id]
    BY DEF Made
  <2>2. s.id \in Ids /\ n \in Nat /\ n < keys[s.id]
    BY NumbersNat DEF Made
  <2> QED  BY <2>2, KeysGrow
<1>1. \A i \in Ids : Below(wallet'[i], i)
  <2>1. CASE SavePair
    <3>1. PICK e \in Entry :
            /\ wallet' = [wallet EXCEPT ![info.id] = Append(@, e)]
            /\ e.pair = keys[info.id] - 1 /\ e.index = Index(e.pair)
            /\ info.id \in Ids /\ keys[info.id] \in Nat
      BY <2>1, SaveWrites
    <3>2. keys' = keys
      BY <2>1 DEF SavePair
    <3>3. /\ Numbers(wallet'[info.id]) \subseteq Numbers(wallet[info.id]) \cup {e.pair}
          /\ Indexed(wallet'[info.id])
      BY <3>1, <1>a, <1>b, NumbersAppend
    <3>4. Below(wallet'[info.id], info.id)
      BY <3>1, <3>2, <3>3, <1>b
    <3> QED  BY <3>1, <3>4, <1>a, <1>b
  <2>2. CASE ReleaseSatpub
    BY <2>2, <1>a, <1>b, NumbersEmpty DEF ReleaseSatpub
  <2>3. CASE wallet' = wallet
    BY <2>3, <1>b
  <2> QED  BY <2>1, <2>2, <2>3, WalletFrame
<1>2. \A s \in satpubs' : s.id \in Ids /\ s.pairs \in Seq(Entry) /\ Below(s.pairs, s.id)
  <2>1. CASE ReleaseSatpub
    <3>1. info.id \in Ids
      BY <2>1 DEF ReleaseSatpub, Typed, StageOK
    <3> DEFINE new == [id |-> info.id, start |-> info.start, pairs |-> wallet[info.id]]
    <3>2. satpubs' = satpubs \cup {new}
      BY <2>1 DEF ReleaseSatpub
    <3>3. new.id = info.id /\ new.pairs = wallet[info.id]
      OBVIOUS
    <3> HIDE DEF new
    <3>4. new.id \in Ids /\ new.pairs \in Seq(Entry) /\ Below(new.pairs, new.id)
      BY <3>1, <3>3, <1>a, <1>b
    <3> QED  BY <3>2, <3>4, <1>c DEF Made
  <2>2. CASE satpubs' = satpubs
    BY <2>2, <1>c DEF Made
  <2> QED  BY <2>1, <2>2, SatpubsFrame
<1> QED  BY <1>1, <1>2 DEF Made, Indexed, Index

LEMMA ApartKept ==
  ASSUME Typed, PairFresh, Made, Apart, [Next]_vars
  PROVE  Apart'
<1>a. wallet \in [Ids -> Seq(Entry)] /\ \A s \in satpubs : s.id \in Ids
  BY DEF Typed, TypeOK, Made
<1>1. CASE SavePair
  <2>1. PICK e \in Entry :
          /\ wallet' = [wallet EXCEPT ![info.id] = Append(@, e)]
          /\ e.pair = keys[info.id] - 1 /\ info.id \in Ids /\ keys[info.id] \in Nat
    BY <1>1, SaveWrites
  <2>2. satpubs' = satpubs /\ pc = "save"
    BY <1>1 DEF SavePair
  <2>3. Numbers(wallet'[info.id]) \subseteq Numbers(wallet[info.id]) \cup {e.pair}
    BY <2>1, <1>a, NumbersAppend
  <2>4. ASSUME NEW s \in satpubs, s.id = info.id
        PROVE  e.pair \notin Numbers(s.pairs)
    <3>1. e.pair \in Numbers(s.pairs) => e.pair < e.pair
      BY <2>1, <2>2, <2>4 DEF PairFresh
    <3> QED  BY <3>1, <2>1
  <2>5. \A s \in satpubs : s.id # info.id => wallet'[s.id] = wallet[s.id]
    BY <2>1, <1>a
  <2> QED  BY <2>2, <2>3, <2>4, <2>5 DEF Apart
<1>2. CASE ReleaseSatpub
  <2> DEFINE new == [id |-> info.id, start |-> info.start, pairs |-> wallet[info.id]]
  <2>1. /\ satpubs' = satpubs \cup {new}
        /\ wallet' = [wallet EXCEPT ![info.id] = <<>>] /\ info.id \in Ids
    BY <1>2 DEF ReleaseSatpub, Typed, StageOK
  <2>2. new.id = info.id /\ new.pairs = wallet[info.id]
    OBVIOUS
  <2>3. \A s \in satpubs : s.id = info.id =>
          Numbers(s.pairs) \cap Numbers(new.pairs) = {}
    BY <2>2 DEF Apart
  <2>4. Numbers(wallet'[info.id]) = {}
    BY <2>1, <1>a, NumbersEmpty
  <2>5. \A s \in satpubs : s.id # info.id => wallet'[s.id] = wallet[s.id]
    BY <2>1, <1>a
  <2> HIDE DEF new
  <2>6. ASSUME NEW s \in satpubs'
        PROVE  Numbers(s.pairs) \cap Numbers(wallet'[s.id]) = {}
    BY <2>1, <2>2, <2>4, <2>5 DEF Apart
  <2>7. ASSUME NEW s \in satpubs', NEW t \in satpubs', s.id = t.id, s # t
        PROVE  Numbers(s.pairs) \cap Numbers(t.pairs) = {}
    BY <2>1, <2>2, <2>3, <2>7 DEF Apart
  <2> QED  BY <2>6, <2>7 DEF Apart
<1>3. CASE UNCHANGED <<wallet, satpubs>>
  BY <1>3 DEF Apart
<1> QED  BY <1>1, <1>2, <1>3, WalletFrame, SatpubsFrame

LEMMA PairsKept ==
  ASSUME Typed, PairsOK, [Next]_vars
  PROVE  PairsOK'
  BY StartKept, InfoKept, FreshKept, MadeKept, ApartKept DEF PairsOK

LEMMA PairsInit == ASSUME Init PROVE PairsOK
  BY NumbersEmpty DEF Init, PairsOK, StartBehind, InfoBehind, Holding, PairFresh,
     Made, Apart, Written

(* No key pair is released twice, and server_start claims only pairs that  *)
(* have been made.                                                         *)
THEOREM PairsOnce == Spec => []PairsReleasedOnce
<1> DEFINE I == Typed /\ PairsOK
<1>1. Init => I
  BY TypedInit, PairsInit
<1>2. I /\ [Next]_vars => I'
  BY TypedKept, PairsKept
<1>3. I => PairsReleasedOnce
  <2>1. ASSUME Made, NEW s \in satpubs, NEW e \in Elements(s.pairs)
        PROVE  e.pair < keys[s.id] /\ e.index = Index(e.pair)
    BY <2>1 DEF Made, Indexed, Numbers
  <2> QED  BY <2>1 DEF PairsOK, StartBehind, Apart, PairsReleasedOnce
<1> QED
  BY <1>1, <1>2, <1>3, PTL DEF Spec

-----------------------------------------------------------------------------
(* Nothing has failed.                                                     *)

Calm == refusals = 0 /\ faults = 0 /\ crashes = 0

Counting == refusals \in Nat /\ faults \in Nat /\ crashes \in Nat

Agrees(i) == recs[i].start = keys[i] /\ recs[i].secret = sec[i]

(* While nothing fails every record agrees, but the one of the command     *)
(* under way; how far that one has come is what its stage says.            *)
Others == \A i \in Ids : Written(i) /\ (pc \in Holding => i # info.id) => Agrees(i)

Seeding == {"pair", "save", "release"}

Own ==
  info.id \in Ids =>
    /\ pc = "record" => keys[info.id] = 0
    /\ pc = "pair" => /\ keys[info.id] \in Nat /\ idx = Index(keys[info.id])
                      /\ Fits => keys[info.id] = idx
    /\ pc = "save" => /\ idx = Index(keys[info.id] - 1)
                      /\ Fits => keys[info.id] = idx + 1
    /\ pc = "release" => keys[info.id] = idx
    /\ pc \in {"newsec", "sec", "set"} => keys[info.id] = info.start
    /\ pc \in Seeding /\ cmd # "init" => info.secret = sec[info.id]
    /\ pc \in Seeding /\ Fits /\ idx > info.start => wallet[info.id] # <<>>
    /\ pc = "set" => info.secret = sec[info.id]

CalmOK == Counting /\ BelowNext /\ (Calm => Others /\ Own)

(* What counts as a failure.                                               *)
LEMMA CalmFrame ==
  ASSUME [Next]_vars
  PROVE  UNCHANGED <<refusals, faults, crashes>> \/ Refusal \/ Fault \/ Crash
  BY DEF Next, Work, InitServer, MakeSeed, Secret, vars, bounds,
         DoInit, DoUpdate, SpendCode, CreateList, WriteInfo0, TakeId, NoInfo0,
         GenKeystore, KeystoreFails, InitRecord, GenPair, WrongIndex, PairFails,
         SavePair, SaveFails, ReleaseSatpub, ReleaseFails, NewSecret,
         ReleaseSecret, SecretFails, SetInfo, SetFails, WriteFails

LEMMA CountingKept ==
  ASSUME Counting, [Next]_vars
  PROVE  Counting' /\ (Calm' => Calm /\ ~ Refusal /\ ~ Fault /\ ~ Crash)
<1>1. /\ Refusal => refusals' = refusals + 1 /\ UNCHANGED <<faults, crashes>>
      /\ Fault => faults' = faults + 1 /\ UNCHANGED <<refusals, crashes>>
      /\ Crash => crashes' = crashes + 1 /\ UNCHANGED <<refusals, faults>>
  BY DEF Refusal, Fault, Crash
<1> QED  BY <1>1, CalmFrame DEF Counting, Calm

(* The steps while nothing fails. Outside of a command all records agree.  *)
LEMMA CalmOutside ==
  ASSUME Typed, BelowNext, Others, Own,
         DoInit \/ DoUpdate \/ SpendCode \/ CreateList \/ WriteInfo0 \/ NoInfo0 \/ TakeId
  PROVE  Others' /\ Own'
<1>a. /\ info \in Rec /\ recs \in [Ids -> Rec] /\ \A i \in Ids : recs[i].id \in {0, i}
      /\ pc = "keystore" => info.id \in Ids
      /\ 0 \notin Ids
  BY DEF Typed, TypeOK, StageOK, Ids
<1> USE DEF Others, Own, Agrees, Written, Holding, Seeding
<1>1. CASE DoInit
  BY <1>1 DEF DoInit, disk
<1>2. CASE DoUpdate
  <2>1. UNCHANGED <<recs, keys, sec, wallet>> /\ pc = "idle"
    BY <1>2 DEF DoUpdate, disk
  <2>2. CASE UNCHANGED <<cmd, info, idx, pc>>
    BY <2>1, <2>2
  <2>3. CASE \E i \in Ids, kind \in {"satpub", "secret"} :
               /\ cmd' = kind /\ info' = recs[i] /\ idx' = recs[i].start % U16
               /\ pc' = IF kind = "satpub" THEN "pair" ELSE "newsec"
    <3>1. PICK i \in Ids : /\ cmd' # "init" /\ info' = recs[i]
                           /\ idx' = recs[i].start % U16 /\ pc' \in {"pair", "newsec"}
      BY <2>3
    <3>2. /\ info'.id \in Ids => info'.id = i /\ recs[i] # Zero
          /\ recs[i].start \in Nat /\ recs[i].start < U16
      <4>1. info'.id \in Ids => info'.id = i /\ recs[i] # Zero
        BY <3>1, <1>a DEF Zero
      <4>2. recs[i].start \in Nat /\ recs[i].start < U16
        BY DEF Rec, Typed, TypeOK
      <4> QED  BY <4>1, <4>2
    <3>3. Others'
      BY <2>1, <3>1
    <3>4. info'.id \in Ids => keys[i] = info'.start /\ info'.secret = sec[i]
      BY <2>1, <3>1, <3>2
    <3>5. idx' = info'.start /\ idx' = Index(info'.start)
      BY <3>1, <3>2, RemainderOfSmall, RegistryAssumption DEF Index
    <3> QED  BY <2>1, <3>1, <3>2, <3>3, <3>4, <3>5 DEF Index
  <2> QED  BY <1>2, <2>2, <2>3 DEF DoUpdate
<1>3. CASE SpendCode
  <2>1. PICK j \in Ids : recs' = [recs EXCEPT ![j].counter = @ + 1]
                         /\ recs[j].counter # 0
    BY <1>3 DEF SpendCode
  <2>2. UNCHANGED <<keys, sec, wallet, pc, cmd, info, idx>> /\ pc = "idle"
    BY <1>3 DEF SpendCode, proc
  <2>3. \A i \in Ids : /\ recs'[i].start = recs[i].start /\ recs'[i].secret = recs[i].secret
                       /\ recs'[i] # Zero => recs[i] # Zero
    BY <2>1, <1>a DEF Rec, Zero
  <2> QED  BY <2>2, <2>3
<1>4. CASE CreateList \/ WriteInfo0
  <2>1. /\ UNCHANGED <<recs, keys, sec>> /\ pc \in {"list", "info0"}
        /\ pc' \in {"list", "info0"}
    BY <1>4 DEF CreateList, WriteInfo0, Goto
  <2> QED  BY <2>1
<1>5. CASE NoInfo0
  BY <1>5 DEF NoInfo0, Finish, disk
<1>6. CASE TakeId
  BY <1>6 DEF TakeId, disk
<1> QED  BY <1>1, <1>2, <1>3, <1>4, <1>5, <1>6

LEMMA CalmInit ==
  ASSUME Typed, BelowNext, Others, Own,
         GenKeystore \/ InitRecord \/ (Finish /\ UNCHANGED disk /\ (pc \in Holding => info.id \notin Ids))
  PROVE  Others' /\ Own'
<1>a. /\ info \in Rec /\ recs \in [Ids -> Rec] /\ keys \in [Ids -> Nat \cup {NoKeystore}]
      /\ pc \in {"keystore", "record"} => info.id \in Ids /\ info.start = 0
  BY DEF Typed, TypeOK, StageOK
<1> USE DEF Others, Own, Agrees, Written, Holding, Seeding
<1>1. CASE GenKeystore
  <2>1. /\ info.id \in Ids /\ recs[info.id] = Zero /\ keys' = [keys EXCEPT ![info.id] = 0]
        /\ info'.id = info.id /\ UNCHANGED <<recs, sec>> /\ pc = "keystore" /\ pc' = "record"
    BY <1>1, <1>a DEF GenKeystore, BelowNext, Rec
  <2> QED  BY <2>1, <1>a
<1>2. CASE InitRecord
  <2>1. /\ info.id \in Ids /\ recs' = [recs EXCEPT ![info.id] = info] /\ idx' = 0
        /\ info.start = 0 /\ cmd = "init" /\ pc' = "pair" /\ pc = "record"
        /\ UNCHANGED <<keys, sec, wallet, info, cmd>>
    BY <1>2, <1>a DEF InitRecord, BelowNext
  <2>2. 0 % U16 = 0
    BY RemainderOfSmall, RegistryAssumption
  <2> QED  BY <2>1, <2>2, <1>a DEF Index
<1>3. CASE Finish /\ UNCHANGED disk /\ (pc \in Holding => info.id \notin Ids)
  BY <1>3 DEF Finish, Zero, disk, Ids
<1> QED  BY <1>1, <1>2, <1>3

LEMMA AppendNotEmpty ==
  ASSUME NEW s \in Seq(Entry), NEW e \in Entry
  PROVE  Append(s, e) # <<>>
<1>1. Len(s) \in Nat /\ Len(Append(s, e)) = Len(s) + 1
  OBVIOUS
<1>2. Len(<<>>) = 0
  OBVIOUS
<1> QED  BY <1>1, <1>2

LEMMA CalmSeed ==
  ASSUME Typed, BelowNext, Others, Own, ~ Fault,
         GenPair \/ SavePair \/ SaveFails \/ ReleaseSatpub
  PROVE  Others' /\ Own'
<1>a. /\ info \in Rec /\ keys \in [Ids -> Nat \cup {NoKeystore}]
      /\ wallet \in [Ids -> Seq(Entry)]
      /\ idx \in Nat /\ info.start \in Nat /\ info.start < U16 /\ MakeMax \in Nat
      /\ U16 \in Nat /\ U16 > 0
  <2>1. /\ info \in Rec /\ keys \in [Ids -> Nat \cup {NoKeystore}]
        /\ wallet \in [Ids -> Seq(Entry)] /\ idx \in 0 .. U16 - 1
    BY DEF Typed, TypeOK
  <2>2. info.start < U16
    BY DEF Typed, StageOK
  <2> QED  BY <2>1, <2>2, RegistryAssumption DEF Rec
<1>b. /\ pc \in {"save", "release"} => info.id \in Ids
      /\ pc = "release" => idx = info.start + MakeMax
      /\ pc = "save" => keys[info.id] \in Nat \ {0}
      /\ pc = "save" /\ Fits => idx >= info.start /\ idx < info.start + MakeMax
  BY DEF Typed, StageOK
<1> USE DEF Others, Own, Agrees, Written, Holding, Seeding
<1>1. CASE GenPair
  <2>1. /\ info.id \in Ids /\ keys' = [keys EXCEPT ![info.id] = @ + 1]
        /\ Index(keys[info.id]) = idx /\ keys[info.id] \in Nat
        /\ UNCHANGED <<recs, sec, wallet, info, idx, cmd>> /\ pc = "pair" /\ pc' = "save"
    BY <1>1, <1>a DEF GenPair, HasKeystore, Goto, proc
  <2>2. keys'[info.id] = keys[info.id] + 1 /\ keys'[info.id] - 1 = keys[info.id]
    BY <2>1, <1>a
  <2> QED  BY <2>1, <2>2, <1>a DEF Index, Fits
<1>2. CASE SavePair \/ SaveFails
  <2>1. /\ info.id \in Ids /\ UNCHANGED <<recs, sec, keys, info, cmd>>
        /\ pc = "save" /\ NextPair /\ keys[info.id] \in Nat \ {0}
        /\ idx = Index(keys[info.id] - 1)
    BY <1>2, <1>b DEF SavePair, SaveFails, NextPair, disk
  <2>2. /\ pc' \in {"pair", "release"}
        /\ pc' = "release" => idx' = info.start + MakeMax
        /\ Fits => idx' = idx + 1
        /\ idx' \in 0 .. U16 - 1
    BY <2>1, NextPairStage
  <2>3. idx' = Index(keys[info.id])
    <3>1. idx' = (idx + 1) % U16
      BY <2>1 DEF NextPair
    <3>2. keys[info.id] - 1 \in Nat /\ (keys[info.id] - 1) + 1 = keys[info.id]
      BY <2>1
    <3> QED  BY <1>a, <2>1, <3>1, <3>2, RemainderOfNext DEF Index
  <2>4. pc' = "release" => Fits
    BY <1>a, <2>2 DEF Fits
  <2>5. Fits => wallet'[info.id] # <<>>
    <3>1. Fits => InFile
      BY <1>a, <1>b, <2>1, StartIs DEF InFile
    <3>2. Fits => SavePair
      BY <1>2, <3>1 DEF SaveFails
    <3>3. SavePair => \E e \in Entry : wallet' = [wallet EXCEPT ![info.id] = Append(@, e)]
      BY <2>1, EntryTyped DEF SavePair
    <3>4. \A e \in Entry : Append(wallet[info.id], e) # <<>>
      BY <1>a, <2>1, AppendNotEmpty
    <3> QED  BY <1>a, <2>1, <3>2, <3>3, <3>4
  <2>6. Fits' = Fits
    BY <2>1 DEF Fits
  <2>7. Others'
    BY <2>1, <2>2
  <2>8. Own'
    BY <2>1, <2>2, <2>3, <2>4, <2>5, <2>6, <1>a DEF Index
  <2> QED  BY <2>7, <2>8
<1>3. CASE ReleaseSatpub
  <2>1. /\ info.id \in Ids /\ info'.id = info.id /\ info'.secret = info.secret
        /\ info'.start = info.start + MakeMax
        /\ UNCHANGED <<recs, sec, keys, cmd, idx>> /\ pc = "release"
        /\ pc' = IF cmd = "init" THEN "sec" ELSE "set"
    BY <1>3, <1>a, <1>b DEF ReleaseSatpub, Rec
  <2> QED  BY <2>1, <1>a, <1>b
<1> QED  BY <1>1, <1>2, <1>3

LEMMA CalmEnd ==
  ASSUME Typed, BelowNext, Others, Own, NewSecret \/ ReleaseSecret \/ SetInfo
  PROVE  Others' /\ Own'
<1>a. /\ info \in Rec /\ recs \in [Ids -> Rec] /\ sec \in [Ids -> Nat]
      /\ info.id # 0 => info.id \in Ids
      /\ pc = "set" => info.id \in Ids
      /\ 0 \notin Ids
  BY DEF Typed, TypeOK, StageOK, Rec, Ids
<1> USE DEF Others, Own, Agrees, Written, Holding, Seeding
<1>1. CASE NewSecret
  <2>1. /\ info'.id = info.id /\ info'.start = info.start /\ pc = "newsec" /\ pc' = "sec"
        /\ UNCHANGED <<recs, sec, keys>>
    BY <1>1, <1>a DEF NewSecret, Rec, disk
  <2> QED  BY <2>1
<1>2. CASE ReleaseSecret
  <2>1. /\ info.id \in Ids /\ sec' = [sec EXCEPT ![info.id] = info.secret] /\ pc = "sec"
        /\ pc' = "set" /\ UNCHANGED <<recs, keys, info>>
    BY <1>2, <1>a DEF ReleaseSecret, Goto, proc
  <2> QED  BY <2>1, <1>a
<1>3. CASE SetInfo
  <2>1. /\ info.id \in Ids /\ recs' = [recs EXCEPT ![info.id] = info] /\ pc = "set"
        /\ pc' = "idle" /\ info'.id = 0 /\ UNCHANGED <<keys, sec>>
    BY <1>3, <1>a DEF SetInfo, Finish, Zero
  <2> QED  BY <2>1, <1>a
<1> QED  BY <1>1, <1>2, <1>3

(* No command stops half-way: the index is the one expected, there are     *)
(* pairs to release, and the keystore is there.                            *)
LEMMA CalmStops ==
  ASSUME Typed, Own, WrongIndex \/ PairFails \/ ReleaseFails \/ SecretFails \/ KeystoreFails,
         ~ Refusal, ~ Fault
  PROVE  Finish /\ UNCHANGED disk /\ (pc \in Holding => info.id \notin Ids)
<1>a. /\ keys \in [Ids -> Nat \cup {NoKeystore}] /\ idx \in Nat /\ info.start \in Nat
      /\ pc = "release" => info.id \in Ids /\ Fits /\ idx > info.start
  <2>1. /\ keys \in [Ids -> Nat \cup {NoKeystore}] /\ MakeMax \in Nat \ {0}
        /\ idx \in 0 .. U16 - 1 /\ info.start \in Nat /\ U16 \in Nat
    BY RegistryAssumption DEF Typed, TypeOK, Rec
  <2>2. pc = "release" => info.id \in Ids /\ idx = info.start + MakeMax
    BY DEF Typed, StageOK
  <2> QED  BY <2>1, <2>2 DEF Fits
<1>1. CASE WrongIndex
  BY <1>1 DEF WrongIndex, HasKeystore, Own
<1>2. CASE PairFails
  <2>1. ~ HasKeystore /\ pc = "pair" /\ Finish /\ UNCHANGED disk
    BY <1>2 DEF PairFails, disk
  <2>2. info.id \notin Ids
    BY <2>1, <1>a DEF HasKeystore, Own, NoKeystore
  <2> QED  BY <2>1, <2>2
<1>3. CASE ReleaseFails
  BY <1>3, <1>a DEF ReleaseFails, Own, Seeding
<1>4. CASE SecretFails
  BY <1>4 DEF SecretFails, Ids
<1>5. CASE KeystoreFails
  BY <1>5 DEF KeystoreFails, Holding, disk
<1> QED  BY <1>1, <1>2, <1>3, <1>4, <1>5

LEMMA CalmKept ==
  ASSUME Typed, CalmOK, [Next]_vars
  PROVE  CalmOK'
<1>1. Counting' /\ BelowNext' /\ (Calm' => Calm /\ ~ Refusal /\ ~ Fault /\ ~ Crash)
  BY CountingKept, BelowKept DEF CalmOK
<1>2. ASSUME Calm' PROVE Others' /\ Own'
  <2>1. BelowNext /\ Others /\ Own /\ ~ Refusal /\ ~ Fault /\ ~ Crash
    BY <1>1, <1>2 DEF CalmOK
  <2>2. CASE UNCHANGED vars
    BY <2>1, <2>2 DEF Others, Own, Agrees, Written, Index, Fits, vars, disk, proc
  <2>3. CASE DoInit \/ DoUpdate \/ SpendCode \/ CreateList \/ WriteInfo0 \/ NoInfo0 \/ TakeId
    BY <2>1, <2>3, CalmOutside
  <2>4. CASE GenKeystore \/ InitRecord
    BY <2>1, <2>4, CalmInit
  <2>5. CASE GenPair \/ SavePair \/ SaveFails \/ ReleaseSatpub
    BY <2>1, <2>5, CalmSeed
  <2>6. CASE NewSecret \/ ReleaseSecret \/ SetInfo
    BY <2>1, <2>6, CalmEnd
  <2>7. CASE WrongIndex \/ PairFails \/ ReleaseFails \/ SecretFails \/ KeystoreFails
    BY <2>1, <2>7, CalmStops, CalmInit
  <2>8. CASE SetFails \/ WriteFails
    BY <2>1, <2>8 DEF SetFails, WriteFails
  <2> QED
    BY <2>1, <2>2, <2>3, <2>4, <2>5, <2>6, <2>7, <2>8
       DEF Next, Work, InitServer, MakeSeed, Secret
<1> QED  BY <1>1, <1>2 DEF CalmOK

LEMMA CalmInitial == ASSUME Init PROVE CalmOK
  BY BelowInit
     DEF Init, CalmOK, Counting, Others, Own, Written, Holding, Seeding, Zero, Ids

(* As long as nothing has failed, between two commands the list agrees     *)
(* with the SpaceChain side and with the ground.                           *)
THEOREM StaysInStep == Spec => []InStep
<1> DEFINE I == Typed /\ CalmOK
<1>1. Init => I
  BY TypedInit, CalmInitial
<1>2. I /\ [Next]_vars => I'
  BY TypedKept, CalmKept
<1>3. I => InStep
  BY DEF CalmOK, Calm, Others, Agrees, Holding, InStep
<1> QED
  BY <1>1, <1>2, <1>3, PTL DEF Spec
====
