-------------------------- MODULE TxMission_proofs --------------------------
(***************************************************************************)
(* Proofs about TxMission, for every set of files, servers and contents,   *)
(* every window and any number of uploads, crashes and failing calls.      *)
(*                                                                         *)
(* The invariants about counters follow from IInv: what the process holds  *)
(* in memory about the accepted code (AcceptedOK) stays true of the disk   *)
(* until the counter is saved, because nothing else writes the counter.    *)
(***************************************************************************)
EXTENDS TxMission, TLAPS

(* The stages between the check of the code and the end of the file. *)
Signing == {"parse", "loop", "sign", "write", "rec", "len", "num", "save"}

(* While a file with an accepted code is signed, its server's counter is   *)
(* still the one the code was compared with.                               *)
AcceptedOK ==
  (pc \in Signing /\ accepted) =>
    /\ CurServer \in Servers
    /\ InWindow
    /\ ctr = CurHotp + 1

(* Only an accepted code signs, and only one leads to the save. *)
SignedOK ==
  /\ (pc \in {"write", "rec"} /\ val = "signed") => accepted
  /\ pc \in {"sign", "save"} => accepted

(* A signature in a result file was made in a window that the counter can  *)
(* only have moved past.                                                   *)
ResSignedOK ==
  \A f \in Files : Signed(res[f]) =>
    /\ content[f].server \in Servers
    /\ content[f].hotp < counter[content[f].server] + Window

(* If the code of a signed result is refused now, it has been spent; so it *)
(* has when the round ends well.                                           *)
RefusedOK ==
  (/\ \/ pc \in Signing /\ ~ accepted
      \/ pc = "move" /\ cur \notin failed
   /\ Signed(res[cur]))
    => CurHotp < counter[CurServer]

DlSignedOK ==
  \A f \in Files : (Signed(dl[f]) /\ f \notin failed) =>
    /\ content[f].server \in Servers
    /\ content[f].hotp < counter[content[f].server]

IInv ==
  /\ TypeOK
  /\ SpentBelowCounter
  /\ AcceptedOK
  /\ SignedOK
  /\ ResSignedOK
  /\ RefusedOK
  /\ DlSignedOK

-----------------------------------------------------------------------------
(* Type correctness.                                                       *)

LEMMA ResTypes ==
  /\ NoRes \in ResFile /\ NoRes.recs = << >>
  /\ EmptyRes \in ResFile /\ EmptyRes.recs = << >>
  /\ EmptyRes.there /\ EmptyRes.head = 3 /\ EmptyRes.len = 0 /\ EmptyRes.num = 0
<1>1. << >> \in Seq(Record)
  OBVIOUS
<1>2. NoRes \in ResFile /\ NoRes.recs = << >> /\ NoRes.head = 3
      /\ NoRes.len = 0 /\ NoRes.num = 0
  BY <1>1 DEF NoRes, ResFile
<1>3. EmptyRes = [NoRes EXCEPT !.there = TRUE]
  BY DEF EmptyRes
<1>4. EmptyRes \in ResFile
  BY <1>2, <1>3 DEF ResFile
<1>5. /\ EmptyRes.recs = << >> /\ EmptyRes.there
      /\ EmptyRes.head = 3 /\ EmptyRes.len = 0 /\ EmptyRes.num = 0
  BY <1>2, <1>3 DEF ResFile
<1> QED
  BY <1>2, <1>4, <1>5

(* Bytes read in the place of a field change nothing else.                 *)
LEMMA ShiftedType ==
  ASSUME NEW r \in ResFile, NEW t \in Shifted(r)
  PROVE  /\ t \in ResFile /\ t.recs = r.recs /\ t.head = r.head
         /\ t.there = r.there /\ t.whole = r.whole
         /\ HasLen(r) => t.len = r.len
         /\ HasNum(r) => t.num = r.num
<1>1. Misread \subseteq Nat
  BY ConstantsAssumption DEF ConstantsAssumption
<1>2. PICK l \in LenField(r), n \in NumField(r) :
        t = [r EXCEPT !.len = l, !.num = n]
  BY DEF Shifted
<1>3. l \in Nat /\ n \in Nat
  BY <1>1, <1>2 DEF ResFile, LenField, NumField
<1>4. /\ HasLen(r) => l = r.len
      /\ HasNum(r) => n = r.num
  BY <1>2 DEF LenField, NumField
<1> QED
  BY <1>2, <1>3, <1>4 DEF ResFile

(* What a write leaves that stops half way.                                *)
LEMMA TornType ==
  ASSUME NEW r \in ResFile, NEW t \in Torn(r)
  PROVE  /\ t \in ResFile
         /\ t.recs = r.recs \/ t.recs = << >>
         /\ \/ /\ t.recs = r.recs /\ t.head = r.head
               /\ HasLen(r) => t.len = r.len
               /\ HasNum(r) => t.num = r.num
            \/ ~ HasNum(t) /\ t.len = 0
<1>1. CASE r.there
  <2>1. [r EXCEPT !.whole = FALSE] \in ResFile
    BY DEF ResFile
  <2>2. t \in Shifted([r EXCEPT !.whole = FALSE])
    BY <1>1 DEF Torn
  <2>3. /\ [r EXCEPT !.whole = FALSE].recs = r.recs
        /\ [r EXCEPT !.whole = FALSE].head = r.head
        /\ [r EXCEPT !.whole = FALSE].len = r.len
        /\ [r EXCEPT !.whole = FALSE].num = r.num
    BY DEF ResFile
  <2> QED
    BY <2>1, <2>2, <2>3, ShiftedType DEF HasLen, HasNum
<1>2. CASE ~ r.there
  <2>1. PICK h \in 0 .. 2 : t = [EmptyRes EXCEPT !.head = h, !.whole = FALSE]
    BY <1>2 DEF Torn
  <2>2. t = [there |-> TRUE, head |-> h, whole |-> FALSE, recs |-> << >>,
             len |-> 0, num |-> 0]
    BY <2>1 DEF EmptyRes, NoRes
  <2>3. << >> \in Seq(Record)
    OBVIOUS
  <2>4. t \in ResFile /\ t.recs = << >> /\ t.head = h /\ t.len = 0
    BY <2>2, <2>3 DEF ResFile
  <2> QED
    BY <2>1, <2>4 DEF HasNum
<1> QED
  BY <1>1, <1>2

LEMMA CountedType ==
  ASSUME NEW r \in ResFile
  PROVE  /\ \A l \in Lengthened(r) : l \in Nat /\ [r EXCEPT !.len = l] \in ResFile
         /\ \A n \in Numbered(r) : n \in Nat /\ [r EXCEPT !.num = n] \in ResFile
<1>1. Misread \subseteq Nat
  BY ConstantsAssumption DEF ConstantsAssumption
<1>2. \A l \in Lengthened(r) : l \in Nat
  BY <1>1 DEF Lengthened, ResFile
<1>3. \A n \in Numbered(r) : n \in Nat
  BY <1>1 DEF Numbered, ResFile
<1> QED
  BY <1>2, <1>3 DEF ResFile

LEMMA AppendedType ==
  ASSUME pos \in Nat, val \in {"signed", "void"}, NEW r \in ResFile
  PROVE  Appended(r) \in ResFile
<1>1. [tx |-> pos, val |-> val] \in Record
  BY DEF Record
<1>2. Append(r.recs, [tx |-> pos, val |-> val]) \in Seq(Record)
  BY <1>1 DEF ResFile
<1> QED
  BY <1>2 DEF Appended, ResFile

LEMMA ContentTypes ==
  ASSUME content \in [Files -> Contents], NEW f \in Files
  PROVE  /\ content[f].hotp \in Nat /\ content[f].num \in Nat
         /\ content[f].server \in Nat
  BY ConstantsAssumption DEF ConstantsAssumption, TxFile

LEMMA ForgetTypes ==
  ASSUME Forget
  PROVE  /\ cur' = NoFile
         /\ accepted' \in BOOLEAN /\ flag' \in BOOLEAN
         /\ ctr' \in Nat /\ remain' \in Nat /\ pos' \in Nat
         /\ val' \in {"signed", "void"}
<1>1. accepted' \in BOOLEAN /\ flag' \in BOOLEAN
  BY Zenon DEF Forget
<1>2. ctr' = 0 /\ remain' = 0 /\ pos' = 0 /\ val' = "void" /\ cur' = NoFile
  BY DEF Forget
<1> QED
  BY <1>1, <1>2

LEMMA TornTyped ==
  ASSUME res \in [Files -> ResFile], cur \in Files, TornWrite
  PROVE  res' \in [Files -> ResFile]
<1>1. PICK t \in Torn(res[cur]) : res' = [res EXCEPT ![cur] = t]
  BY DEF TornWrite
<1>2. t \in ResFile
  BY <1>1, TornType
<1> QED
  BY <1>1, <1>2

LEMMA TypeInit == Init => TypeOK
<1> SUFFICES ASSUME Init PROVE TypeOK
  OBVIOUS
<1>1. counter \in [Servers -> Nat]
  BY DEF Init
<1>2. NoRes \in ResFile
  BY ResTypes
<1> QED
  BY <1>1, <1>2 DEF Init, TypeOK, Stages

LEMMA TypeNext ==
  ASSUME TypeOK, AcceptedOK, SignedOK, [Next]_vars
  PROVE  TypeOK'
<1> USE DEF TypeOK, Stages, disk, proc, hist
<1>1. CASE StartRun
  <2>1. uploads' \in [Files -> Nat]
    BY <1>1 DEF StartRun
  <2>2. dl' \in [Files -> ResFile]
    BY <1>1, ResTypes DEF StartRun
  <2> QED
    BY <1>1, <2>1, <2>2 DEF StartRun
<1>2. CASE PickFile
  BY <1>2 DEF PickFile, Oldest
<1>3. CASE AllDone \/ CleanUp \/ PickFails \/ CleanFails
  BY <1>3 DEF AllDone, CleanUp, PickFails, CleanFails, Fault
<1>4. CASE OpenRefused \/ ParseRefused \/ LoopGetRefused \/ WriteRefused
  BY <1>4 DEF OpenRefused, ParseRefused, LoopGetRefused, WriteRefused,
              ReturnFail
<1>5. CASE OpenMatch
  <2>1. cur \in Files
    BY <1>5 DEF OpenMatch
  <2>2. ctr' \in Nat
    BY <1>5, <2>1, ContentTypes DEF OpenMatch, NextCounter, CurHotp
  <2> QED
    BY <1>5, <2>2 DEF OpenMatch
<1>6. CASE OpenNoMatch
  <2>1. ctr' \in Nat
    BY <1>6 DEF OpenNoMatch, Readable
  <2> QED
    BY <1>6, <2>1 DEF OpenNoMatch
<1>7. CASE ParseFile
  <2>1. remain' \in Nat
    BY <1>7, ContentTypes DEF ParseFile
  <2> QED
    BY <1>7, <2>1 DEF ParseFile
<1>8. CASE LoopEnd
  BY <1>8 DEF LoopEnd, ReturnOk
<1>9. CASE LoopVoid \/ LoopGet \/ SignDone \/ SignRefused
  BY <1>9 DEF LoopVoid, LoopGet, SignDone, SignRefused
<1>10. CASE WriteHeader
  BY <1>10, ResTypes DEF WriteHeader
<1>11. CASE WriteRecord
  <2>1. Appended(res[cur]) \in ResFile /\ cur \in Files
    BY <1>11, AppendedType DEF WriteRecord
  <2>2. PICK t \in Shifted(Appended(res[cur])) : res' = [res EXCEPT ![cur] = t]
    BY <1>11 DEF WriteRecord
  <2>3. t \in ResFile
    BY <2>1, <2>2, ShiftedType
  <2>4. res' \in [Files -> ResFile]
    BY <2>1, <2>2, <2>3
  <2> QED
    BY <1>11, <2>4 DEF WriteRecord
<1>12. CASE WriteLength
  <2>1. cur \in Files
    BY <1>12 DEF WriteLength
  <2>2. PICK l \in Lengthened(res[cur]) : res' = [res EXCEPT ![cur].len = l]
    BY <1>12 DEF WriteLength
  <2>3. [res[cur] EXCEPT !.len = l] \in ResFile
    BY <2>1, <2>2, CountedType
  <2>4. res' = [res EXCEPT ![cur] = [res[cur] EXCEPT !.len = l]]
    BY <2>2
  <2>5. res' \in [Files -> ResFile]
    BY <2>1, <2>3, <2>4
  <2> QED
    BY <1>12, <2>5 DEF WriteLength
<1>13. CASE WriteNum \/ NextFails
  <2>1. remain' \in Nat
    <3>1. remain' = Decremented
      BY <1>13 DEF WriteNum, NextFails
    <3>2. Decremented \in Nat
      BY ConstantsAssumption DEF Decremented, ConstantsAssumption
    <3> QED
      BY <3>1, <3>2
  <2>2. res' \in [Files -> ResFile]
    <3>1. cur \in Files
      BY <1>13 DEF WriteNum, NextFails
    <3>2. PICK n \in Numbered(res[cur]) : res' = [res EXCEPT ![cur].num = n]
      BY <1>13 DEF WriteNum, NextFails
    <3>3. [res[cur] EXCEPT !.num = n] \in ResFile
      BY <3>1, <3>2, CountedType
    <3>4. res' = [res EXCEPT ![cur] = [res[cur] EXCEPT !.num = n]]
      BY <3>2
    <3> QED
      BY <3>1, <3>3, <3>4
  <2> QED
    <3>1. /\ UNCHANGED <<txs, content, counter, dl, cur, accepted, ctr, flag,
                         val, spent, uploads, crashes>>
          /\ pc = "num" /\ pc' \in {"loop", "move"} /\ cur \in Files
      BY <1>13 DEF WriteNum, NextFails, ReturnFail
    <3>2. pos' \in Nat
      BY <1>13 DEF WriteNum, NextFails
    <3>3. failed' \subseteq Files
      BY <1>13, <3>1 DEF WriteNum, NextFails, ReturnFail
    <3>4. faults' \in Nat
      BY <1>13 DEF WriteNum, NextFails, Fault
    <3> QED
      BY <2>1, <2>2, <3>1, <3>2, <3>3, <3>4
<1>14. CASE SaveCounter
  <2>1. cur \in Files
    BY <1>14 DEF SaveCounter
  <2>2. counter' \in [Servers -> Nat]
    BY <1>14 DEF SaveCounter
  <2>3. spent' \subseteq Servers \X Nat
    BY <1>14, <2>1, ContentTypes
       DEF SaveCounter, CurHotp, AcceptedOK, SignedOK, Signing
  <2> QED
    BY <1>14, <2>1, <2>2, <2>3 DEF SaveCounter, ReturnOk
<1>15. CASE MoveResult
  <2>1. cur \in Files /\ NoRes \in ResFile
    BY <1>15, ResTypes DEF MoveResult
  <2>2. dl' \in [Files -> ResFile] /\ res' \in [Files -> ResFile]
    BY <1>15, <2>1 DEF MoveResult
  <2>3. pc' = "rm" /\ UNCHANGED <<txs, content, counter, proc, hist>>
    BY <1>15 DEF MoveResult
  <2> QED
    BY <2>1, <2>2, <2>3
<1>16. CASE RemoveFile \/ RemoveFails
  <2>1. faults' \in Nat
    BY <1>16 DEF RemoveFile, RemoveFails
  <2> QED
    BY <1>16, <2>1, ForgetTypes DEF RemoveFile, RemoveFails
<1>17. CASE CallFails \/ MoveFails
  BY <1>17 DEF CallFails, MoveFails, ReturnFail, Fault
<1>18. CASE WriteFails
  <2>1. cur \in Files
    BY <1>18 DEF WriteFails
  <2>2. res' \in [Files -> ResFile]
    BY <1>18, <2>1, TornTyped DEF WriteFails
  <2> QED
    BY <1>18, <2>2 DEF WriteFails, ReturnFail, Fault
<1>19. CASE Crash
  <2>1. res' \in [Files -> ResFile]
    <3>1. TornWrite => cur \in Files
      BY DEF TornWrite, Writing
    <3> QED
      BY <1>19, <3>1, TornTyped DEF Crash
  <2>2. /\ pc' = "idle" /\ crashes' = crashes + 1 /\ Forget
        /\ UNCHANGED <<txs, content, counter, dl, spent, failed, uploads,
                       faults>>
    BY <1>19 DEF Crash
  <2> QED
    BY <2>1, <2>2, ForgetTypes
<1>20. CASE UNCHANGED vars
  BY <1>20 DEF vars
<1> QED
  BY <1>1, <1>2, <1>3, <1>4, <1>5, <1>6, <1>7, <1>8, <1>9, <1>10, <1>11,
     <1>12, <1>13, <1>14, <1>15, <1>16, <1>17, <1>18, <1>19, <1>20
     DEF Next, Own, Faulty, OpenFile, Parse, Loop, Sign, WriteResult

-----------------------------------------------------------------------------
(* What a step can change.                                                 *)

LEMMA SignedFacts ==
  ASSUME pos \in Nat, val \in {"signed", "void"}, NEW r \in ResFile
  PROVE  /\ ~ Signed(NoRes) /\ ~ Signed(EmptyRes)
         /\ \A t \in Torn(r) \cup Shifted(r) : Signed(t) => Signed(r)
         /\ \A n \in Nat : Signed([r EXCEPT !.len = n]) => Signed(r)
         /\ \A n \in Nat : Signed([r EXCEPT !.num = n]) => Signed(r)
         /\ Signed(Appended(r)) => Signed(r) \/ val = "signed"
<1>1. ~ Signed(NoRes) /\ ~ Signed(EmptyRes)
  BY ResTypes DEF Signed
<1>2. \A t \in Torn(r) \cup Shifted(r) : t.recs = r.recs \/ t.recs = << >>
  BY TornType, ShiftedType
<1>3. \A n \in Nat : /\ [r EXCEPT !.len = n].recs = r.recs
                    /\ [r EXCEPT !.num = n].recs = r.recs
  BY DEF ResFile
<1>4. Signed(Appended(r)) => Signed(r) \/ val = "signed"
  <2> DEFINE e == [tx |-> pos, val |-> val]
  <2>1. Appended(r).recs = Append(r.recs, e) /\ r.recs \in Seq(Record)
    BY DEF Appended, ResFile
  <2>2. e \in Record /\ e.val = val
    BY DEF Record
  <2> HIDE DEF e
  <2>3. /\ Len(Append(r.recs, e)) = Len(r.recs) + 1
        /\ \A i \in 1 .. Len(r.recs) : Append(r.recs, e)[i] = r.recs[i]
        /\ Append(r.recs, e)[Len(r.recs) + 1] = e
        /\ Len(r.recs) \in Nat
    BY <2>1, <2>2
  <2> QED
    BY <2>1, <2>2, <2>3 DEF Signed
<1> QED
  BY <1>1, <1>2, <1>3, <1>4 DEF Signed

(* Only SaveCounter writes server.list and the history of spent codes, and *)
(* nothing writes the files of the ground.                                 *)
LEMMA CounterFrame ==
  ASSUME [Next]_vars
  PROVE  /\ content' = content
         /\ (counter' = counter /\ spent' = spent) \/ SaveCounter
  BY DEF Next, Own, Faulty, OpenFile, Parse, Loop, Sign, WriteResult,
         vars, disk, proc, hist, StartRun, PickFile, AllDone, CleanUp,
         PickFails, OpenRefused, OpenMatch, OpenNoMatch, ParseFile,
         ParseRefused, LoopEnd, LoopVoid, LoopGet, LoopGetRefused, SignDone,
         SignRefused, WriteRefused, WriteHeader, WriteRecord, WriteLength,
         WriteNum, NextFails, SaveCounter, MoveResult, RemoveFile,
         RemoveFails, CleanFails, CallFails, WriteFails, MoveFails, Crash

(* Only WriteRecord puts a signature into a result file.                   *)
LEMMA SignedFrame ==
  ASSUME TypeOK, [Next]_vars, NEW f \in Files, Signed(res'[f])
  PROVE  Signed(res[f]) \/ (f = cur /\ WriteRecord /\ val = "signed")
<1> USE DEF TypeOK, Stages
<1>1. CASE res' = res
  BY <1>1
<1>2. CASE WriteHeader
  BY <1>2, SignedFacts DEF WriteHeader
<1>3. CASE WriteRecord
  <2>1. PICK t \in Shifted(Appended(res[cur])) : res' = [res EXCEPT ![cur] = t]
    BY <1>3 DEF WriteRecord
  <2>2. cur \in Files /\ Appended(res[cur]) \in ResFile
    BY <1>3, AppendedType DEF WriteRecord
  <2>3. Signed(t) => Signed(res[cur]) \/ val = "signed"
    BY <2>1, <2>2, SignedFacts
  <2> QED
    BY <1>3, <2>1, <2>2, <2>3
<1>4. CASE WriteLength
  <2>1. PICK l \in Lengthened(res[cur]) : res' = [res EXCEPT ![cur].len = l]
    BY <1>4 DEF WriteLength
  <2>2. cur \in Files
    BY <1>4 DEF WriteLength
  <2>3. l \in Nat
    BY <2>1, <2>2, CountedType
  <2>4. Signed([res[cur] EXCEPT !.len = l]) => Signed(res[cur])
    BY <2>2, <2>3, SignedFacts
  <2> QED
    BY <2>1, <2>2, <2>4
<1>5. CASE WriteNum \/ NextFails
  <2>1. PICK n \in Numbered(res[cur]) : res' = [res EXCEPT ![cur].num = n]
    BY <1>5 DEF WriteNum, NextFails
  <2>2. cur \in Files
    BY <1>5 DEF WriteNum, NextFails
  <2>3. n \in Nat
    BY <2>1, <2>2, CountedType
  <2>4. Signed([res[cur] EXCEPT !.num = n]) => Signed(res[cur])
    BY <2>2, <2>3, SignedFacts
  <2> QED
    BY <2>1, <2>2, <2>4
<1>6. CASE MoveResult
  BY <1>6, SignedFacts DEF MoveResult
<1>7. CASE TornWrite
  <2>1. PICK t \in Torn(res[cur]) : res' = [res EXCEPT ![cur] = t]
    BY <1>7 DEF TornWrite
  <2>2. cur \in Files
    BY <1>7 DEF TornWrite, Writing
  <2>3. Signed(t) => Signed(res[cur])
    BY <2>1, <2>2, SignedFacts
  <2> QED
    BY <2>1, <2>2, <2>3
<1>8. \/ res' = res \/ WriteHeader \/ WriteRecord \/ WriteLength \/ WriteNum
      \/ NextFails \/ MoveResult \/ TornWrite
  BY DEF Next, Own, Faulty, OpenFile, Parse, Loop, Sign, WriteResult,
         vars, disk, proc, hist, StartRun, PickFile, AllDone, CleanUp,
         PickFails, OpenRefused, OpenMatch, OpenNoMatch, ParseFile,
         ParseRefused, LoopEnd, LoopVoid, LoopGet, LoopGetRefused, SignDone,
         SignRefused, WriteRefused, SaveCounter, RemoveFile, RemoveFails, CleanFails,
         CallFails, MoveFails, WriteFails, Crash
<1> QED
  BY <1>1, <1>2, <1>3, <1>4, <1>5, <1>6, <1>7, <1>8

-----------------------------------------------------------------------------
(* The counter.                                                            *)

(* SaveCounter saves a value above the code that was accepted, which is at *)
(* or above the counter it was compared with.                              *)
LEMMA SaveRaises ==
  ASSUME TypeOK, AcceptedOK, SignedOK, SaveCounter
  PROVE  /\ cur \in Files /\ CurServer \in Servers /\ CurHotp \in Nat
         /\ CurHotp >= counter[CurServer]
         /\ counter' = [counter EXCEPT ![CurServer] = CurHotp + 1]
         /\ spent' = spent \cup {<<CurServer, CurHotp>>}
<1>1. pc = "save" /\ cur \in Files
  BY DEF SaveCounter, TypeOK
<1>2. CurHotp \in Nat
  BY <1>1, ContentTypes DEF CurHotp, TypeOK
<1>3. CurServer \in Servers /\ InWindow /\ ctr = CurHotp + 1
  BY <1>1 DEF AcceptedOK, SignedOK, Signing
<1>4. CurHotp >= counter[CurServer]
  BY <1>2, <1>3, ConstantsAssumption DEF InWindow, TypeOK, ConstantsAssumption
<1> QED
  BY <1>1, <1>2, <1>3, <1>4 DEF SaveCounter

LEMMA CounterRises ==
  ASSUME TypeOK, AcceptedOK, SignedOK, [Next]_vars
  PROVE  \A s \in Servers : counter'[s] >= counter[s] /\ counter'[s] \in Nat
<1>1. CASE counter' = counter
  BY <1>1 DEF TypeOK
<1>2. CASE SaveCounter
  BY <1>2, SaveRaises DEF TypeOK
<1> QED
  BY <1>1, <1>2, CounterFrame

LEMMA SpentNext ==
  ASSUME TypeOK, AcceptedOK, SignedOK, SpentBelowCounter, [Next]_vars
  PROVE  SpentBelowCounter'
<1>1. CASE counter' = counter /\ spent' = spent
  BY <1>1 DEF SpentBelowCounter
<1>2. CASE SaveCounter
  <2>1. SUFFICES ASSUME NEW p \in spent'
                 PROVE  p[2] < counter'[p[1]]
    BY DEF SpentBelowCounter
  <2>2. CASE p \in spent
    <3>1. p[2] < counter[p[1]] /\ p[1] \in Servers /\ p[2] \in Nat
      BY <2>2 DEF SpentBelowCounter, TypeOK
    <3> QED
      BY <3>1, CounterRises DEF TypeOK
  <2>3. CASE p = <<CurServer, CurHotp>>
    BY <1>2, <2>3, SaveRaises DEF TypeOK
  <2> QED
    BY <1>2, <2>2, <2>3, SaveRaises
<1> QED
  BY <1>1, <1>2, CounterFrame

-----------------------------------------------------------------------------
(* What the process holds in memory.                                       *)

(* A step of the code that is not named here leaves cur, accepted and ctr  *)
(* alone, and enters the Signing stages from nowhere else.                 *)
Starts == OpenMatch \/ OpenNoMatch

LEMMA ProcFrame ==
  ASSUME [Next]_vars, ~ Starts, pc' \in Signing
  PROVE  /\ pc \in Signing
         /\ cur' = cur /\ accepted' = accepted /\ ctr' = ctr
         /\ ~ SaveCounter /\ ~ MoveResult
  BY DEF Signing, Starts, Next, Own, Faulty, OpenFile, Parse, Loop,
         Sign, WriteResult, vars, disk, proc, hist, StartRun, PickFile,
         AllDone, CleanUp, PickFails, OpenRefused, OpenMatch, OpenNoMatch,
         ParseFile, ParseRefused, LoopEnd, LoopVoid, LoopGet, LoopGetRefused,
         SignDone, SignRefused, WriteRefused, WriteHeader, WriteRecord,
         WriteLength, WriteNum, NextFails, SaveCounter, MoveResult,
         RemoveFile, RemoveFails, CleanFails, CallFails, WriteFails, MoveFails, Crash,
         ReturnOk, ReturnFail

LEMMA AcceptedNext ==
  ASSUME TypeOK, AcceptedOK, [Next]_vars
  PROVE  AcceptedOK'
<1> SUFFICES ASSUME pc' \in Signing, accepted'
             PROVE  /\ CurServer' \in Servers /\ InWindow'
                    /\ ctr' = CurHotp' + 1
  BY DEF AcceptedOK
<1>1. CASE OpenMatch
  BY <1>1 DEF OpenMatch, Readable, NextCounter, InWindow, CurServer, CurHotp,
              disk
<1>2. CASE OpenNoMatch
  BY <1>2 DEF OpenNoMatch
<1>3. CASE ~ Starts
  <2>1. /\ pc \in Signing /\ accepted
        /\ cur' = cur /\ ctr' = ctr /\ ~ SaveCounter
    BY <1>3, ProcFrame
  <2>2. content' = content /\ counter' = counter
    BY <2>1, CounterFrame
  <2> QED
    BY <2>1, <2>2 DEF AcceptedOK, CurServer, CurHotp, InWindow
<1> QED
  BY <1>1, <1>2, <1>3 DEF Starts

LEMMA SignedNext ==
  ASSUME TypeOK, SignedOK, [Next]_vars
  PROVE  SignedOK'
<1>1. ASSUME pc' \in {"write", "rec"}, val' = "signed" PROVE accepted'
  <2>1. ~ Starts
    BY <1>1 DEF Starts, OpenMatch, OpenNoMatch
  <2>2. accepted' = accepted
    BY <1>1, <2>1, ProcFrame DEF Signing
  <2>3. pc = "sign" \/ (pc \in {"write", "rec"} /\ val = "signed")
    BY <1>1 DEF Next, Own, Faulty, OpenFile, Parse, Loop, Sign,
         WriteResult, vars, disk, proc, hist, StartRun, PickFile, AllDone,
         CleanUp, PickFails, OpenRefused, OpenMatch, OpenNoMatch, ParseFile,
         ParseRefused, LoopEnd, LoopVoid, LoopGet, LoopGetRefused,
         SignDone, SignRefused, WriteRefused, WriteHeader, WriteRecord,
         WriteLength, WriteNum, NextFails, SaveCounter, MoveResult,
         RemoveFile, RemoveFails, CleanFails, CallFails, WriteFails, MoveFails, Crash,
         ReturnOk, ReturnFail
  <2> QED
    BY <2>2, <2>3 DEF SignedOK
<1>2. ASSUME pc' \in {"sign", "save"} PROVE accepted'
  <2>1. ~ Starts
    BY <1>2 DEF Starts, OpenMatch, OpenNoMatch
  <2>2. accepted' = accepted
    BY <1>2, <2>1, ProcFrame DEF Signing
  <2>3. accepted
    BY <1>2 DEF SignedOK, Next, Own, Faulty, OpenFile, Parse, Loop,
         Sign, WriteResult, vars, disk, proc, hist, StartRun, PickFile,
         AllDone, CleanUp, PickFails, OpenRefused, OpenMatch, OpenNoMatch,
         ParseFile, ParseRefused, LoopEnd, LoopVoid, LoopGet, LoopGetRefused,
         SignDone, SignRefused, WriteRefused, WriteHeader, WriteRecord,
         WriteLength, WriteNum, NextFails, SaveCounter, MoveResult,
         RemoveFile, RemoveFails, CleanFails, CallFails, WriteFails, MoveFails, Crash,
         ReturnOk, ReturnFail
  <2> QED
    BY <2>2, <2>3
<1> QED
  BY <1>1, <1>2 DEF SignedOK

-----------------------------------------------------------------------------
(* Signatures on the disk.                                                 *)

LEMMA ResSignedNext ==
  ASSUME IInv, [Next]_vars
  PROVE  ResSignedOK'
<1> SUFFICES ASSUME NEW f \in Files, Signed(res'[f])
             PROVE  /\ content'[f].server \in Servers
                    /\ content'[f].hotp
                         < counter'[content'[f].server] + Window
  BY DEF ResSignedOK
<1> DEFINE s == content[f].server
<1>1. content' = content
  BY CounterFrame
<1>2. s \in Servers /\ content[f].hotp < counter[s] + Window
  <2>1. CASE Signed(res[f])
    BY <2>1 DEF IInv, ResSignedOK
  <2>2. CASE f = cur /\ WriteRecord /\ val = "signed"
    <3>1. pc = "rec" /\ accepted
      BY <2>2 DEF WriteRecord, IInv, SignedOK
    <3>2. CurServer \in Servers /\ InWindow
      BY <3>1 DEF IInv, AcceptedOK, Signing
    <3>3. CurHotp \in Nat /\ counter[CurServer] \in Nat /\ Window \in Nat
      BY <2>2, <3>2, ContentTypes, ConstantsAssumption
         DEF CurHotp, IInv, TypeOK, ConstantsAssumption
    <3> QED
      BY <2>2, <3>2, <3>3 DEF InWindow, CurHotp, CurServer
  <2> QED
    BY <2>1, <2>2, SignedFrame DEF IInv
<1>3. counter'[s] >= counter[s] /\ counter[s] \in Nat /\ counter'[s] \in Nat
  BY <1>2, CounterRises DEF IInv, TypeOK
<1>4. content[f].hotp \in Nat /\ Window \in Nat
  BY ContentTypes, ConstantsAssumption DEF IInv, TypeOK, ConstantsAssumption
<1> QED
  BY <1>1, <1>2, <1>3, <1>4

(* The two ways out of start_sign_tx_file that return 0. *)
LEMMA MoveFrame ==
  ASSUME [Next]_vars, pc' = "move", cur' \notin failed'
  PROVE  /\ cur' = cur /\ res' = res
         /\ \/ SaveCounter
            \/ pc = "loop" /\ ~ accepted /\ failed' = failed
            \/ pc = "move" /\ failed' = failed
  BY DEF Next, Own, Faulty, OpenFile, Parse, Loop, Sign, WriteResult,
         vars, disk, proc, hist, StartRun, PickFile, AllDone, CleanUp,
         PickFails, OpenRefused, OpenMatch, OpenNoMatch, ParseFile,
         ParseRefused, LoopEnd, LoopVoid, LoopGet, LoopGetRefused, SignDone,
         SignRefused, WriteRefused, WriteHeader, WriteRecord, WriteLength,
         WriteNum, NextFails, SaveCounter, MoveResult, RemoveFile,
         RemoveFails, CleanFails, CallFails, WriteFails, MoveFails, Crash, ReturnOk,
         ReturnFail

LEMMA RefusedNext ==
  ASSUME IInv, [Next]_vars
  PROVE  RefusedOK'
<1> SUFFICES ASSUME \/ pc' \in Signing /\ ~ accepted'
                    \/ pc' = "move" /\ cur' \notin failed',
                    Signed(res'[cur'])
             PROVE  CurHotp' < counter'[CurServer']
  BY DEF RefusedOK
<1>1. content' = content
  BY CounterFrame
<1>2. CASE pc' \in Signing /\ ~ accepted' /\ Starts
  <2>1. pc = "open" /\ ~ InWindow /\ cur' = cur /\ res' = res /\ counter' = counter
    BY <1>2 DEF Starts, OpenMatch, OpenNoMatch, disk
  <2>2. cur \in Files
    BY <2>1 DEF IInv, TypeOK
  <2>3. CurServer \in Servers /\ CurHotp < counter[CurServer] + Window
    BY <2>1, <2>2 DEF IInv, ResSignedOK, CurServer, CurHotp
  <2>4. CurHotp \in Nat /\ counter[CurServer] \in Nat /\ Window \in Nat
    BY <2>2, <2>3, ContentTypes, ConstantsAssumption
       DEF CurHotp, IInv, TypeOK, ConstantsAssumption
  <2>5. CurHotp < counter[CurServer]
    BY <2>1, <2>3, <2>4 DEF InWindow
  <2> QED
    BY <1>1, <2>1, <2>5 DEF CurHotp, CurServer
<1>3. CASE pc' \in Signing /\ ~ accepted' /\ ~ Starts
  <2>1. /\ pc \in Signing /\ ~ accepted
        /\ cur' = cur /\ ~ SaveCounter
    BY <1>3, ProcFrame
  <2>2. counter' = counter /\ cur \in Files
    BY <2>1, CounterFrame DEF IInv, TypeOK, Signing
  <2>3. Signed(res[cur])
    BY <2>1, <2>2, SignedFrame DEF IInv, SignedOK, WriteRecord
  <2>4. CurHotp < counter[CurServer]
    BY <2>1, <2>3 DEF IInv, RefusedOK
  <2> QED
    BY <1>1, <2>1, <2>2, <2>4 DEF CurHotp, CurServer
<1>4. CASE pc' = "move" /\ cur' \notin failed'
  <2>1. cur' = cur /\ res' = res
    BY <1>4, MoveFrame
  <2>2. CASE SaveCounter
    BY <1>1, <2>1, <2>2, SaveRaises DEF IInv, TypeOK, CurHotp, CurServer
  <2>3. CASE ~ SaveCounter
    <3>1. \/ pc = "loop" /\ ~ accepted
          \/ pc = "move" /\ cur \notin failed
      BY <1>4, <2>1, <2>3, MoveFrame
    <3>2. CurHotp < counter[CurServer]
      BY <2>1, <3>1 DEF IInv, RefusedOK, Signing
    <3>3. counter' = counter
      BY <2>3, CounterFrame
    <3> QED
      BY <1>1, <2>1, <3>2, <3>3 DEF CurHotp, CurServer
  <2> QED
    BY <2>2, <2>3
<1> QED
  BY <1>2, <1>3, <1>4

LEMMA DlFrame ==
  ASSUME TypeOK, [Next]_vars, NEW f \in Files
  PROVE  /\ failed \subseteq failed'
         /\ \/ dl'[f] = dl[f]
            \/ dl'[f] = NoRes
            \/ /\ f = cur /\ pc = "move" /\ dl'[f] = res[f]
               /\ failed' = failed
<1>1. CASE StartRun
  BY <1>1 DEF StartRun
<1>2. CASE MoveResult
  BY <1>2 DEF MoveResult, TypeOK, hist
<1>3. CASE ~ StartRun /\ ~ MoveResult
  BY <1>3 DEF Next, Own, Faulty, OpenFile, Parse, Loop, Sign,
       WriteResult, vars, disk, proc, hist, PickFile, AllDone, CleanUp,
       PickFails, OpenRefused, OpenMatch, OpenNoMatch, ParseFile,
       ParseRefused, LoopEnd, LoopVoid, LoopGet, LoopGetRefused, SignDone,
       SignRefused, WriteRefused, WriteHeader, WriteRecord, WriteLength,
       WriteNum, NextFails, SaveCounter, RemoveFile, RemoveFails, CleanFails, CallFails,
       WriteFails, MoveFails, Crash, ReturnOk, ReturnFail
<1> QED
  BY <1>1, <1>2, <1>3

LEMMA DlSignedNext ==
  ASSUME IInv, [Next]_vars
  PROVE  DlSignedOK'
<1> SUFFICES ASSUME NEW f \in Files, Signed(dl'[f]), f \notin failed'
             PROVE  /\ content'[f].server \in Servers
                    /\ content'[f].hotp < counter'[content'[f].server]
  BY DEF DlSignedOK
<1> DEFINE s == content[f].server
<1>1. content' = content
  BY CounterFrame
<1>2. f \notin failed /\ ~ Signed(NoRes)
  BY DlFrame, SignedFacts, ResTypes DEF IInv, TypeOK
<1>3. s \in Servers /\ content[f].hotp < counter[s]
  <2>1. CASE dl'[f] = dl[f]
    BY <1>2, <2>1 DEF IInv, DlSignedOK
  <2>2. CASE f = cur /\ pc = "move" /\ dl'[f] = res[f]
    BY <1>2, <2>2
       DEF IInv, ResSignedOK, RefusedOK, CurHotp, CurServer
  <2> QED
    BY <1>2, <2>1, <2>2, DlFrame DEF IInv
<1>4. counter'[s] >= counter[s] /\ counter[s] \in Nat /\ counter'[s] \in Nat
  BY <1>3, CounterRises DEF IInv, TypeOK
<1>5. content[f].hotp \in Nat
  BY ContentTypes DEF IInv, TypeOK
<1> QED
  BY <1>1, <1>3, <1>4, <1>5

-----------------------------------------------------------------------------
(* The theorems.                                                           *)

LEMMA IInvInit == Init => IInv
<1> SUFFICES ASSUME Init PROVE IInv
  OBVIOUS
<1>1. TypeOK
  BY TypeInit
<1>2. \A f \in Files : ~ Signed(res[f]) /\ ~ Signed(dl[f])
  BY DEF Init, Signed, NoRes
<1>3. SpentBelowCounter /\ AcceptedOK /\ SignedOK
  BY DEF Init, SpentBelowCounter, AcceptedOK, SignedOK, Signing
<1>4. ResSignedOK /\ DlSignedOK
  BY <1>2 DEF ResSignedOK, DlSignedOK
<1>5. RefusedOK
  BY DEF Init, RefusedOK, Signing
<1> QED
  BY <1>1, <1>3, <1>4, <1>5 DEF IInv

LEMMA IInvNext == IInv /\ [Next]_vars => IInv'
<1> SUFFICES ASSUME IInv, [Next]_vars PROVE IInv'
  OBVIOUS
<1>1. TypeOK'
  BY TypeNext DEF IInv
<1>2. SpentBelowCounter'
  BY SpentNext DEF IInv
<1>3. AcceptedOK'
  BY AcceptedNext DEF IInv
<1>4. SignedOK'
  BY SignedNext DEF IInv
<1> QED
  BY <1>1, <1>2, <1>3, <1>4, ResSignedNext, RefusedNext, DlSignedNext
     DEF IInv

THEOREM Invariance == Spec => []IInv
  BY IInvInit, IInvNext, PTL DEF Spec

(* Every state of the mission is well typed. *)
THEOREM TypeCorrect == Spec => []TypeOK
  BY Invariance, PTL DEF IInv

(* start_sign_tx_file: a code that has signed a file to the end lies below *)
(* the counter on the disk, whatever crashes and faults happen.            *)
THEOREM SpentCodes == Spec => []SpentBelowCounter
  BY Invariance, PTL DEF IInv

(* A code that has signed a file to the end signs nothing again. *)
THEOREM NoReplayThm == Spec => NoReplay
<1>1. IInv /\ [Next]_vars =>
        [(pc = "rec" /\ val = "signed" /\ res' # res)
           => <<CurServer, CurHotp>> \notin spent]_vars
  <2> SUFFICES ASSUME IInv, pc = "rec", val = "signed"
               PROVE  <<CurServer, CurHotp>> \notin spent
    OBVIOUS
  <2>1. CurServer \in Servers /\ InWindow /\ cur \in Files
    BY DEF IInv, SignedOK, AcceptedOK, Signing, TypeOK
  <2>2. CurHotp >= counter[CurServer] /\ CurHotp \in Nat
        /\ counter[CurServer] \in Nat
    BY <2>1, ContentTypes, ConstantsAssumption
       DEF InWindow, IInv, TypeOK, CurHotp, ConstantsAssumption
  <2> QED
    BY <2>2 DEF IInv, SpentBelowCounter
<1> QED
  BY <1>1, Invariance, PTL DEF Spec, NoReplay

(* server_setServerInfo never lowers a counter while a secret is kept. *)
THEOREM CounterNeverFalls == Spec => CounterMonotone
<1>1. IInv /\ [Next]_vars =>
        [\A s \in Servers : counter'[s] >= counter[s]]_vars
  BY CounterRises DEF IInv
<1> QED
  BY <1>1, Invariance, PTL DEF Spec, CounterMonotone

(* spc_start_mission: a signed result is released with its code unspent    *)
(* only for a file on which signing has failed.                            *)
THEOREM UnspentRelease == Spec => []UnspentMeansFailed
<1>1. IInv => UnspentMeansFailed
  <2> SUFFICES ASSUME IInv, NEW f \in Files, Signed(dl[f]),
                      content[f].hotp >= counter[content[f].server],
                      f \notin failed
               PROVE  FALSE
    BY DEF UnspentMeansFailed
  <2>1. /\ content[f].server \in Servers
        /\ content[f].hotp < counter[content[f].server]
    BY DEF IInv, DlSignedOK
  <2> QED
    BY <2>1, ContentTypes DEF IInv, TypeOK
<1> QED
  BY <1>1, Invariance, PTL

-----------------------------------------------------------------------------
(* The three writes to a result file.                                      *)

Covered(r) ==
  /\ HasLen(r) => r.len <= Len(r.recs)
  /\ HasNum(r) => r.num <= r.len

CountsInv ==
  /\ \A f \in Files : Covered(res[f]) /\ Covered(dl[f])
  /\ pc = "len" /\ HasLen(res[cur]) => res[cur].len < Len(res[cur].recs)
  /\ pc = "num" /\ HasNum(res[cur]) => res[cur].num < res[cur].len

(* Which steps write to a result file, and where its counts lag behind.    *)
LEMMA ResFrame ==
  ASSUME [Next]_vars
  PROVE  \/ UNCHANGED res \/ WriteHeader \/ WriteRecord \/ WriteLength
         \/ MoveResult
         \/ TornWrite
         \/ pc = "num" /\ \E n \in Numbered(res[cur]) :
                            res' = [res EXCEPT ![cur].num = n]
  BY DEF Next, Own, Faulty, OpenFile, Parse, Loop, Sign, WriteResult,
       vars, disk, StartRun, PickFile, AllDone, CleanUp, PickFails, OpenRefused,
       OpenMatch, OpenNoMatch, ParseFile, ParseRefused, LoopEnd, LoopVoid,
       LoopGet, LoopGetRefused, SignDone, SignRefused, WriteRefused, WriteNum,
       NextFails, SaveCounter, RemoveFile, RemoveFails, CleanFails, CallFails, WriteFails,
       MoveFails, Crash

LEMMA LagFrame ==
  ASSUME [Next]_vars, pc' \in {"len", "num"}
  PROVE  WriteRecord \/ WriteLength \/ UNCHANGED <<pc, cur, res, dl>>
  BY DEF Next, Own, Faulty, OpenFile, Parse, Loop, Sign, WriteResult,
       vars, disk, proc, StartRun, PickFile, AllDone, CleanUp, PickFails,
       OpenRefused, OpenMatch, OpenNoMatch, ParseFile, ParseRefused, LoopEnd,
       LoopVoid, LoopGet, LoopGetRefused, SignDone, SignRefused, WriteRefused,
       WriteHeader, WriteNum, NextFails, SaveCounter, MoveResult, RemoveFile,
       RemoveFails, CleanFails, CallFails, WriteFails, MoveFails, Crash, ReturnOk, ReturnFail

LEMMA CountsNext ==
  ASSUME TypeOK, CountsInv, [Next]_vars
  PROVE  CountsInv'
<1>a. /\ res \in [Files -> ResFile] /\ dl \in [Files -> ResFile]
      /\ \A r \in ResFile : /\ r.num \in Nat /\ r.len \in Nat
                            /\ r.head \in 0 .. 3 /\ r.recs \in Seq(Record)
      /\ \A r \in ResFile : Len(r.recs) \in Nat
  BY DEF TypeOK, ResFile
<1>b. Covered(NoRes) /\ Covered(EmptyRes)
  BY DEF Covered, NoRes, EmptyRes
<1>1. CASE WriteRecord
  <2>1. /\ dl' = dl /\ pc' = "len" /\ cur' = cur /\ cur \in Files
    BY <1>1 DEF WriteRecord, proc, TypeOK
  <2>2. PICK t \in Shifted(Appended(res[cur])) : res' = [res EXCEPT ![cur] = t]
    BY <1>1 DEF WriteRecord
  <2>3. /\ Appended(res[cur]).num = res[cur].num
        /\ Appended(res[cur]).len = res[cur].len
        /\ Appended(res[cur]).head = res[cur].head
        /\ Appended(res[cur]).recs = Append(res[cur].recs, [tx |-> pos, val |-> val])
        /\ Appended(res[cur]) \in ResFile
    BY <1>a, <2>1, AppendedType DEF Appended, ResFile, TypeOK
  <2>4. Len(Appended(res[cur]).recs) = Len(res[cur].recs) + 1
    BY <1>a, <2>1, <2>3 DEF TypeOK, Record
  <2>5. /\ t.recs = Appended(res[cur]).recs /\ t.head = res[cur].head
        /\ HasLen(res[cur]) => t.len = res[cur].len
        /\ HasNum(res[cur]) => t.num = res[cur].num
    BY <2>2, <2>3, ShiftedType DEF HasLen, HasNum
  <2>6. Covered(res[cur]) /\ res[cur] \in ResFile
    BY <1>a, <2>1 DEF CountsInv
  <2>7. res'[cur] = t /\ \A f \in Files \ {cur} : res'[f] = res[f]
    BY <1>a, <2>1, <2>2
  <2>8. Covered(t) /\ (HasLen(t) => t.len < Len(t.recs))
    BY <1>a, <2>4, <2>5, <2>6 DEF Covered, HasLen, HasNum
  <2> QED  BY <2>1, <2>7, <2>8 DEF CountsInv
<1>2. CASE WriteLength
  <2>1. /\ dl' = dl /\ pc = "len" /\ pc' = "num" /\ cur' = cur /\ cur \in Files
    BY <1>2 DEF WriteLength, proc, TypeOK
  <2>2. PICK l \in Lengthened(res[cur]) : res' = [res EXCEPT ![cur].len = l]
    BY <1>2 DEF WriteLength
  <2>3. /\ res'[cur].num = res[cur].num /\ res'[cur].recs = res[cur].recs
        /\ res'[cur].head = res[cur].head /\ res'[cur].len = l
        /\ \A f \in Files \ {cur} : res'[f] = res[f]
    BY <1>a, <2>1, <2>2 DEF ResFile
  <2>4. /\ Covered(res[cur]) /\ res[cur] \in ResFile
        /\ HasLen(res[cur]) =>
             res[cur].len < Len(res[cur].recs) /\ l = res[cur].len + 1
    BY <1>a, <2>1, <2>2 DEF CountsInv, Lengthened
  <2>5. Covered(res'[cur]) /\ (HasNum(res'[cur]) => res'[cur].num < res'[cur].len)
    BY <1>a, <2>3, <2>4 DEF Covered, HasLen, HasNum
  <2> QED  BY <2>1, <2>3, <2>5 DEF CountsInv
<1>3. CASE UNCHANGED <<pc, cur, res, dl>>
  BY <1>3 DEF CountsInv
<1>4. CASE pc' \notin {"len", "num"}
  <2>1. \A f \in Files : Covered(res'[f])
    <3>1. CASE UNCHANGED res
      BY <3>1 DEF CountsInv
    <3>2. CASE WriteHeader
      BY <3>2, <1>a, <1>b DEF WriteHeader, CountsInv
    <3>3. CASE MoveResult
      BY <3>3, <1>a, <1>b DEF MoveResult, CountsInv
    <3>4. ASSUME pc = "num", NEW n \in Numbered(res[cur]),
                 res' = [res EXCEPT ![cur].num = n]
          PROVE  \A f \in Files : Covered(res'[f])
      <4>1. cur \in Files /\ res[cur] \in ResFile
        BY <3>4, <1>a DEF TypeOK
      <4>2. HasNum(res[cur]) => res[cur].num < res[cur].len /\ n = res[cur].num + 1
        BY <3>4 DEF CountsInv, Numbered
      <4>3. /\ res'[cur].num = n /\ res'[cur].recs = res[cur].recs
            /\ res'[cur].len = res[cur].len /\ res'[cur].head = res[cur].head
            /\ \A f \in Files \ {cur} : res'[f] = res[f]
        BY <1>a, <3>4, <4>1 DEF ResFile
      <4>4. Covered(res[cur])
        BY <4>1 DEF CountsInv
      <4>5. Covered(res'[cur])
        BY <1>a, <4>1, <4>2, <4>3, <4>4 DEF Covered, HasLen, HasNum
      <4> QED  BY <4>3, <4>5 DEF CountsInv
    <3>5. CASE TornWrite
      <4>1. PICK t \in Torn(res[cur]) : res' = [res EXCEPT ![cur] = t]
        BY <3>5 DEF TornWrite
      <4>2. cur \in Files /\ res[cur] \in ResFile /\ Covered(res[cur])
        BY <1>a, <3>5 DEF TornWrite, Writing, TypeOK, CountsInv
      <4>3. t \in ResFile
            /\ \/ /\ t.recs = res[cur].recs /\ t.head = res[cur].head
                  /\ HasLen(res[cur]) => t.len = res[cur].len
                  /\ HasNum(res[cur]) => t.num = res[cur].num
               \/ ~ HasNum(t) /\ t.len = 0
        BY <4>1, <4>2, TornType
      <4>4. Covered(t)
        BY <1>a, <4>2, <4>3 DEF Covered, HasLen, HasNum
      <4> QED  BY <1>a, <4>1, <4>2, <4>4 DEF CountsInv
    <3> QED
      BY <1>4, <3>1, <3>2, <3>3, <3>4, <3>5, ResFrame DEF WriteRecord, WriteLength
  <2>2. \A f \in Files : Covered(dl'[f])
    <3>1. \A f \in Files : dl'[f] \in {dl[f], NoRes, res[f]}
      BY <1>a, DlFrame
    <3> QED  BY <3>1, <1>b DEF CountsInv
  <2> QED  BY <1>4, <2>1, <2>2 DEF CountsInv
<1> QED  BY <1>1, <1>2, <1>3, <1>4, LagFrame

(* The three writes of parse_writeToResFile never announce more than the   *)
(* file holds, in resfiles and in the download directory, whatever crash   *)
(* or failing call cuts them, in the fields of the header that were        *)
(* written (a header cut between its writes is never completed).           *)
THEOREM CountsHold == Spec => []CountsCovered
<1>1. Init => CountsInv
  BY DEF Init, CountsInv, Covered, NoRes
<1>2. TypeOK /\ CountsInv /\ [Next]_vars => CountsInv'
  BY CountsNext
<1>3. CountsInv => CountsCovered
  BY DEF CountsInv, Covered, CountsCovered
<1> QED  BY <1>1, <1>2, <1>3, TypeCorrect, PTL DEF Spec

-----------------------------------------------------------------------------
(* The clean-up of spc_start_work.                                         *)

(* When it is reached nothing is left to remove, or a call has failed.     *)
NothingLeft == pc = "clean" => txs = {} \/ faults > 0

LEMMA LeftNext ==
  ASSUME TypeOK, NothingLeft, [Next]_vars
  PROVE  NothingLeft'
<1>1. \/ AllDone
      \/ PickFails
      \/ pc' # "clean"
      \/ UNCHANGED <<pc, txs, faults>>
  BY DEF Next, Own, Faulty, OpenFile, Parse, Loop, Sign, WriteResult,
       vars, disk, hist, StartRun, PickFile, CleanUp, OpenRefused, OpenMatch,
       OpenNoMatch, ParseFile, ParseRefused, LoopEnd, LoopVoid, LoopGet,
       LoopGetRefused, SignDone, SignRefused, WriteRefused, WriteHeader,
       WriteRecord, WriteLength, WriteNum, NextFails, SaveCounter, MoveResult,
       RemoveFile, RemoveFails, CleanFails, CallFails, WriteFails, MoveFails, Crash,
       ReturnOk, ReturnFail
<1>2. CASE AllDone
  BY <1>2 DEF AllDone, disk, NothingLeft
<1>3. CASE PickFails
  BY <1>3 DEF PickFails, Fault, TypeOK, NothingLeft
<1> QED  BY <1>1, <1>2, <1>3 DEF NothingLeft

LEMMA LeavesTxs ==
  ASSUME TypeOK, NothingLeft, [Next]_vars, NEW f \in txs \ txs'
  PROVE  (pc = "rm" /\ cur = f) \/ faults > 0
<1>1. CleanUp \/ CleanFails \/ RemoveFile
  BY DEF Next, Own, Faulty, OpenFile, Parse, Loop, Sign, WriteResult,
       vars, disk, StartRun, PickFile, AllDone, OpenRefused, OpenMatch,
       OpenNoMatch, ParseFile, ParseRefused, LoopEnd, LoopVoid, LoopGet,
       LoopGetRefused, SignDone, SignRefused, WriteRefused, WriteHeader,
       WriteRecord, WriteLength, WriteNum, NextFails, SaveCounter, MoveResult,
       RemoveFails, CleanFails, CallFails, WriteFails, MoveFails, PickFails, Crash
<1> QED  BY <1>1 DEF CleanUp, CleanFails, RemoveFile, NothingLeft

(* A transaction file leaves txfiles only at the end of its own round,     *)
(* unless a call has failed: spc_start_work's clean-up removes no file     *)
(* that the mission has not been through.                                  *)
THEOREM FilesHandled == Spec => NoFileDropped
<1>1. Init => NothingLeft
  BY DEF Init, NothingLeft
<1>2. TypeOK /\ NothingLeft /\ [Next]_vars => NothingLeft'
  BY LeftNext
<1>3. TypeOK /\ NothingLeft /\ [Next]_vars
        => [\A f \in txs \ txs' : (pc = "rm" /\ cur = f) \/ faults > 0]_vars
  BY LeavesTxs
<1> QED  BY <1>1, <1>2, <1>3, TypeCorrect, PTL DEF Spec, NoFileDropped

-----------------------------------------------------------------------------
(* Delivered results stay.                                                 *)

(* The file of a round is in txfiles; what is there, or was answered, was  *)
(* uploaded; and without crashes and faults a file that was uploaded once  *)
(* is not waiting any more when its result has been delivered.             *)
OncePerUpload ==
  /\ pc \notin {"idle", "pick", "clean"} => cur \in txs
  /\ \A f \in Files : f \in txs \/ dl[f].there => uploads[f] >= 1
  /\ \A f \in Files :
       (Undisturbed /\ uploads[f] = 1 /\ dl[f].there /\ f \in txs)
         => (pc = "rm" /\ cur = f)

LEMMA FaultSeen ==
  ASSUME TypeOK, Faulty
  PROVE  ~ Undisturbed'
<1>1. Fault \/ RemoveFails
  BY DEF Faulty, PickFails, CallFails, NextFails, WriteFails, MoveFails, CleanFails
<1>2. MaxFaults \in Nat /\ faults \in Nat
  BY ConstantsAssumption DEF ConstantsAssumption, TypeOK
<1> QED  BY <1>1, <1>2 DEF Fault, RemoveFails, Undisturbed

(* The steps of a round in which nothing moves between the directories.    *)
LEMMA StillFrame ==
  ASSUME TypeOK, [Next]_vars
  PROVE  \/ StartRun \/ PickFile \/ CleanUp \/ CleanFails \/ MoveResult
         \/ RemoveFile
         \/ /\ UNCHANGED <<txs, dl, uploads, crashes, faults>>
            /\ \/ UNCHANGED <<pc, cur>>
               \/ pc # "rm" /\ UNCHANGED cur
                  /\ pc \in {"idle", "pick", "clean"}
                  /\ pc' \in {"idle", "pick", "clean"}
               \/ pc # "rm" /\ UNCHANGED cur
                  /\ pc \notin {"idle", "pick", "clean"}
         \/ /\ UNCHANGED <<txs, dl, uploads>> /\ ~ Undisturbed'
            /\ \/ pc' \in {"idle", "pick", "clean"}
               \/ UNCHANGED cur /\ pc \notin {"idle", "pick", "clean"}
<1>1. CASE AllDone
  BY <1>1 DEF AllDone, disk, proc, hist
<1>2. CASE OpenFile \/ Parse \/ Loop \/ Sign \/ WriteResult \/ SaveCounter
  BY <1>2 DEF OpenFile, Parse, Loop, Sign, WriteResult, OpenRefused, OpenMatch,
     OpenNoMatch, ParseFile, ParseRefused, LoopEnd, LoopVoid, LoopGet,
     LoopGetRefused, SignDone, SignRefused, WriteRefused, WriteHeader,
     WriteRecord, WriteLength, WriteNum, SaveCounter, disk, proc, hist
<1>3. CASE Faulty /\ ~ CleanFails
  <2>1. UNCHANGED <<txs, dl, uploads>>
    BY <1>3 DEF Faulty, PickFails, CallFails, NextFails, WriteFails, MoveFails,
       RemoveFails, disk
  <2>2. ~ Undisturbed'
    BY <1>3, FaultSeen
  <2>3. \/ pc' \in {"idle", "pick", "clean"}
        \/ UNCHANGED cur /\ pc \notin {"idle", "pick", "clean"}
    BY <1>3 DEF Faulty, PickFails, CallFails, NextFails, WriteFails, MoveFails,
       RemoveFails, CleanFails, proc
  <2> QED  BY <2>1, <2>2, <2>3
<1>4. CASE Crash
  BY <1>4 DEF Crash, Undisturbed, TypeOK
<1>5. CASE UNCHANGED vars
  BY <1>5 DEF vars, disk, proc, hist
<1> QED  BY <1>1, <1>2, <1>3, <1>4, <1>5 DEF Next, Own

LEMMA OnceNext ==
  ASSUME TypeOK, OncePerUpload, [Next]_vars
  PROVE  OncePerUpload'
<1>a. /\ uploads \in [Files -> Nat] /\ txs \subseteq Files
      /\ dl \in [Files -> ResFile] /\ res \in [Files -> ResFile]
      /\ NoRes.there = FALSE
  BY DEF TypeOK, NoRes
<1>1. CASE StartRun
  <2>1. PICK new \in SUBSET Files, kept \in SUBSET Files :
          /\ uploads' = [f \in Files |-> IF f \in new THEN uploads[f] + 1
                                                      ELSE uploads[f]]
          /\ txs' = txs \cup new
          /\ dl' = [f \in Files |-> IF f \in kept THEN dl[f] ELSE NoRes]
    BY <1>1 DEF StartRun
  <2>2. pc = "idle" /\ pc' = "pick" /\ UNCHANGED <<crashes, faults>>
    BY <1>1 DEF StartRun
  <2>3. ASSUME NEW f \in Files, f \in txs' \/ dl'[f].there
        PROVE  uploads'[f] >= 1
    BY <1>a, <2>1, <2>3 DEF OncePerUpload
  <2>4. ASSUME NEW f \in Files, Undisturbed', uploads'[f] = 1, dl'[f].there,
               f \in txs'
        PROVE  FALSE
    <3>1. dl[f].there
      BY <1>a, <2>1, <2>4
    <3>2. uploads[f] >= 1 /\ f \notin new
      BY <1>a, <2>1, <2>4, <3>1 DEF OncePerUpload
    <3>3. uploads[f] = 1 /\ f \in txs /\ Undisturbed
      BY <2>1, <2>2, <2>4, <3>2 DEF Undisturbed
    <3> QED  BY <2>2, <3>1, <3>3 DEF OncePerUpload
  <2> QED  BY <2>2, <2>3, <2>4 DEF OncePerUpload
<1>2. CASE PickFile
  BY <1>2 DEF PickFile, Oldest, OncePerUpload, disk, hist, Undisturbed
<1>3. CASE CleanUp \/ CleanFails
  <2>1. /\ pc' = "idle" /\ txs' \subseteq txs /\ UNCHANGED <<dl, uploads>>
        /\ pc = "clean" /\ (Undisturbed' => Undisturbed)
    BY <1>3 DEF CleanUp, CleanFails, Fault, proc, hist, Undisturbed, TypeOK
  <2> QED  BY <2>1, <1>a DEF OncePerUpload
<1>4. CASE MoveResult
  <2>1. /\ cur \in txs /\ cur \in Files /\ pc' = "rm"
        /\ UNCHANGED <<txs, cur, uploads, crashes, faults>>
    BY <1>4 DEF MoveResult, OncePerUpload, TypeOK, proc, hist
  <2>2. \A f \in Files \ {cur} : dl'[f] = dl[f]
    BY <1>4, <1>a DEF MoveResult
  <2> QED  BY <2>1, <2>2, <1>4 DEF MoveResult, OncePerUpload, Undisturbed
<1>5. CASE RemoveFile
  BY <1>5 DEF RemoveFile, OncePerUpload, hist, Undisturbed
<1> QED
  BY <1>1, <1>2, <1>3, <1>4, <1>5, StillFrame DEF OncePerUpload, Undisturbed

(* A result the ground may fetch is replaced only when its file was sent   *)
(* again or a crash or failing call has left the file behind.              *)
THEOREM ResultsStay == Spec => DeliveredStays
<1> DEFINE Stays(f) ==
      (dl[f].there /\ dl'[f] # dl[f] /\ dl'[f] # NoRes)
        => (uploads[f] > 1 \/ ~ Undisturbed)
<1>1. Init => OncePerUpload
  BY DEF Init, OncePerUpload, NoRes
<1>2. TypeOK /\ OncePerUpload /\ [Next]_vars => OncePerUpload'
  BY OnceNext
<1>3. ASSUME TypeOK, OncePerUpload, [Next]_vars, NEW f \in Files
      PROVE  Stays(f)
  <2> SUFFICES ASSUME dl[f].there, dl'[f] # dl[f], dl'[f] # NoRes, Undisturbed
               PROVE  uploads[f] > 1
    OBVIOUS
  <2>1. f = cur /\ pc = "move"
    BY <1>3, DlFrame
  <2>2. f \in txs /\ uploads[f] >= 1 /\ uploads[f] # 1
    BY <1>3, <2>1 DEF OncePerUpload
  <2>3. uploads[f] \in Nat
    BY <1>3 DEF TypeOK
  <2> QED  BY <2>2, <2>3
<1>4. TypeOK /\ OncePerUpload /\ [Next]_vars => [\A f \in Files : Stays(f)]_vars
  BY <1>3
<1> QED  BY <1>1, <1>2, <1>4, TypeCorrect, PTL DEF Spec, DeliveredStays

-----------------------------------------------------------------------------
(* What a delivered result holds when nothing has failed.                  *)

(* Without crashes and faults a result file exists only in the round of    *)
(* its transaction file, between the first record and the rename.          *)
ResultStages == {"loop", "sign", "write", "rec", "len", "num", "save", "move"}

(* The records are those of the first transactions, in order. *)
Ordered(r) == r.whole /\ r.head = 3 /\ \A i \in 1 .. Len(r.recs) : r.recs[i].tx = i

Even(r) == Ordered(r) /\ r.len = Len(r.recs) /\ r.num = Len(r.recs)

(* How many of n transactions remain when w records have been written, on  *)
(* an unsigned field.                                                      *)
Left(n, w) == IF w <= n THEN n - w ELSE U32 + n - w

(* Where the file of the round stands when w records have been written.    *)
Progress(n, w, size) ==
  /\ w <= size
  /\ remain = Left(n, w)
  /\ IF pos = 0 THEN w = n ELSE pos = w + 1 /\ w < size /\ (n = 0 \/ w < n)

Written(r) == IF r.there THEN Len(r.recs) ELSE 0

RoundExact ==
  LET r == res[cur]
      n == content[cur].num
      size == Len(content[cur].body)
  IN  /\ pc \in {"loop", "sign", "write"} =>
           (r.there => Even(r)) /\ Progress(n, Written(r), size)
      /\ pc \in {"sign", "write", "rec", "len", "num"} => pos # 0
      /\ pc = "rec" => r.there /\ Even(r) /\ Progress(n, Len(r.recs), size)
      /\ pc \in {"len", "num"} =>
           /\ r.there /\ Ordered(r) /\ r.num + 1 = Len(r.recs)
           /\ r.len = IF pc = "len" THEN r.num ELSE Len(r.recs)
           /\ Progress(n, r.num, size)
      /\ pc \in {"save", "move"} => (r.there => Even(r))
      /\ pc = "save" => (r.there => r.num = n)
      /\ pc = "move" /\ cur \notin failed => (r.there => r.num = n)

DeliveredExact ==
  \A f \in Files : dl[f].there =>
    Even(dl[f]) /\ (f \notin failed => dl[f].num = content[f].num)

ExactInv ==
  Undisturbed =>
    /\ \A f \in Files : res[f].there => f = cur /\ pc \in ResultStages
    /\ RoundExact
    /\ DeliveredExact

LEMMA Calm ==
  ASSUME TypeOK, [Next]_vars, Undisturbed'
  PROVE  /\ Undisturbed
         /\ StartRun \/ Own \/ Sign \/ UNCHANGED vars
<1>1. crashes \in Nat /\ faults \in Nat
  BY DEF TypeOK
<1>2. CASE Faulty
  BY <1>2, FaultSeen
<1>3. CASE Crash
  BY <1>1, <1>3 DEF Crash, Undisturbed
<1>4. CASE StartRun \/ Own \/ Sign \/ UNCHANGED vars
  <2>1. UNCHANGED <<crashes, faults>>
    BY <1>4 DEF StartRun, Own, OpenFile, Parse, Loop, Sign,
       WriteResult, vars, hist, PickFile, AllDone, CleanUp, OpenRefused,
       OpenMatch, OpenNoMatch, ParseFile, ParseRefused, LoopEnd, LoopVoid,
       LoopGet, LoopGetRefused, SignDone, SignRefused, WriteRefused,
       WriteHeader, WriteRecord, WriteLength, WriteNum, SaveCounter,
       MoveResult, RemoveFile
  <2> QED  BY <1>4, <2>1 DEF Undisturbed
<1> QED  BY <1>2, <1>3, <1>4 DEF Next

(* A result file of the round, and its length, are numbers to count with.  *)
LEMMA RoundTypes ==
  ASSUME TypeOK, cur \in Files
  PROVE  /\ res[cur] \in ResFile /\ res[cur].recs \in Seq(Record)
         /\ Len(res[cur].recs) \in Nat /\ res[cur].len \in Nat /\ res[cur].num \in Nat
         /\ res[cur].there \in BOOLEAN
         /\ Written(res[cur]) \in Nat
         /\ content[cur].num \in Nat /\ Len(content[cur].body) \in Nat
         /\ Len(content[cur].body) < U32 /\ U32 \in Nat
         /\ pos \in Nat /\ remain \in Nat
<1>1. res[cur] \in ResFile /\ content[cur] \in Contents
  BY DEF TypeOK
<1>2. content[cur] \in TxFile /\ Len(content[cur].body) < U32 /\ U32 \in Nat
  BY <1>1, ConstantsAssumption DEF ConstantsAssumption
<1>3. /\ res[cur].recs \in Seq(Record) /\ res[cur].len \in Nat /\ res[cur].num \in Nat
      /\ res[cur].there \in BOOLEAN
  BY <1>1 DEF ResFile
<1>4. Len(res[cur].recs) \in Nat
  BY <1>3
<1>5. content[cur].body \in Seq(Entries) /\ content[cur].num \in Nat
  BY <1>2 DEF TxFile
<1>6. Len(content[cur].body) \in Nat
  BY <1>5
<1>7. Written(res[cur]) \in Nat
  BY <1>4 DEF Written
<1> QED  BY <1>1, <1>2, <1>3, <1>4, <1>5, <1>6, <1>7 DEF TypeOK

(* One more record: the unsigned field and the position keep up.           *)
LEMMA ProgressStep ==
  ASSUME NEW n \in Nat, NEW w \in Nat, NEW size \in Nat, size < U32, U32 \in Nat,
         pos \in Nat, pos # 0, Progress(n, w, size)
  PROVE  /\ Decremented = Left(n, w + 1)
         /\ w + 1 <= size /\ pos = w + 1
         /\ Decremented = 0 => w + 1 = n
         /\ Decremented # 0 => n = 0 \/ w + 1 < n
<1>1. remain = Left(n, w) /\ pos = w + 1 /\ w < size /\ (n = 0 \/ w < n)
  BY DEF Progress
<1>2. CASE n = 0
  BY <1>1, <1>2 DEF Left, Decremented
<1>3. CASE w < n
  BY <1>1, <1>3 DEF Left, Decremented
<1> QED  BY <1>1, <1>2, <1>3

(* Steps that leave the result files and their round alone.                *)
LEMMA ExactFrame ==
  ASSUME ExactInv, Undisturbed, content' = content, UNCHANGED <<res, dl>>,
         failed \subseteq failed',
         \A f \in Files : res[f].there => f = cur' /\ pc' \in ResultStages,
         RoundExact'
  PROVE  ExactInv'
<1>1. DeliveredExact'
  BY DEF ExactInv, DeliveredExact
<1> QED  BY <1>1 DEF ExactInv

LEMMA ExactNext ==
  ASSUME TypeOK, AcceptedOK, SignedOK, ExactInv, [Next]_vars
  PROVE  ExactInv'
<1> SUFFICES ASSUME Undisturbed' PROVE ExactInv'
  BY DEF ExactInv
<1>a. Undisturbed /\ (StartRun \/ Own \/ Sign \/ UNCHANGED vars)
  BY Calm
<1>b. /\ \A f \in Files : res[f].there => f = cur /\ pc \in ResultStages
      /\ RoundExact /\ DeliveredExact
  BY <1>a DEF ExactInv
<1>c. /\ pc \notin {"idle", "pick", "clean"} => cur \in Files
      /\ res \in [Files -> ResFile] /\ dl \in [Files -> ResFile]
  BY DEF TypeOK
<1>d. content' = content /\ failed \subseteq failed'
  BY CounterFrame, DlFrame DEF TypeOK
<1> DEFINE r == res[cur]
           n == content[cur].num
           size == Len(content[cur].body)
<1>1. CASE StartRun
  <2>1. PICK kept \in SUBSET Files :
          dl' = [f \in Files |-> IF f \in kept THEN dl[f] ELSE NoRes]
    BY <1>1 DEF StartRun
  <2>2. /\ pc = "idle" /\ pc' = "pick"
        /\ UNCHANGED <<res, failed>>
    BY <1>1 DEF StartRun
  <2>3. RoundExact'
    BY <2>2 DEF RoundExact
  <2>4. DeliveredExact'
    BY <1>b, <1>d, <2>1, <2>2 DEF DeliveredExact, NoRes
  <2>5. \A f \in Files : ~ res'[f].there
    BY <1>b, <2>2 DEF ResultStages
  <2> QED  BY <2>3, <2>4, <2>5 DEF ExactInv
<1>2. CASE PickFile \/ AllDone \/ CleanUp \/ OpenFile \/ ParseRefused
  <2>1. /\ pc \in {"pick", "clean", "open", "parse"} /\ UNCHANGED <<res, dl>>
        /\ pc' \in {"open", "clean", "idle", "parse", "move"}
    BY <1>2 DEF PickFile, AllDone, CleanUp, OpenFile, OpenRefused, OpenMatch,
       OpenNoMatch, ParseRefused, ReturnFail, disk
  <2>2. \A f \in Files : ~ res[f].there
    BY <1>b, <2>1 DEF ResultStages
  <2>3. pc' = "move" => cur' \in Files
    BY <1>2, <1>c DEF PickFile, AllDone, CleanUp, OpenFile, OpenRefused, OpenMatch,
       OpenNoMatch, ParseRefused, ReturnFail, proc
  <2>4. RoundExact'
    BY <2>1, <2>2, <2>3 DEF RoundExact
  <2> QED  BY <1>a, <1>d, <2>1, <2>2, <2>4, ExactFrame
<1>3. CASE ParseFile
  <2>1. /\ pc = "parse" /\ pc' = "loop" /\ UNCHANGED <<res, dl, cur>>
        /\ remain' = n /\ pos' = 1 /\ content[cur].body # <<>>
    BY <1>3 DEF ParseFile, Parsable, disk
  <2>2. cur \in Files /\ \A f \in Files : ~ res[f].there
    BY <1>b, <1>c, <2>1 DEF ResultStages
  <2>3. n \in Nat /\ size \in Nat /\ size > 0
    <3>1. content[cur].body \in Seq(Entries)
      BY <2>2, ConstantsAssumption DEF TypeOK, ConstantsAssumption, TxFile
    <3> QED  BY <2>1, <2>2, <3>1, RoundTypes
  <2>4. Progress(n, 0, size)'
    BY <1>d, <2>1, <2>3 DEF Progress, Left
  <2>5. Written(res'[cur']) = 0
    BY <2>1, <2>2 DEF Written
  <2>6. RoundExact'
    BY <1>d, <2>1, <2>2, <2>4, <2>5 DEF RoundExact
  <2> QED  BY <1>a, <1>d, <2>1, <2>2, <2>6, ExactFrame
<1>4. CASE LoopEnd \/ LoopVoid \/ LoopGet \/ LoopGetRefused \/ Sign \/ WriteRefused
           \/ SaveCounter
  <2>1. /\ UNCHANGED <<res, dl, cur, remain, pos>> /\ cur \in Files
        /\ pc \in ResultStages /\ pc' \in ResultStages
    BY <1>4, <1>c DEF LoopEnd, LoopVoid, LoopGet, LoopGetRefused, Sign, SignDone,
       SignRefused, WriteRefused, SaveCounter, disk, proc, ReturnOk, ReturnFail,
       ResultStages
  <2>2. CASE pc' \in {"sign", "write"}
    <3>1. pc \in {"loop", "sign"} /\ (pc = "loop" => ~ Finished)
      BY <1>4, <2>2 DEF LoopEnd, LoopVoid, LoopGet, LoopGetRefused, Sign, SignDone,
         SignRefused, WriteRefused, SaveCounter, ReturnOk, ReturnFail
    <3>2. Progress(n, Written(r), size) /\ (r.there => Even(r))
      BY <1>b, <3>1 DEF RoundExact
    <3>3. pos # 0
      <4>1. pos = 0 => remain = 0
        BY <2>1, <3>2, RoundTypes DEF Progress, Left
      <4> QED  BY <1>b, <3>1, <4>1 DEF Finished, RoundExact
    <3>4. Progress(n, Written(r), size)'
      BY <1>d, <2>1, <3>2 DEF Progress
    <3> QED
      BY <2>2, <1>a, <1>b, <1>d, <2>1, <3>2, <3>3, <3>4, ExactFrame DEF RoundExact
  <2>3. CASE pc' \in {"save", "move"}
    <3>1. pc \in {"loop", "sign", "write", "save"} /\ (r.there => Even(r))
      BY <1>4, <1>b DEF LoopEnd, LoopVoid, LoopGet, LoopGetRefused, Sign, SignDone,
         SignRefused, WriteRefused, SaveCounter, RoundExact
    <3>2. \/ pc = "loop" /\ Finished
          \/ pc = "save"
          \/ pc' = "move" /\ cur' \in failed'
      BY <1>4, <2>1, <2>3 DEF LoopEnd, LoopVoid, LoopGet, LoopGetRefused, Sign,
         SignDone, SignRefused, WriteRefused, SaveCounter, ReturnOk, ReturnFail
    <3>3. (pc = "loop" /\ Finished /\ r.there) => r.num = n
      BY <1>b, <2>1, RoundTypes DEF RoundExact, Finished, Progress, Written, Even
    <3>4. (pc = "save" /\ r.there) => r.num = n
      BY <1>b DEF RoundExact
    <3>5. RoundExact'
      BY <1>d, <2>1, <2>3, <3>1, <3>2, <3>3, <3>4 DEF RoundExact
    <3> QED  BY <1>a, <1>b, <1>d, <2>1, <3>5, ExactFrame
  <2> QED
    BY <1>4, <2>2, <2>3 DEF LoopEnd, LoopVoid, LoopGet, LoopGetRefused, Sign, SignDone,
         SignRefused, WriteRefused, SaveCounter, ReturnOk, ReturnFail
<1>5. CASE WriteHeader
  <2>1. /\ pc = "write" /\ pc' = "rec" /\ UNCHANGED <<dl, cur, remain, pos, failed>>
        /\ res' = [res EXCEPT ![cur] = IF @.there THEN @ ELSE EmptyRes]
        /\ cur \in Files
    BY <1>5, <1>c DEF WriteHeader, proc, hist
  <2>2. pos # 0 /\ Progress(n, Written(r), size) /\ (r.there => Even(r))
    BY <1>b, <2>1 DEF RoundExact
  <2>3. res'[cur] = (IF r.there THEN r ELSE EmptyRes)
    BY <1>c, <2>1
  <2>4. EmptyRes.there /\ Even(EmptyRes) /\ Len(EmptyRes.recs) = 0
    BY DEF EmptyRes, NoRes, Even, Ordered
  <2>5. res'[cur].there /\ Even(res'[cur]) /\ Len(res'[cur].recs) = Written(r)
    BY <2>2, <2>3, <2>4 DEF Written
  <2>6. Progress(n, Written(r), size) 
        <=> Progress(content[cur].num, Len(res[cur].recs), Len(content[cur].body))'
    BY <1>d, <2>1, <2>5 DEF Progress
  <2>7. RoundExact'
    BY <1>d, <2>1, <2>2, <2>5, <2>6 DEF RoundExact
  <2>8. \A f \in Files : res'[f].there => f = cur' /\ pc' \in ResultStages
    BY <1>b, <1>c, <2>1 DEF ResultStages
  <2>9. DeliveredExact'
    BY <1>b, <1>d, <2>1 DEF DeliveredExact
  <2> QED  BY <2>7, <2>8, <2>9 DEF ExactInv
<1>6. CASE WriteRecord
  <2>1. /\ pc = "rec" /\ pc' = "len" /\ UNCHANGED <<dl, cur, remain, pos, failed>>
        /\ cur \in Files
    BY <1>6, <1>c DEF WriteRecord, proc, hist
  <2>2. pos # 0 /\ r.there /\ Even(r) /\ Progress(n, Len(r.recs), size)
    BY <1>b, <2>1 DEF RoundExact
  <2>a. PICK t \in Shifted(Appended(r)) : res' = [res EXCEPT ![cur] = t]
    BY <1>6 DEF WriteRecord
  <2>3. /\ r \in ResFile /\ r.recs \in Seq(Record) /\ Len(r.recs) \in Nat
        /\ pos = Len(r.recs) + 1
    BY <2>1, <2>2, RoundTypes DEF Progress
  <2> DEFINE e == [tx |-> pos, val |-> val]
  <2>4. e \in Record /\ e.tx = pos
    BY DEF TypeOK, Record
  <2>b. Appended(r) = [r EXCEPT !.recs = Append(r.recs, e)]
    BY DEF Appended
  <2>c. Appended(r) \in ResFile
    BY <2>3, AppendedType DEF TypeOK
  <2> HIDE DEF e
  <2>d. /\ Appended(r).there = r.there /\ Appended(r).whole = r.whole
        /\ Appended(r).len = r.len /\ Appended(r).num = r.num
        /\ Appended(r).recs = Append(r.recs, e) /\ Appended(r).head = r.head
    BY <2>3, <2>b DEF ResFile
  <2>e. r.head = 3
    BY <2>2 DEF Even, Ordered
  <2>5. res'[cur] = t
    BY <1>c, <2>1, <2>a
  <2>6. /\ res'[cur].there = r.there /\ res'[cur].whole = r.whole
        /\ res'[cur].len = r.len /\ res'[cur].num = r.num
        /\ res'[cur].recs = Append(r.recs, e) /\ res'[cur].head = 3
    BY <2>5, <2>a, <2>c, <2>d, <2>e, ShiftedType DEF HasLen, HasNum
  <2>7. /\ Len(res'[cur].recs) = Len(r.recs) + 1
        /\ \A i \in 1 .. Len(r.recs) : res'[cur].recs[i] = r.recs[i]
        /\ res'[cur].recs[Len(r.recs) + 1] = e
    BY <2>3, <2>4, <2>6
  <2>8. Ordered(res'[cur])
    BY <2>2, <2>3, <2>4, <2>6, <2>7 DEF Even, Ordered
  <2>9. Progress(n, r.num, size)
    BY <2>2 DEF Even
  <2>10. /\ pos' # 0 /\ res'[cur'].there /\ Ordered(res'[cur'])
         /\ res'[cur'].num + 1 = Len(res'[cur'].recs) /\ res'[cur'].len = res'[cur'].num
    BY <2>1, <2>2, <2>3, <2>6, <2>7, <2>8, RoundTypes DEF Even
  <2>11. Progress(content[cur].num, res[cur].num, Len(content[cur].body))'
    BY <1>d, <2>1, <2>6, <2>9 DEF Progress
  <2>12. RoundExact'
    BY <2>1, <2>10, <2>11 DEF RoundExact
  <2>13. \A f \in Files : res'[f].there => f = cur' /\ pc' \in ResultStages
    BY <1>b, <1>c, <2>1, <2>a DEF ResultStages
  <2>14. DeliveredExact'
    BY <1>b, <1>d, <2>1 DEF DeliveredExact
  <2> QED  BY <2>12, <2>13, <2>14 DEF ExactInv
<1>7. CASE WriteLength
  <2>1. /\ pc = "len" /\ pc' = "num" /\ UNCHANGED <<dl, cur, remain, pos, failed>>
        /\ cur \in Files
    BY <1>7, <1>c DEF WriteLength, proc, hist
  <2>2. /\ pos # 0 /\ r.there /\ Ordered(r) /\ r.num + 1 = Len(r.recs) /\ r.len = r.num
        /\ Progress(n, r.num, size)
    BY <1>b, <2>1 DEF RoundExact
  <2>a. res' = [res EXCEPT ![cur].len = r.len + 1]
    <3>1. Lengthened(r) = {r.len + 1}
      BY <2>2 DEF Lengthened, HasLen, Ordered
    <3> QED  BY <1>7, <3>1 DEF WriteLength
  <2>3. res'[cur] = [r EXCEPT !.len = r.len + 1] /\ r \in ResFile
    BY <1>c, <2>1, <2>a
  <2>4. /\ res'[cur].there = r.there /\ res'[cur].whole = r.whole
        /\ res'[cur].len = r.len + 1 /\ res'[cur].num = r.num
        /\ res'[cur].recs = r.recs /\ res'[cur].head = r.head
    BY <2>3 DEF ResFile
  <2>5. /\ pos' # 0 /\ res'[cur'].there /\ Ordered(res'[cur'])
        /\ res'[cur'].num + 1 = Len(res'[cur'].recs)
        /\ res'[cur'].len = Len(res'[cur'].recs)
    BY <2>1, <2>2, <2>4 DEF Ordered
  <2>6. Progress(content[cur].num, res[cur].num, Len(content[cur].body))'
    BY <1>d, <2>1, <2>2, <2>4 DEF Progress
  <2>7. RoundExact'
    BY <2>1, <2>5, <2>6 DEF RoundExact
  <2>8. \A f \in Files : res'[f].there => f = cur' /\ pc' \in ResultStages
    BY <1>b, <1>c, <2>1, <2>a DEF ResultStages
  <2>9. DeliveredExact'
    BY <1>b, <1>d, <2>1 DEF DeliveredExact
  <2> QED  BY <2>7, <2>8, <2>9 DEF ExactInv
<1>8. CASE WriteNum
  <2>1. /\ pc = "num" /\ UNCHANGED <<dl, cur>> /\ remain' = Decremented
        /\ cur \in Files
    BY <1>8, <1>c DEF WriteNum
  <2>2. /\ pos # 0 /\ r.there /\ Ordered(r) /\ r.num + 1 = Len(r.recs)
        /\ r.len = Len(r.recs) /\ Progress(n, r.num, size)
    BY <1>b, <2>1 DEF RoundExact
  <2>a. res' = [res EXCEPT ![cur].num = r.num + 1]
    BY <1>8, <2>2 DEF WriteNum, Numbered, HasNum, Ordered
  <2>3. res'[cur] = [r EXCEPT !.num = r.num + 1] /\ r \in ResFile
    BY <1>c, <2>1, <2>a
  <2>4. /\ res'[cur].there = r.there /\ res'[cur].whole = r.whole
        /\ res'[cur].len = r.len /\ res'[cur].num = r.num + 1
        /\ res'[cur].recs = r.recs /\ res'[cur].head = r.head
    BY <2>3 DEF ResFile
  <2>5. res'[cur'].there /\ Even(res'[cur']) /\ Written(res'[cur']) = r.num + 1
    BY <2>1, <2>2, <2>4 DEF Ordered, Even, Written
  <2>6. /\ Decremented = Left(n, r.num + 1)
        /\ r.num + 1 <= size /\ pos = r.num + 1
        /\ Decremented = 0 => r.num + 1 = n
        /\ Decremented # 0 => n = 0 \/ r.num + 1 < n
    BY <2>1, <2>2, RoundTypes, ProgressStep
  <2>7. ASSUME pc' = "loop"
        PROVE  RoundExact'
    <3>1. \/ Decremented = 0 /\ pos' = 0
          \/ Decremented # 0 /\ pos < size /\ pos' = pos + 1
      BY <1>8, <2>7 DEF WriteNum, ReturnFail
    <3>2. r.num \in Nat /\ size \in Nat /\ pos \in Nat
      BY <2>1, RoundTypes
    <3>3. Progress(content[cur].num, Written(res[cur]), Len(content[cur].body))'
      BY <1>d, <2>1, <2>5, <2>6, <3>1, <3>2 DEF Progress
    <3> QED  BY <2>1, <2>5, <2>7, <3>3 DEF RoundExact
  <2>8. ASSUME pc' = "move", cur' \in failed'
        PROVE  RoundExact'
    BY <2>1, <2>5, <2>8 DEF RoundExact
  <2>9. pc' = "loop" \/ (pc' = "move" /\ cur' \in failed')
    BY <1>8 DEF WriteNum, ReturnFail
  <2>10. \A f \in Files : res'[f].there => f = cur' /\ pc' \in ResultStages
    BY <1>b, <1>c, <2>1, <2>9, <2>a DEF ResultStages
  <2>11. DeliveredExact'
    BY <1>b, <1>d, <2>1 DEF DeliveredExact
  <2> QED  BY <2>7, <2>8, <2>9, <2>10, <2>11 DEF ExactInv
<1>9. CASE MoveResult
  <2>1. /\ pc = "move" /\ pc' = "rm" /\ UNCHANGED <<cur, failed>> /\ cur \in Files
    BY <1>9, <1>c DEF MoveResult, proc, hist
  <2>2. /\ \A f \in Files : f # cur => dl'[f] = dl[f] /\ res'[f] = res[f]
        /\ ~ res'[cur].there
        /\ IF r.there THEN dl'[cur] = r ELSE dl'[cur] = dl[cur]
    BY <1>9, <1>c, <2>1 DEF MoveResult, NoRes
  <2>3. r.there => Even(r) /\ (cur \notin failed => r.num = n)
    BY <1>b, <2>1 DEF RoundExact
  <2>4. DeliveredExact'
    BY <1>b, <1>d, <2>1, <2>2, <2>3 DEF DeliveredExact
  <2>5. RoundExact'
    BY <2>1 DEF RoundExact
  <2>6. \A f \in Files : ~ res'[f].there
    BY <1>b, <2>2
  <2> QED  BY <2>4, <2>5, <2>6 DEF ExactInv
<1>10. CASE RemoveFile
  <2>1. pc = "rm" /\ pc' = "pick" /\ UNCHANGED <<res, dl>>
    BY <1>10 DEF RemoveFile
  <2>2. RoundExact' /\ \A f \in Files : ~ res[f].there
    BY <1>b, <2>1 DEF RoundExact, ResultStages
  <2> QED  BY <1>a, <1>d, <2>1, <2>2, ExactFrame
<1>11. CASE UNCHANGED vars
  <2>1. UNCHANGED <<res, dl, content, cur, pc, remain, pos, failed>>
    BY <1>11 DEF vars, disk, proc, hist
  <2>2. RoundExact'
    BY <1>b, <2>1 DEF RoundExact, Progress
  <2> QED  BY <1>a, <1>b, <1>d, <2>1, <2>2, ExactFrame
<1> QED
  BY <1>a, <1>1, <1>2, <1>3, <1>4, <1>5, <1>6, <1>7, <1>8, <1>9, <1>10, <1>11
     DEF Own, Parse, Loop, WriteResult

(* Without crashes and failing calls a delivered result holds one record   *)
(* per transaction, in the order of the file, with both header fields      *)
(* right, and all of them unless start_sign_tx_file failed on the file.    *)
THEOREM ExactResults == Spec => []ResultExact
<1>1. Init => ExactInv
  BY DEF Init, ExactInv, RoundExact, DeliveredExact, NoRes
<1>2. IInv /\ ExactInv /\ [Next]_vars => ExactInv'
  BY ExactNext DEF IInv
<1>3. ExactInv => ResultExact
  BY DEF ExactInv, ResultExact, DeliveredExact, Even, Ordered
<1> QED  BY <1>1, <1>2, <1>3, Invariance, PTL DEF Spec

====
