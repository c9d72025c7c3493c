----------------------------- MODULE TxMission -----------------------------
(***************************************************************************)
(* The signing mission of the Linux side (spc_start_mission.c): the        *)
(* transaction files left by the upload are taken oldest first, the HOTP   *)
(* check block of each is compared with a window of codes, every           *)
(* transaction in it is signed by the SpaceChain side, one record per      *)
(* transaction is appended to a result file, the server's HOTP counter is  *)
(* saved, and the result file is renamed into the download directory.      *)
(*                                                                         *)
(* Every write the program makes to the disk is a step of its own, so that *)
(* a power cycle (Crash) or a failing call (a Fails action) may fall   *)
(* between any two of them.                                                *)
(***************************************************************************)
EXTENDS Integers, Sequences, FiniteSets

CONSTANTS
  Files,        \* names of transaction files
  NoFile,       \* no transaction file
  Time,         \* Time[f]: the time stamp in the name of f
  Servers,      \* ids whose records lie inside server.list
  Contents,     \* the transaction files the ground may send
  Window,       \* HOTPTIMES: how many codes are tried
  TxsNumMax,    \* TXSNUMMAX: most transactions a file may announce
  U32,          \* number of values of a uint32_t
  Misread,      \* what bytes of a record may be read as, in place of a count
  MaxUploads,   \* bound: how often one file is uploaded
  MaxCrashes,   \* bound: power cycles
  MaxFaults     \* bound: system calls that fail

(* An entry of a file is "whole" when its data can be read and decrypted,  *)
(* "bad" when parse_getNextTx or crypt_decryptData refuses it (the data is *)
(* short or its length is no multiple of the AES block).                   *)
Entries == {"whole", "bad"}

(* What the program can tell of a transaction file: whether its server id  *)
(* and check block can be read, the id, the counter value whose HOTP code  *)
(* encrypts the check block, the number of transactions it announces, and  *)
(* the entries whose headers are really there.                             *)
TxFile == [head : BOOLEAN, server : Nat, hotp : Nat \ {0},
           num : Nat, body : Seq(Entries)]

ASSUME ConstantsAssumption ==
  /\ NoFile \notin Files
  /\ Time \in [Files -> Nat \ {0}]
  /\ Servers \subseteq Nat \ {0}
  /\ Contents \subseteq TxFile
  /\ Window \in Nat \ {0}
  /\ TxsNumMax \in Nat
  /\ U32 \in Nat /\ U32 > TxsNumMax + 1
  /\ \A c \in Contents : Len(c.body) < U32  \* found by a uint32_t offset
  /\ Misread \subseteq Nat
  /\ MaxUploads \in Nat /\ MaxCrashes \in Nat /\ MaxFaults \in Nat

VARIABLES
  \* the disk
  txs,        \* transaction/txfiles: files waiting to be signed
  content,    \* what each file holds
  counter,    \* server_counter of each record of server.list
  res,        \* transaction/resfiles: result file of each transaction file
  dl,         \* download: the result files the ground can fetch
  \* the process
  pc,         \* where spc_start_mission / start_sign_tx_file stands
  cur,        \* the file being signed
  accepted,   \* the check block matched a code of the window
  ctr,        \* info.server_counter, the copy in memory
  remain,     \* curFile.txs_remain
  pos,        \* nextTx: number of the next entry, 0 once it is cleared
  flag,       \* "a signature has failed", never reset within a file
  val,        \* the result about to be written
  \* history and bounds
  spent,      \* <<server, code>> of the files signed to the end
  failed,     \* files on which start_sign_tx_file returned -1
  uploads, crashes, faults

disk == <<txs, content, counter, res, dl>>
proc == <<cur, accepted, ctr, remain, pos, flag, val>>
hist == <<spent, failed, uploads, crashes, faults>>
vars == <<disk, pc, proc, hist>>

Record == [tx : Nat, val : {"signed", "void"}]

(* A result file: whether it exists, how many of the three writes of its   *)
(* header were made (server id, length, number), whether its bytes are a   *)
(* header and whole records, the records written to it, and what its       *)
(* length field (in records) and its tx_res_num field are read as.         *)
ResFile == [there : BOOLEAN, head : 0 .. 3, whole : BOOLEAN,
            recs : Seq(Record), len : Nat, num : Nat]
NoRes == [there |-> FALSE, head |-> 3, whole |-> TRUE, recs |-> <<>>,
          len |-> 0, num |-> 0]
EmptyRes == [NoRes EXCEPT !.there = TRUE]

(* Where a field of the header was not written, the bytes of the first     *)
(* record lie in its place.                                                *)
HasLen(r) == r.head >= 2
HasNum(r) == r.head = 3
LenField(r) == IF HasLen(r) THEN {r.len} ELSE Misread
NumField(r) == IF HasNum(r) THEN {r.num} ELSE Misread
Shifted(r) ==
  {[r EXCEPT !.len = c[1], !.num = c[2]] : c \in LenField(r) \X NumField(r)}

Init ==
  /\ txs = {}
  /\ content \in [Files -> Contents]
  /\ counter \in [Servers -> {0, 1}]   \* 0: a hole left by a burned id
  /\ res = [f \in Files |-> NoRes]
  /\ dl = [f \in Files |-> NoRes]
  /\ pc = "idle" /\ cur = NoFile
  /\ accepted = FALSE /\ ctr = 0 /\ remain = 0 /\ pos = 0
  /\ flag = FALSE /\ val = "void"
  /\ spent = {} /\ failed = {}
  /\ uploads = [f \in Files |-> 0]
  /\ crashes = 0 /\ faults = 0

-----------------------------------------------------------------------------
(* A run of the program.                                                   *)

(* spc_start_work: an upload has been unpacked into txfiles (files left by *)
(* an earlier run are still there), and spc_do_keep has removed from the   *)
(* download directory what the keep list does not name.                    *)
StartRun ==
  /\ pc = "idle"
  /\ \E new, kept \in SUBSET Files :
       /\ \A f \in new : uploads[f] < MaxUploads
       /\ uploads' = [f \in Files |-> IF f \in new THEN uploads[f] + 1
                                                   ELSE uploads[f]]
       /\ txs' = txs \cup new
       /\ dl' = [f \in Files |-> IF f \in kept THEN dl[f] ELSE NoRes]
  /\ pc' = "pick"
  /\ UNCHANGED <<content, counter, res, proc, spent, failed, crashes, faults>>

(* _getNextTxFile: a file with the smallest time stamp. *)
Oldest == {f \in txs : \A g \in txs : Time[f] <= Time[g]}

PickFile ==
  /\ pc = "pick"
  /\ \E f \in Oldest : cur' = f
  /\ pc' = "open"
  /\ UNCHANGED <<disk, hist, accepted, ctr, remain, pos, flag, val>>

(* Mutant: the loop ends after one file. *)
AllDoneEarly ==
  /\ pc = "pick"
  /\ pc' = "clean"
  /\ UNCHANGED <<disk, proc, hist>>

AllDone ==
  /\ pc = "pick" /\ txs = {}
  /\ pc' = "clean"
  /\ UNCHANGED <<disk, proc, hist>>

(* The end of spc_start_work: every file left in txfiles is removed. *)
CleanUp ==
  /\ pc = "clean"
  /\ txs' = {}
  /\ pc' = "idle"
  /\ UNCHANGED <<content, counter, res, dl, proc, hist>>

-----------------------------------------------------------------------------
(* start_sign_tx_file.                                                     *)

(* Its two ways out; both lead to the rename of the result file. *)
ReturnOk   == pc' = "move" /\ UNCHANGED failed
ReturnFail == pc' = "move" /\ failed' = failed \cup {cur}

CurServer == content[cur].server
CurHotp == content[cur].hotp

(* parse_getCheckBlock, server_getServerInfo and hotp_genNHotp. *)
Readable ==
  /\ content[cur].head
  /\ CurServer \in Servers
  /\ counter[CurServer] # 0

(* Mutant: codes below the counter are tried too. *)
InWindowBelow == CurHotp <= counter[CurServer] + Window - 1

InWindow == CurHotp \in counter[CurServer] .. counter[CurServer] + Window - 1

OpenRefused ==
  /\ pc = "open" /\ ~ Readable
  /\ ReturnFail
  /\ UNCHANGED <<disk, proc, spent, uploads, crashes, faults>>

(* Mutant: += k. *)
NextCounterSame == CurHotp

(* The code at distance k matches: info.server_counter += k + 1. *)
NextCounter == CurHotp + 1

OpenMatch ==
  /\ pc = "open" /\ Readable /\ InWindow
  /\ accepted' = TRUE
  /\ ctr' = NextCounter
  /\ pc' = "parse"
  /\ UNCHANGED <<disk, cur, remain, pos, flag, val, hist>>

OpenNoMatch ==
  /\ pc = "open" /\ Readable /\ ~ InWindow
  /\ accepted' = FALSE
  /\ ctr' = counter[CurServer]
  /\ pc' = "parse"
  /\ UNCHANGED <<disk, cur, remain, pos, flag, val, hist>>

(* parse_parseTxFile: the first entry's header is read even from a file    *)
(* that announces no transaction.                                          *)
Parsable == content[cur].num <= TxsNumMax /\ content[cur].body # <<>>

ParseFile ==
  /\ pc = "parse" /\ Parsable
  /\ remain' = content[cur].num
  /\ pos' = 1
  /\ flag' = FALSE
  /\ pc' = "loop"
  /\ UNCHANGED <<disk, cur, accepted, ctr, val, hist>>

ParseRefused ==
  /\ pc = "parse" /\ ~ Parsable
  /\ ReturnFail
  /\ UNCHANGED <<disk, proc, spent, uploads, crashes, faults>>

(* The test both loops start with. *)
Finished == remain = 0 /\ pos = 0

(* Mutant: server_setServerInfo is not called. *)
LoopEndUnsaved ==
  /\ pc = "loop" /\ Finished
  /\ ReturnOk
  /\ UNCHANGED <<disk, proc, spent, uploads, crashes, faults>>

LoopEnd ==
  /\ pc = "loop" /\ Finished
  /\ \/ accepted /\ pc' = "save" /\ UNCHANGED failed
     \/ ~ accepted /\ ReturnOk
  /\ UNCHANGED <<disk, proc, spent, uploads, crashes, faults>>

(* No code of the window matched: a void record for every transaction. *)
LoopVoid ==
  /\ pc = "loop" /\ ~ Finished /\ ~ accepted
  /\ val' = "void"
  /\ pc' = "write"
  /\ UNCHANGED <<disk, cur, accepted, ctr, remain, pos, flag, hist>>

(* parse_getNextTx and crypt_decryptData. *)
Gettable == remain # 0 /\ content[cur].body[pos] = "whole"

LoopGet ==
  /\ pc = "loop" /\ ~ Finished /\ accepted /\ Gettable
  /\ pc' = "sign"
  /\ UNCHANGED <<disk, proc, hist>>

LoopGetRefused ==
  /\ pc = "loop" /\ ~ Finished /\ accepted /\ ~ Gettable
  /\ ReturnFail
  /\ UNCHANGED <<disk, proc, spent, uploads, crashes, faults>>

(* sign_signTransaction: the SpaceChain side may refuse. *)
SignDone ==
  /\ pc = "sign"
  /\ val' = "signed"
  /\ pc' = "write"
  /\ UNCHANGED <<disk, cur, accepted, ctr, remain, pos, flag, hist>>

SignRefused ==
  /\ pc = "sign"
  /\ val' = "void" /\ flag' = TRUE
  /\ pc' = "write"
  /\ UNCHANGED <<disk, cur, accepted, ctr, remain, pos, hist>>

-----------------------------------------------------------------------------
(* parse_writeToResFile.                                                   *)

(* A result of some length with no data is refused: the flag of an earlier *)
(* failure has set the pointer to NULL.                                    *)
WriteRefused ==
  /\ pc = "write" /\ val = "signed" /\ flag
  /\ ReturnFail
  /\ UNCHANGED <<disk, proc, spent, uploads, crashes, faults>>

(* The result file is created with its header, or opened to append: that   *)
(* a file which is there has a whole header is not looked at.              *)
WriteHeader ==
  /\ pc = "write" /\ ~ (val = "signed" /\ flag)
  /\ res' = [res EXCEPT ![cur] = IF @.there THEN @ ELSE EmptyRes]
  /\ pc' = "rec"
  /\ UNCHANGED <<txs, content, counter, dl, proc, hist>>

(* Mutant: the file is opened without O_APPEND. *)
Overwritten(r) == [r EXCEPT !.recs = <<[tx |-> pos, val |-> val]>>]

Appended(r) == [r EXCEPT !.recs = Append(@, [tx |-> pos, val |-> val])]

WriteRecord ==
  /\ pc = "rec"
  /\ \E r \in Shifted(Appended(res[cur])) : res' = [res EXCEPT ![cur] = r]
  /\ pc' = "len"
  /\ UNCHANGED <<txs, content, counter, dl, proc, hist>>

(* Both fields are read at their places, incremented and written back.     *)
Lengthened(r) == IF HasLen(r) THEN {r.len + 1} ELSE Misread
Numbered(r) == IF HasNum(r) THEN {r.num + 1} ELSE Misread

WriteLength ==
  /\ pc = "len"
  /\ \E l \in Lengthened(res[cur]) : res' = [res EXCEPT ![cur].len = l]
  /\ pc' = "num"
  /\ UNCHANGED <<txs, content, counter, dl, proc, hist>>

(* Mutant: the field is taken for a signed one. *)
DecrementedSigned == remain - 1

(* curFile.txs_remain += -1, on an unsigned field. *)
Decremented == IF remain = 0 THEN U32 - 1 ELSE remain - 1

(* tx_res_num is written; then nextTx is cleared after the last            *)
(* transaction, or moved by _moveToNextTx, which fails when the next       *)
(* header is not there.                                                    *)
WriteNum ==
  /\ pc = "num"
  /\ \E n \in Numbered(res[cur]) : res' = [res EXCEPT ![cur].num = n]
  /\ remain' = Decremented
  /\ \/ /\ Decremented = 0
        /\ pos' = 0
        /\ pc' = "loop" /\ UNCHANGED failed
     \/ /\ Decremented # 0 /\ pos < Len(content[cur].body)
        /\ pos' = pos + 1
        /\ pc' = "loop" /\ UNCHANGED failed
     \/ /\ Decremented # 0 /\ pos >= Len(content[cur].body)
        /\ UNCHANGED pos
        /\ ReturnFail
  /\ UNCHANGED <<txs, content, counter, dl, cur, accepted, ctr, flag, val,
                 spent, uploads, crashes, faults>>

-----------------------------------------------------------------------------
(* The end of start_sign_tx_file and of a round of spc_start_mission.      *)

(* server_setServerInfo. *)
SaveCounter ==
  /\ pc = "save"
  /\ counter' = [counter EXCEPT ![CurServer] = ctr]
  /\ spent' = spent \cup {<<CurServer, CurHotp>>}
  /\ ReturnOk
  /\ UNCHANGED <<txs, content, res, dl, proc, uploads, crashes, faults>>

(* rename(resFilePath, downloadFilePath), on both ways out. *)
MoveResult ==
  /\ pc = "move"
  /\ IF res[cur].there
       THEN /\ dl' = [dl EXCEPT ![cur] = res[cur]]
            /\ res' = [res EXCEPT ![cur] = NoRes]
       ELSE UNCHANGED <<dl, res>>
  /\ pc' = "rm"
  /\ UNCHANGED <<txs, content, counter, proc, hist>>

(* What a process keeps in memory is gone at the end of a round. *)
Forget ==
  /\ cur' = NoFile
  /\ accepted' = FALSE /\ ctr' = 0 /\ remain' = 0 /\ pos' = 0
  /\ flag' = FALSE /\ val' = "void"

(* Mutant: only a file that failed is removed. *)
RemoveFailedOnly ==
  /\ pc = "rm"
  /\ txs' = txs \ ({cur} \cap failed)
  /\ pc' = "pick" /\ Forget
  /\ UNCHANGED <<content, counter, res, dl, hist>>

(* fileops_rmTxFile. *)
RemoveFile ==
  /\ pc = "rm"
  /\ txs' = txs \ {cur}
  /\ pc' = "pick" /\ Forget
  /\ UNCHANGED <<content, counter, res, dl, hist>>

-----------------------------------------------------------------------------
(* Failing system calls.                                                   *)

Fault == faults < MaxFaults /\ faults' = faults + 1

(* The directory cannot be read or a path cannot be made: the loop ends as *)
(* if every file were done, and what is left in txfiles is then removed.   *)
PickFails ==
  /\ pc = "pick"
  /\ Fault
  /\ pc' = "clean"
  /\ UNCHANGED <<disk, proc, spent, failed, uploads, crashes>>

(* A file or server.list cannot be opened, read or written. *)
CallFails ==
  /\ \/ pc \in {"open", "parse", "save"}
     \/ pc = "loop" /\ ~ Finished /\ accepted
  /\ Fault /\ ReturnFail
  /\ UNCHANGED <<disk, proc, spent, uploads, crashes>>

(* The step that adds bytes to the result file, and what is left of them   *)
(* when it stops half way: part of a record, or part of a header.          *)
Writing == pc = "rec" \/ (pc = "write" /\ ~ res[cur].there)
Torn(r) ==
  IF r.there THEN Shifted([r EXCEPT !.whole = FALSE])
             ELSE {[EmptyRes EXCEPT !.head = h, !.whole = FALSE] : h \in 0 .. 2}
TornWrite ==
  Writing /\ \E r \in Torn(res[cur]) : res' = [res EXCEPT ![cur] = r]

(* A write to the result file fails, at once or half way through. *)
WriteFails ==
  /\ pc \in {"write", "rec", "len", "num"}
  /\ ~ (pc = "write" /\ val = "signed" /\ flag)
  /\ Fault /\ ReturnFail
  /\ \/ UNCHANGED res
     \/ TornWrite
  /\ UNCHANGED <<txs, content, counter, dl, proc, spent, uploads, crashes>>

(* The result is written, and _moveToNextTx cannot open the file. *)
NextFails ==
  /\ pc = "num" /\ Decremented # 0
  /\ Fault /\ ReturnFail
  /\ \E n \in Numbered(res[cur]) : res' = [res EXCEPT ![cur].num = n]
  /\ remain' = Decremented
  /\ UNCHANGED <<txs, content, counter, dl, cur, accepted, ctr, pos, flag,
                 val, spent, uploads, crashes>>

(* rename fails: the result stays in resfiles, and that is only logged. *)
MoveFails ==
  /\ pc = "move" /\ res[cur].there
  /\ Fault
  /\ pc' = "rm"
  /\ UNCHANGED <<disk, proc, spent, failed, uploads, crashes>>

(* remove fails: only logged, the file is found again by the next round.   *)
(* What makes it fail may last (a file system that has become read-only),  *)
(* so it fails as often as it likes.                                       *)
RemoveFails ==
  /\ pc = "rm"
  /\ MaxFaults > 0
  /\ faults' = IF faults < MaxFaults THEN faults + 1 ELSE faults
  /\ pc' = "pick" /\ Forget
  /\ UNCHANGED <<disk, spent, failed, uploads, crashes>>

(* The result of the system() call that empties txfiles is not looked at.  *)
CleanFails ==
  /\ pc = "clean"
  /\ Fault
  /\ \E gone \in SUBSET txs : txs' = txs \ gone
  /\ pc' = "idle"
  /\ UNCHANGED <<content, counter, res, dl, proc, spent, failed, uploads, crashes>>

(* A power cycle, or the process is killed (SIGPIPE on the connection to   *)
(* the SpaceChain side): the disk stays; a write in progress may be cut.   *)
Crash ==
  /\ pc # "idle" /\ crashes < MaxCrashes
  /\ crashes' = crashes + 1
  /\ \/ UNCHANGED res
     \/ TornWrite
  /\ pc' = "idle" /\ Forget
  /\ UNCHANGED <<txs, content, counter, dl, spent, failed, uploads, faults>>

-----------------------------------------------------------------------------
OpenFile == OpenRefused \/ OpenMatch \/ OpenNoMatch
Parse == ParseFile \/ ParseRefused
Loop == LoopEnd \/ LoopVoid \/ LoopGet \/ LoopGetRefused
Sign == SignDone \/ SignRefused
WriteResult == WriteRefused \/ WriteHeader \/ WriteRecord \/ WriteLength
               \/ WriteNum
Faulty == PickFails \/ CallFails \/ NextFails \/ WriteFails \/ MoveFails
          \/ RemoveFails \/ CleanFails

(* What the program does by itself, without waiting for anyone. *)
Own == OpenFile \/ Parse \/ Loop \/ WriteResult \/ SaveCounter \/ MoveResult
       \/ RemoveFile \/ PickFile \/ AllDone \/ CleanUp

Next == StartRun \/ Own \/ Sign \/ Faulty \/ Crash

(* Uploads and power cycles come from outside. A run, once started, is one *)
(* sequential program and takes its next step, but for the answer of the   *)
(* SpaceChain side: it is waited for without a timeout, and may not come.  *)
Spec == Init /\ [][Next]_vars
FairSpec == Spec /\ WF_vars(Own)

-----------------------------------------------------------------------------
(* Properties.                                                             *)

Stages == {"idle", "pick", "clean", "open", "parse", "loop", "sign", "write",
           "rec", "len", "num", "save", "move", "rm"}

(* Type invariant; remain and pos stay naturals although the count of      *)
(* transactions is decremented at zero (parse_writeToResFile).             *)
TypeOK ==
  /\ txs \subseteq Files
  /\ content \in [Files -> Contents]
  /\ counter \in [Servers -> Nat]
  /\ res \in [Files -> ResFile] /\ dl \in [Files -> ResFile]
  /\ pc \in Stages
  /\ cur \in Files \cup {NoFile}
  /\ pc \notin {"idle", "pick", "clean"} => cur \in Files
  /\ accepted \in BOOLEAN /\ flag \in BOOLEAN
  /\ ctr \in Nat /\ remain \in Nat /\ pos \in Nat
  /\ val \in {"signed", "void"}
  /\ spent \subseteq Servers \X Nat
  /\ failed \subseteq Files
  /\ uploads \in [Files -> Nat]
  /\ crashes \in Nat /\ faults \in Nat

(* A code that has signed a file to the end lies below the counter saved   *)
(* on the disk, whatever crashes and failing calls came in between.        *)
SpentBelowCounter == \A p \in spent : p[2] < counter[p[1]]

(* A code that has signed a file to the end never signs another record:    *)
(* start_sign_tx_file's window starts above it for ever.                   *)
NoReplay ==
  [][(pc = "rec" /\ val = "signed" /\ res' # res)
       => <<CurServer, CurHotp>> \notin spent]_vars

(* The counter in server.list never goes back while the secret is kept.    *)
CounterMonotone == [][\A s \in Servers : counter'[s] >= counter[s]]_vars

Signed(r) == \E i \in 1 .. Len(r.recs) : r.recs[i].val = "signed"

(* A result that carries a signature is in the download directory while    *)
(* its code is still at or above the counter only if start_sign_tx_file    *)
(* returned -1 for that file: no order of crashes, retries and uploads     *)
(* delivers a file whose round went well before its code is spent.         *)
UnspentMeansFailed ==
  \A f \in Files :
    (Signed(dl[f]) /\ content[f].hotp >= counter[content[f].server])
      => f \in failed

Undisturbed == crashes = 0 /\ faults = 0

(* Without crashes and faults a delivered result holds one record per      *)
(* transaction, in the order of the file, its two header fields agree      *)
(* with its records, and it is complete unless signing has failed.         *)
ResultExact ==
  Undisturbed =>
    \A f \in Files : dl[f].there =>
      /\ dl[f].whole /\ dl[f].head = 3
      /\ \A i \in 1 .. Len(dl[f].recs) : dl[f].recs[i].tx = i
      /\ dl[f].len = Len(dl[f].recs) /\ dl[f].num = Len(dl[f].recs)
      /\ f \notin failed => dl[f].num = content[f].num

(* The three writes of parse_writeToResFile come in an order that never    *)
(* announces more than the file holds, whatever crash or failing write     *)
(* cuts them and however often the file is appended to, as far as the      *)
(* fields of its header were written: a header cut in two is never made    *)
(* whole, and the fields that are missing are read from its first record.  *)
CountsCovered ==
  \A f \in Files : \A r \in {res[f], dl[f]} :
    /\ HasLen(r) => r.len <= Len(r.recs)
    /\ HasNum(r) => r.num <= r.len

(* A result the ground may fetch is not replaced by another one, unless    *)
(* its file was sent again or a crash or fault left the file behind.       *)
DeliveredStays ==
  [][\A f \in Files :
       (dl[f].there /\ dl'[f] # dl[f] /\ dl'[f] # NoRes)
         => (uploads[f] > 1 \/ ~ Undisturbed)]_vars

(* A transaction file leaves txfiles only when its own round has ended,    *)
(* unless a call has failed: the clean-up of spc_start_work takes none.    *)
NoFileDropped ==
  [][\A f \in txs \ txs' : (pc = "rm" /\ cur = f) \/ faults > 0]_vars

(* A run that does not end waits for the SpaceChain side for ever, or      *)
(* signs the same files again and again because they cannot be removed:    *)
(* neither loop of start_sign_tx_file goes on for ever, not even on files  *)
(* that announce no transaction, and no other failure repeats a file.      *)
EveryRunEnds ==
  \/ <>[](pc = "sign")
  \/ []<><<RemoveFails>>_vars
  \/ (pc # "idle") ~> (pc = "idle")

(* parse_writeToResFile rejects an invalid remain value: what remains      *)
(* never exceeds what the file announces. (It does, see the README.)       *)
RemainValid == pc = "loop" => remain <= content[cur].num

====
