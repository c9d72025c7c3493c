----------------------------- MODULE Work_proofs -----------------------------
(***************************************************************************)
(* A run of the Linux side, for any files, uploads, crashes and faults:    *)
(* only what was vouched for is used, no command is carried out twice, and *)
(* a data file leaves the upload directory for a reason.                   *)
(***************************************************************************)
EXTENDS Work, FiniteSetTheorems, TLAPS

-----------------------------------------------------------------------------
(* The invariant.                                                          *)

Unpacking == {"keep", "txs", "cmds"}

(* A number on the disk or in memory is that of an upload, or zero.        *)
Numbered ==
  /\ sent \in Seq(Uploads)
  /\ updir \subseteq 1 .. Len(sent)
  /\ temp \in 0 .. Len(sent)
  /\ txs \in [TxFiles -> 0 .. Len(sent)]
  /\ cmds \in [CmdFiles -> 0 .. Len(sent)]
  /\ \A p \in signed \cup done : p[2] \in 1 .. Len(sent)
  /\ pc = "take" => cur[2] \in updir
  /\ at \in Nat \ {0}
  /\ pc \in Unpacking => temp # 0
  /\ pc = "exec" => cur \in CmdFiles \X (1 .. Len(sent))

Checked(u, ups) == u # 0 => ups[u].sound

(* What is there came in uploads that were vouched for.                    *)
VouchedUse ==
  /\ Checked(temp, sent)
  /\ \A f \in TxFiles : Checked(txs[f], sent)
  /\ \A c \in CmdFiles : Checked(cmds[c], sent)
  /\ \A p \in signed \cup done : Checked(p[2], sent)
  /\ pc \in {"take", "exec"} => Checked(cur[2], sent)

(* A data file that still waits has not been unpacked; one that is being   *)
(* unpacked has had no command carried out; and a command that has been    *)
(* carried out is not there from the same upload.                          *)
Fresh ==
  /\ temp \notin updir
  /\ \A c \in CmdFiles : cmds[c] \notin updir
  /\ \A p \in done : p[1] \in CmdFiles /\ p[2] \notin updir /\ cmds[p[1]] # p[2]
  /\ pc \in Unpacking => \A p \in done : p[2] # temp
  /\ pc = "exec" => /\ cur[2] \notin updir /\ cur \notin done
                    /\ cmds[cur[1]] # cur[2]

WorkInv == Numbered /\ VouchedUse /\ Fresh

-----------------------------------------------------------------------------
(* Which steps change what.                                                *)

LEMMA SentFrame ==
  ASSUME [Next]_vars
  PROVE  Send \/ UNCHANGED sent
  BY DEF Next, Run, Faulty, Prepare, Keep, Mission, Commands, vars, disk, inbox,
         CheckDataFile, FindSound, FindUnsound, TakeDataFile, PrepareFails,
         GenKeepList, GenTxFile, GenTxFilesDone, GenCmdFile, GenCmdFilesDone,
         MoveToTrash, RestoreOne, Restored, WipeTrash, SignFile, RemoveTxFile,
         MissionDone, TakeCmd, Execute, CleanUp, PrepareFault, RestoreFault,
         MissionFault, RemoveFault, CmdFault, TrashFault, RenameFault,
         WipeFault, CleanFault, CleanedPartly, Crash

LEMMA UpdirFrame ==
  ASSUME [Next]_vars
  PROVE  \/ Send \/ UNCHANGED updir
         \/ TakeDataFile
         \/ pc = "docmd" /\ pc' = "idle" /\ updir' \subseteq updir
  BY DEF Next, Run, Faulty, Prepare, Keep, Mission, Commands, vars, disk, inbox,
         CheckDataFile, FindSound, FindUnsound, PrepareFails,
         GenKeepList, GenTxFile, GenTxFilesDone, GenCmdFile, GenCmdFilesDone,
         MoveToTrash, RestoreOne, Restored, WipeTrash, SignFile, RemoveTxFile,
         MissionDone, TakeCmd, Execute, CleanUp, PrepareFault, RestoreFault,
         MissionFault, RemoveFault, CmdFault, TrashFault, RenameFault,
         WipeFault, CleanFault, CleanedPartly, Crash, Return

LEMMA TempFrame ==
  ASSUME [Next]_vars
  PROVE  TakeDataFile \/ UNCHANGED temp
  BY DEF Next, Run, Faulty, Prepare, Keep, Mission, Commands, vars, disk, inbox,
         Send, CheckDataFile, FindSound, FindUnsound, PrepareFails,
         GenKeepList, GenTxFile, GenTxFilesDone, GenCmdFile, GenCmdFilesDone,
         MoveToTrash, RestoreOne, Restored, WipeTrash, SignFile, RemoveTxFile,
         MissionDone, TakeCmd, Execute, CleanUp, PrepareFault, RestoreFault,
         MissionFault, RemoveFault, CmdFault, TrashFault, RenameFault,
         WipeFault, CleanFault, CleanedPartly, Crash

LEMMA TxsFrame ==
  ASSUME [Next]_vars
  PROVE  \/ UNCHANGED txs \/ GenTxFile
         \/ \E f : txs' = [txs EXCEPT ![f] = 0]
         \/ txs' = [f \in TxFiles |-> 0]
         \/ \E gone \in SUBSET TxFiles :
              txs' = [f \in TxFiles |-> IF f \in gone THEN 0 ELSE txs[f]]
  BY DEF Next, Run, Faulty, Prepare, Keep, Mission, Commands, vars, disk,
         unpacked, Send, CheckDataFile, FindSound, FindUnsound, TakeDataFile,
         PrepareFails, GenKeepList, GenTxFilesDone, GenCmdFile, GenCmdFilesDone,
         MoveToTrash, RestoreOne, Restored, WipeTrash, SignFile, RemoveTxFile,
         MissionDone, TakeCmd, Execute, CleanUp, PrepareFault, RestoreFault,
         MissionFault, RemoveFault, CmdFault, TrashFault, RenameFault,
         WipeFault, CleanFault, CleanedPartly, Crash

LEMMA CmdsFrame ==
  ASSUME [Next]_vars
  PROVE  \/ UNCHANGED cmds \/ GenCmdFile
         \/ \E c : cmds' = [cmds EXCEPT ![c] = 0]
  BY DEF Next, Run, Faulty, Prepare, Keep, Mission, Commands, vars, disk,
         unpacked, Send, CheckDataFile, FindSound, FindUnsound, TakeDataFile,
         PrepareFails, GenKeepList, GenTxFile, GenTxFilesDone, GenCmdFilesDone,
         MoveToTrash, RestoreOne, Restored, WipeTrash, SignFile, RemoveTxFile,
         MissionDone, TakeCmd, Execute, CleanUp, PrepareFault, RestoreFault,
         MissionFault, RemoveFault, CmdFault, TrashFault, RenameFault,
         WipeFault, CleanFault, CleanedPartly, Crash

LEMMA HistFrame ==
  ASSUME [Next]_vars
  PROVE  UNCHANGED <<signed, done>> \/ SignFile \/ Execute
  BY DEF Next, Run, Faulty, Prepare, Keep, Mission, Commands, vars, hist, Goto,
         Return, Send, CheckDataFile, FindSound, FindUnsound, TakeDataFile,
         PrepareFails, GenKeepList, GenTxFile, GenTxFilesDone, GenCmdFile,
         GenCmdFilesDone, MoveToTrash, RestoreOne, Restored, WipeTrash,
         RemoveTxFile, MissionDone, TakeCmd, CleanUp, PrepareFault,
         RestoreFault, MissionFault, RemoveFault, CmdFault, TrashFault, RenameFault,
         WipeFault, CleanFault, CleanedPartly, Crash

(* Where a data file or a command is held, and where one is unpacked.      *)
LEMMA PcFrame ==
  ASSUME [Next]_vars
  PROVE  /\ pc' = "take" => FindSound \/ (pc = "take" /\ UNCHANGED <<cur, disk>>)
                            \/ (pc = "take" /\ UNCHANGED cur /\ Send)
         /\ pc' \in Unpacking => TakeDataFile \/ pc \in Unpacking
         /\ at' \in {1, at, at + 1}
         /\ pc' = "exec" => TakeCmd \/ (pc = "exec" /\ UNCHANGED cur)
  BY DEF Next, Run, Faulty, Prepare, Keep, Mission, Commands, vars, proc, Goto,
         Return, Unpacking, Send, CheckDataFile, FindUnsound,
         PrepareFails, GenKeepList, GenTxFile, GenTxFilesDone, GenCmdFile,
         GenCmdFilesDone, MoveToTrash, RestoreOne, Restored, WipeTrash, SignFile,
         RemoveTxFile, MissionDone, Execute, CleanUp, PrepareFault, TakeDataFile,
         RestoreFault, MissionFault, RemoveFault, CmdFault, TrashFault, RenameFault,
         WipeFault, CleanFault, CleanedPartly, Crash, FindSound,
         TakeCmd

-----------------------------------------------------------------------------
(* The invariant is kept.                                                  *)

(* What has been sent stays.                                               *)
LEMMA SentGrows ==
  ASSUME sent \in Seq(Uploads), [Next]_vars
  PROVE  /\ sent' \in Seq(Uploads)
         /\ Len(sent) \in Nat /\ Len(sent') \in Nat /\ Len(sent) <= Len(sent')
         /\ \A u \in 1 .. Len(sent) : sent'[u] = sent[u]
<1>1. CASE Send
  <2>1. PICK u \in Uploads : sent' = Append(sent, u)
    BY <1>1 DEF Send
  <2>2. Len(sent') = Len(sent) + 1 /\ Len(sent) \in Nat
    BY <2>1
  <2>3. \A n \in 1 .. Len(sent) : Append(sent, u)[n] = sent[n]
    OBVIOUS
  <2> QED  BY <2>1, <2>2, <2>3
<1>2. CASE UNCHANGED sent
  BY <1>2
<1> QED  BY <1>1, <1>2, SentFrame

(* The files a section names are files of the two kinds.                   *)
LEMMA SectionTyped ==
  ASSUME Numbered, temp # 0, at \in Nat \ {0}
  PROVE  /\ at <= Len(sent[temp].txs) => sent[temp].txs[at] \in TxFiles
         /\ at <= Len(sent[temp].cmds) => sent[temp].cmds[at] \in CmdFiles
<1>1. sent[temp] \in Uploads
  BY DEF Numbered
<1>2. sent[temp].txs \in Seq(TxFiles) /\ sent[temp].cmds \in Seq(CmdFiles)
  BY <1>1, WorkAssumption DEF Upload
<1>3. \A s \in Seq(TxFiles) : at <= Len(s) => s[at] \in TxFiles
  OBVIOUS
<1>4. \A s \in Seq(CmdFiles) : at <= Len(s) => s[at] \in CmdFiles
  OBVIOUS
<1> QED  BY <1>2, <1>3, <1>4

LEMMA NumberedKept ==
  ASSUME Numbered, [Next]_vars
  PROVE  Numbered'
<1>a. /\ sent' \in Seq(Uploads)
      /\ Len(sent) \in Nat /\ Len(sent') \in Nat /\ Len(sent) <= Len(sent')
  BY SentGrows DEF Numbered
<1>b. /\ 0 .. Len(sent) \subseteq 0 .. Len(sent')
      /\ 1 .. Len(sent) \subseteq 1 .. Len(sent')
  BY <1>a
<1>c. /\ updir \subseteq 1 .. Len(sent) /\ temp \in 0 .. Len(sent)
      /\ txs \in [TxFiles -> 0 .. Len(sent)]
      /\ cmds \in [CmdFiles -> 0 .. Len(sent)]
      /\ \A p \in signed \cup done : p[2] \in 1 .. Len(sent)
  BY DEF Numbered
<1>d. TakeDataFile => temp' = cur[2] /\ cur[2] \in 1 .. Len(sent)
  BY DEF TakeDataFile, Numbered
<1>1. updir' \subseteq 1 .. Len(sent')
  <2>1. CASE Send
    <3>1. Len(sent') \in 1 .. Len(sent')
      BY <2>1, <1>a DEF Send, Numbered
    <3> QED  BY <2>1, <3>1, <1>b, <1>c DEF Send
  <2>2. CASE updir' \subseteq updir
    BY <2>2, <1>b, <1>c
  <2> QED  BY <2>1, <2>2, UpdirFrame DEF TakeDataFile
<1>2. temp' \in 0 .. Len(sent')
  <2>1. CASE TakeDataFile
    BY <2>1, <1>a, <1>d
  <2>2. CASE UNCHANGED temp
    BY <2>2, <1>b, <1>c
  <2> QED  BY <2>1, <2>2, TempFrame
<1>3. txs' \in [TxFiles -> 0 .. Len(sent')]
  <2>1. CASE GenTxFile
    BY <2>1, <1>b, <1>c DEF GenTxFile
  <2>2. CASE \E f : txs' = [txs EXCEPT ![f] = 0]
    <3>1. PICK f : txs' = [txs EXCEPT ![f] = 0]
      BY <2>2
    <3>2. 0 \in 0 .. Len(sent') /\ txs \in [TxFiles -> 0 .. Len(sent')]
      BY <1>a, <1>b, <1>c
    <3>3. CASE f \in TxFiles  BY <3>1, <3>2, <3>3
    <3>4. CASE f \notin TxFiles  BY <3>1, <3>2, <3>4
    <3> QED  BY <3>3, <3>4
  <2>3. CASE UNCHANGED txs \/ txs' = [f \in TxFiles |-> 0]
    BY <2>3, <1>a, <1>b, <1>c
  <2>4. CASE \E gone \in SUBSET TxFiles :
               txs' = [f \in TxFiles |-> IF f \in gone THEN 0 ELSE txs[f]]
    BY <2>4, <1>a, <1>b, <1>c
  <2> QED  BY <2>1, <2>2, <2>3, <2>4, TxsFrame
<1>4. cmds' \in [CmdFiles -> 0 .. Len(sent')]
  <2>1. CASE GenCmdFile
    BY <2>1, <1>b, <1>c DEF GenCmdFile
  <2>2. CASE \E c : cmds' = [cmds EXCEPT ![c] = 0]
    <3>1. PICK c : cmds' = [cmds EXCEPT ![c] = 0]
      BY <2>2
    <3>2. 0 \in 0 .. Len(sent') /\ cmds \in [CmdFiles -> 0 .. Len(sent')]
      BY <1>a, <1>b, <1>c
    <3>3. CASE c \in CmdFiles  BY <3>1, <3>2, <3>3
    <3>4. CASE c \notin CmdFiles  BY <3>1, <3>2, <3>4
    <3> QED  BY <3>3, <3>4
  <2>3. CASE UNCHANGED cmds
    BY <2>3, <1>b, <1>c
  <2> QED  BY <2>1, <2>2, <2>3, CmdsFrame
<1>5. \A p \in signed' \cup done' : p[2] \in 1 .. Len(sent')
  <2>1. CASE SignFile
    <3>1. PICK f \in TxFiles : txs[f] # 0 /\ cur' = <<f, txs[f]>>
                               /\ signed' = signed \cup {<<f, txs[f]>>}
      BY <2>1 DEF SignFile
    <3>2. done' = done /\ txs[f] \in 1 .. Len(sent)
      BY <2>1, <3>1, <1>a, <1>c DEF SignFile
    <3> QED  BY <3>1, <3>2, <1>b, <1>c
  <2>2. CASE Execute
    BY <2>2, <1>b, <1>c DEF Execute, Numbered
  <2>3. CASE UNCHANGED <<signed, done>>
    BY <2>3, <1>b, <1>c
  <2> QED  BY <2>1, <2>2, <2>3, HistFrame
<1>6. pc' = "take" => cur'[2] \in updir'
  <2>1. CASE FindSound
    BY <2>1 DEF FindSound, disk, inbox
  <2>2. CASE pc = "take" /\ UNCHANGED <<cur, disk>>
    BY <2>2 DEF Numbered, disk, inbox
  <2>3. CASE pc = "take" /\ UNCHANGED cur /\ Send
    BY <2>3 DEF Numbered, Send
  <2> QED  BY <2>1, <2>2, <2>3, PcFrame
<1>7. pc' \in Unpacking => temp' # 0
  <2>1. CASE TakeDataFile
    BY <2>1, <1>a, <1>d
  <2>2. CASE pc \in Unpacking /\ UNCHANGED temp
    BY <2>2 DEF Numbered
  <2> QED  BY <2>1, <2>2, PcFrame, TempFrame
<1>8. at' \in Nat \ {0}
  BY PcFrame DEF Numbered
<1>9. pc' = "exec" => cur' \in CmdFiles \X (1 .. Len(sent'))
  <2>1. CASE TakeCmd
    BY <2>1, <1>a, <1>b, <1>c DEF TakeCmd, CmdsLeft
  <2>2. CASE pc = "exec" /\ UNCHANGED cur
    BY <2>2, <1>b DEF Numbered
  <2> QED  BY <2>1, <2>2, PcFrame
<1> QED  BY <1>a, <1>1, <1>2, <1>3, <1>4, <1>5, <1>6, <1>7, <1>8, <1>9
  DEF Numbered

LEMMA VouchedKept ==
  ASSUME Numbered, VouchedUse, [Next]_vars
  PROVE  VouchedUse'
<1>a. /\ temp \in 0 .. Len(sent) /\ \A f \in TxFiles : txs[f] \in 0 .. Len(sent)
      /\ \A c \in CmdFiles : cmds[c] \in 0 .. Len(sent)
      /\ \A p \in signed \cup done : p[2] \in 0 .. Len(sent)
      /\ pc \in {"take", "exec"} => cur[2] \in 0 .. Len(sent)
  <2>1. \A u \in 1 .. Len(sent) : u \in 0 .. Len(sent)
    BY SentGrows DEF Numbered
  <2>2. pc = "take" => cur[2] \in 1 .. Len(sent)
    BY DEF Numbered
  <2>3. pc = "exec" => cur[2] \in 1 .. Len(sent)
    BY DEF Numbered
  <2>4. \A p \in signed \cup done : p[2] \in 1 .. Len(sent)
    BY DEF Numbered
  <2>5. /\ temp \in 0 .. Len(sent) /\ \A f \in TxFiles : txs[f] \in 0 .. Len(sent)
        /\ \A c \in CmdFiles : cmds[c] \in 0 .. Len(sent)
    BY DEF Numbered
  <2> QED  BY <2>1, <2>2, <2>3, <2>4, <2>5
<1>b. \A u \in 0 .. Len(sent) : Checked(u, sent) => Checked(u, sent')
  <2>1. \A u \in 1 .. Len(sent) : sent'[u] = sent[u]
    BY SentGrows DEF Numbered
  <2>2. \A u \in 0 .. Len(sent) : u # 0 => u \in 1 .. Len(sent)
    BY SentGrows DEF Numbered
  <2> QED  BY <2>1, <2>2 DEF Checked
<1>c. Checked(0, sent')
  BY DEF Checked
<1>1. Checked(temp', sent')
  <2>1. CASE TakeDataFile
    BY <2>1, <1>a, <1>b DEF TakeDataFile, VouchedUse
  <2>2. CASE UNCHANGED temp
    BY <2>2, <1>a, <1>b DEF VouchedUse
  <2> QED  BY <2>1, <2>2, TempFrame
<1>2. ASSUME NEW f \in TxFiles PROVE Checked(txs'[f], sent')
  <2>1. CASE GenTxFile
    <3>1. txs'[f] \in {txs[f], temp}
      BY <2>1 DEF GenTxFile, Numbered
    <3> QED  BY <3>1, <1>a, <1>b DEF VouchedUse
  <2>2. CASE txs'[f] \in {0, txs[f]}
    BY <2>2, <1>a, <1>b, <1>c DEF VouchedUse
  <2> QED  BY <2>1, <2>2, TxsFrame DEF Numbered
<1>3. ASSUME NEW c \in CmdFiles PROVE Checked(cmds'[c], sent')
  <2>1. CASE GenCmdFile
    <3>1. cmds'[c] \in {cmds[c], temp}
      BY <2>1 DEF GenCmdFile, Numbered
    <3> QED  BY <3>1, <1>a, <1>b DEF VouchedUse
  <2>2. CASE cmds'[c] \in {0, cmds[c]}
    BY <2>2, <1>a, <1>b, <1>c DEF VouchedUse
  <2> QED  BY <2>1, <2>2, CmdsFrame DEF Numbered
<1>4. ASSUME NEW p \in signed' \cup done' PROVE Checked(p[2], sent')
  <2>1. CASE p \in signed \cup done
    BY <2>1, <1>a, <1>b DEF VouchedUse
  <2>2. CASE SignFile
    <3>1. PICK f \in TxFiles : /\ cur' = <<f, txs[f]>>
                               /\ signed' = signed \cup {<<f, txs[f]>>}
      BY <2>2 DEF SignFile
    <3>2. p \in signed \cup done \/ p[2] = txs[f]
      BY <2>2, <3>1 DEF SignFile
    <3> QED  BY <3>2, <1>a, <1>b DEF VouchedUse
  <2>3. CASE Execute
    BY <2>3, <2>1, <1>a, <1>b DEF Execute, VouchedUse
  <2>4. CASE UNCHANGED <<signed, done>>
    BY <2>4, <2>1
  <2> QED  BY <2>2, <2>3, <2>4, HistFrame
<1>5. pc' \in {"take", "exec"} => Checked(cur'[2], sent')
  <2>1. CASE FindSound
    <3>1. PICK u \in updir : sent[u].sound /\ cur' = <<NoName, u>>
      BY <2>1 DEF FindSound, Vouched
    <3>2. Checked(u, sent) /\ u \in 0 .. Len(sent)
      BY <3>1 DEF Checked, Numbered
    <3> QED  BY <3>1, <3>2, <1>b
  <2>2. CASE TakeCmd
    BY <2>2, <1>a, <1>b DEF TakeCmd, CmdsLeft, VouchedUse
  <2>3. CASE pc \in {"take", "exec"} /\ UNCHANGED cur
    BY <2>3, <1>a, <1>b DEF VouchedUse
  <2> QED  BY <2>1, <2>2, <2>3, PcFrame
<1> QED  BY <1>1, <1>2, <1>3, <1>4, <1>5 DEF VouchedUse

LEMMA FreshKept ==
  ASSUME Numbered, Fresh, [Next]_vars
  PROVE  Fresh'
<1>a. /\ updir \subseteq 1 .. Len(sent) /\ temp \in 0 .. Len(sent)
      /\ Len(sent) \in Nat
      /\ \A c \in CmdFiles : cmds[c] \in 0 .. Len(sent)
      /\ \A p \in done : p[2] \in 1 .. Len(sent)
      /\ pc = "exec" => cur \in CmdFiles \X (1 .. Len(sent))
  BY SentGrows DEF Numbered
(* What has come in an upload is not waiting, and nothing but a new upload *)
(* begins to wait.                                                         *)
<1>b. \A u \in 0 .. Len(sent) : u \notin updir => u \notin updir'
  <2>1. CASE Send
    BY <2>1, <1>a DEF Send, Numbered
  <2>2. CASE updir' \subseteq updir
    BY <2>2
  <2> QED  BY <2>1, <2>2, UpdirFrame DEF TakeDataFile
<1>c. CASE TakeDataFile
  <2>1. /\ updir' = updir \ {cur[2]} /\ temp' = cur[2] /\ pc' = "keep"
        /\ UNCHANGED <<cmds, done>> /\ cur[2] \in updir
    BY <1>c DEF TakeDataFile, Goto, hist, unpacked, Numbered
  <2> QED  BY <2>1 DEF Fresh, Unpacking
<1>d. CASE GenCmdFile
  <2>1. /\ UNCHANGED <<updir, temp, done>> /\ pc = "cmds" /\ pc' = "cmds"
        /\ cmds' = [cmds EXCEPT ![sent[temp].cmds[at]] = temp]
    BY <1>d DEF GenCmdFile, inbox, hist
  <2>2. \A c \in CmdFiles : cmds'[c] \in {cmds[c], temp}
    BY <2>1 DEF Numbered
  <2> QED  BY <2>1, <2>2 DEF Fresh, Unpacking
<1>e. CASE TakeCmd
  <2>1. PICK c \in CmdFiles : /\ cmds[c] # 0 /\ cur' = <<c, cmds[c]>>
                              /\ cmds' = [cmds EXCEPT ![c] = 0]
    BY <1>e DEF TakeCmd, CmdsLeft
  <2>2. UNCHANGED <<updir, temp, done>> /\ pc' = "exec"
    BY <1>e DEF TakeCmd, inbox, hist
  <2>3. /\ \A d \in CmdFiles : cmds'[d] \in {0, cmds[d]}
        /\ cmds'[c] = 0 /\ 0 \notin updir /\ \A p \in done : p[2] # 0
    BY <2>1, <1>a DEF Numbered
  <2>4. <<c, cmds[c]>> \notin done
    BY DEF Fresh
  <2>5. /\ cur'[1] = c /\ cur'[2] = cmds[c]
    BY <2>1
  <2> QED  BY <2>1, <2>2, <2>3, <2>4, <2>5 DEF Fresh, Unpacking
<1>f. CASE Execute
  <2>1. /\ done' = done \cup {cur} /\ UNCHANGED <<updir, temp, cmds>>
        /\ pc = "exec" /\ pc' = "docmd"
    BY <1>f DEF Execute, inbox, unpacked
  <2>2. cur[1] \in CmdFiles
    BY <2>1, <1>a
  <2> QED  BY <2>1, <2>2 DEF Fresh, Unpacking
<1>g. CASE /\ UNCHANGED <<temp, done>>
           /\ \A c \in CmdFiles : cmds'[c] \in {0, cmds[c]}
           /\ pc' \in Unpacking => pc \in Unpacking
           /\ pc' = "exec" => pc = "exec" /\ UNCHANGED cur
  <2>1. temp' \notin updir'
    BY <1>a, <1>b, <1>g DEF Fresh
  <2>2. 0 \notin updir' /\ \A c \in CmdFiles : cmds'[c] \notin updir'
    BY <1>a, <1>b, <1>g DEF Fresh
  <2>3. ASSUME NEW p \in done'
        PROVE  p[1] \in CmdFiles /\ p[2] \notin updir' /\ cmds'[p[1]] # p[2]
    BY <1>a, <1>b, <1>g DEF Fresh
  <2>4. pc' \in Unpacking => \A p \in done' : p[2] # temp'
    BY <1>g DEF Fresh
  <2>5. pc' = "exec" => /\ cur'[2] \notin updir' /\ cur' \notin done'
                       /\ cmds'[cur'[1]] # cur'[2]
    BY <1>a, <1>b, <1>g DEF Fresh
  <2> QED  BY <2>1, <2>2, <2>3, <2>4, <2>5 DEF Fresh
<1>h. GenCmdFile \/ \A c \in CmdFiles : cmds'[c] \in {0, cmds[c]}
  BY CmdsFrame DEF Numbered
<1>i. Execute \/ UNCHANGED done
  BY HistFrame DEF SignFile
<1> QED
  BY <1>c, <1>d, <1>e, <1>f, <1>g, <1>h, <1>i, TempFrame, PcFrame

-----------------------------------------------------------------------------
(* The theorems.                                                           *)

LEMMA InvInit == ASSUME Init PROVE WorkInv
  BY DEF Init, WorkInv, Numbered, VouchedUse, Checked, Fresh, Unpacking, None

LEMMA InvKept == ASSUME WorkInv, [Next]_vars PROVE WorkInv'
  BY NumberedKept, VouchedKept, FreshKept DEF WorkInv

LEMMA InvHolds == Spec => []WorkInv
  BY InvInit, InvKept, PTL DEF Spec

(* Whatever is signed or carried out came in an upload whose checksum and  *)
(* signature were checked.                                                 *)
THEOREM VouchedOnly == Spec => []OnlyVouched
<1>1. WorkInv => OnlyVouched
  BY DEF WorkInv, Numbered, VouchedUse, Checked, OnlyVouched
<1> QED  BY <1>1, InvHolds, PTL

(* A command file is carried out at most once per upload, wherever runs    *)
(* are cut and whatever calls fail.                                        *)
THEOREM CommandsOnce == Spec => CommandOnce
<1>1. WorkInv => (pc = "exec" => cur \notin done)
  BY DEF WorkInv, Fresh
<1>2. Spec => [][pc = "exec" /\ pc' = "docmd" => cur \notin done]_vars
  BY <1>1, InvHolds, PTL DEF Spec
<1> QED  BY <1>2 DEF CommandOnce

(* A data file leaves the upload directory only into a run that vouches    *)
(* for it, or by the clean-up of a run that has come to its end.           *)
THEOREM UploadFates == Spec => UploadFate
<1> DEFINE Step == \A u \in updir \ updir' :
                     \/ temp' = u /\ sent[u].sound
                     \/ pc = "docmd" /\ temp \notin updir
<1>1. WorkInv /\ [Next]_vars => [Step]_vars
  <2> SUFFICES ASSUME WorkInv, [Next]_vars PROVE Step
    OBVIOUS
  <2>1. CASE TakeDataFile
    <3>1. updir' = updir \ {cur[2]} /\ temp' = cur[2] /\ pc = "take" /\ cur[2] # 0
      BY <2>1 DEF TakeDataFile, WorkInv, Numbered
    <3>2. sent[cur[2]].sound
      BY <3>1 DEF WorkInv, VouchedUse, Checked
    <3> QED  BY <3>1, <3>2
  <2>2. CASE Send \/ UNCHANGED updir
    BY <2>2 DEF Send
  <2>3. CASE pc = "docmd"
    BY <2>3 DEF WorkInv, Fresh
  <2> QED  BY <2>1, <2>2, <2>3, UpdirFrame
<1>2. Spec => [][Step]_vars
  BY <1>1, InvHolds, PTL DEF Spec
<1> QED  BY <1>2 DEF UploadFate

-----------------------------------------------------------------------------
(* The keep list.                                                          *)

(* From the end of the keep section to the end of trash_keepFile.          *)
Keeping == {"txs", "cmds", "trash", "restore", "wipe"}

(* The list in force is that of the upload at hand, unless that has none;  *)
(* what has been put back was named, and what was named has been put back  *)
(* as far as the list has been read, until a call has failed.              *)
ListInForce ==
  pc \in Keeping => /\ temp \in 1 .. Len(sent)
                    /\ sent[temp].keep = <<>> \/ keeplist = sent[temp].keep

PutBack ==
  /\ pc \in {"restore", "wipe"} => download \subseteq Named(keeplist) \cup left
  /\ pc = "restore" =>
       \A k \in 1 .. at - 1 :
         /\ k <= Len(keeplist) /\ keeplist[k] # Bad
         /\ faults = 0 => keeplist[k] \notin trash
  /\ pc = "wipe" /\ faults = 0 => Named(keeplist) \cap trash = {}

KeepInv == /\ WorkInv /\ faults \in Nat /\ keeplist \in Seq(Names \cup {Bad})
           /\ ListInForce /\ PutBack

LEMMA FaultsFrame ==
  ASSUME [Next]_vars
  PROVE  faults' \in {faults, faults + 1}
  BY DEF Next, Run, Faulty, Prepare, Keep, Mission, Commands, vars, bounds, Goto,
         Send, CheckDataFile, FindSound, FindUnsound, TakeDataFile, PrepareFails,
         GenKeepList, GenTxFile, GenTxFilesDone, GenCmdFile, GenCmdFilesDone,
         MoveToTrash, RestoreOne, Restored, WipeTrash, SignFile, RemoveTxFile,
         MissionDone, TakeCmd, Execute, CleanUp, PrepareFault, RestoreFault,
         MissionFault, RemoveFault, CmdFault, TrashFault, RenameFault,
         WipeFault, CleanFault, CleanedPartly, Crash, Fault

LEMMA KeepListFrame ==
  ASSUME [Next]_vars
  PROVE  \/ UNCHANGED keeplist \/ GenKeepList \/ keeplist' = NoList
         \/ /\ pc = "keep" /\ temp' = temp /\ UNCHANGED sent
            /\ keeplist' \in Prefixes(sent[temp].keep)
  BY DEF Next, Run, Faulty, Prepare, Keep, Mission, Commands, vars, disk,
         unpacked, inbox, Send, CheckDataFile, FindSound, FindUnsound,
         TakeDataFile, PrepareFails, GenTxFile, GenTxFilesDone, GenCmdFile,
         GenCmdFilesDone, MoveToTrash, RestoreOne, Restored, WipeTrash, SignFile,
         RemoveTxFile, MissionDone, TakeCmd, Execute, CleanUp, PrepareFault,
         RestoreFault, MissionFault, RemoveFault, CmdFault, TrashFault, RenameFault,
         WipeFault, CleanFault, CleanedPartly, Crash

LEMMA KeepingFrame ==
  ASSUME [Next]_vars, pc' \in Keeping
  PROVE  GenKeepList \/ (pc \in Keeping /\ UNCHANGED <<keeplist, temp>>)
  BY DEF Next, Run, Faulty, Prepare, Keep, Mission, Commands, vars, disk, proc,
         bounds, unpacked, inbox, Keeping, Goto, Return, Send, CheckDataFile,
         FindSound, FindUnsound, TakeDataFile, PrepareFails, GenKeepList,
         GenTxFile, GenTxFilesDone, GenCmdFile, GenCmdFilesDone, MoveToTrash,
         RestoreOne, Restored, WipeTrash, SignFile, RemoveTxFile, MissionDone,
         TakeCmd, Execute, CleanUp, PrepareFault, RestoreFault, MissionFault,
         RemoveFault, CmdFault, TrashFault, RenameFault,
         WipeFault, CleanFault, CleanedPartly, Crash

LEMMA RestoreFrame ==
  ASSUME [Next]_vars, pc' = "restore"
  PROVE  \/ MoveToTrash \/ RestoreOne \/ TrashFault \/ RenameFault
         \/ pc = "restore" /\ UNCHANGED <<keeplist, outbox, at, left, faults>>
  BY DEF Next, Run, Faulty, Prepare, Keep, Mission, Commands, vars, disk, proc,
         hist, bounds, unpacked, inbox, Keeping, Goto, Return, Send, CheckDataFile,
         FindSound, FindUnsound, TakeDataFile, PrepareFails, GenKeepList,
         GenTxFile, GenTxFilesDone, GenCmdFile, GenCmdFilesDone, MoveToTrash,
         RestoreOne, Restored, WipeTrash, SignFile, RemoveTxFile, MissionDone,
         TakeCmd, Execute, CleanUp, PrepareFault, RestoreFault, MissionFault,
         RemoveFault, CmdFault, TrashFault, RenameFault,
         WipeFault, CleanFault, CleanedPartly, Crash

LEMMA WipeFrame ==
  ASSUME [Next]_vars, pc' = "wipe"
  PROVE  \/ Restored \/ RestoreFault
         \/ pc = "wipe" /\ UNCHANGED <<keeplist, outbox, left, faults>>
<1>1. CASE Prepare \/ Mission \/ Commands \/ CleanUp \/ CheckDataFile
  BY <1>1 DEF Prepare, Mission, Commands, Goto, Return, CheckDataFile, FindSound,
     FindUnsound, TakeDataFile, PrepareFails, GenKeepList, GenTxFile,
     GenTxFilesDone, GenCmdFile, GenCmdFilesDone, SignFile, RemoveTxFile,
     MissionDone, TakeCmd, Execute, CleanUp
<1>2. CASE MoveToTrash \/ RestoreOne \/ WipeTrash
  BY <1>2 DEF MoveToTrash, RestoreOne, WipeTrash, Goto
<1>3. CASE \/ PrepareFault \/ TrashFault \/ RenameFault \/ WipeFault
           \/ MissionFault \/ RemoveFault \/ CmdFault \/ CleanFault \/ Crash
  BY <1>3 DEF PrepareFault, TrashFault, RenameFault, WipeFault, MissionFault,
              RemoveFault, CmdFault, CleanFault, Crash, Return
<1>4. CASE Send \/ UNCHANGED vars
  BY <1>4 DEF Send, vars, disk, unpacked, outbox, hist, bounds
<1> QED
  BY <1>1, <1>2, <1>3, <1>4 DEF Next, Run, Keep, Faulty

LEMMA StockFrame ==
  ASSUME [Next]_vars
  PROVE  Stock \subseteq Stock' \/ (pc = "wipe" /\ UNCHANGED download)
<1>1. \/ UNCHANGED outbox \/ MoveToTrash \/ RestoreOne \/ WipeTrash \/ SignFile
      \/ Execute \/ TrashFault \/ WipeFault \/ Crash
  BY DEF Next, Run, Faulty, Prepare, Keep, Mission, Commands, vars, disk, Send,
         CheckDataFile, FindSound, FindUnsound, TakeDataFile, PrepareFails,
         GenKeepList, GenTxFile, GenTxFilesDone, GenCmdFile, GenCmdFilesDone,
         Restored, RemoveTxFile, MissionDone, TakeCmd, CleanUp, PrepareFault,
         RestoreFault, MissionFault, RemoveFault, CmdFault, RenameFault,
         CleanFault, CleanedPartly
<1>2. CASE UNCHANGED outbox
  BY <1>2 DEF outbox, Stock
<1>3. CASE MoveToTrash
  BY <1>3 DEF MoveToTrash, Stock
<1>8. CASE TrashFault
  BY <1>8 DEF TrashFault, Stock
<1>7. CASE RestoreOne
  <2>1. \/ UNCHANGED outbox
        \/ \E f \in trash : trash' = trash \ {f} /\ download' = download \cup {f}
    BY <1>7 DEF RestoreOne
  <2> QED  BY <2>1 DEF outbox, Stock
<1>4. CASE WipeTrash \/ WipeFault
  BY <1>4 DEF WipeTrash, WipeFault
<1>5. CASE SignFile \/ Execute
  <2>1. download \subseteq download' /\ trash' = trash
    BY <1>5 DEF SignFile, Execute
  <2> QED  BY <2>1 DEF Stock
<1>6. CASE Crash
  <2>1. \/ UNCHANGED outbox
        \/ \E moved \in SUBSET download :
             trash' = trash \cup moved /\ download' = download \ moved
        \/ pc = "wipe" /\ UNCHANGED download
    BY <1>6 DEF Crash, CleanedPartly, disk
  <2> QED  BY <2>1 DEF outbox, Stock
<1> QED  BY <1>1, <1>2, <1>3, <1>4, <1>5, <1>6, <1>7, <1>8

LEMMA MissionFrame ==
  ASSUME [Next]_vars, pc \in {"trash", "wipe"}, pc' = "mission"
  PROVE  MoveToTrash \/ TrashFault \/ (pc = "wipe" /\ UNCHANGED <<download, left>>)
  BY DEF Next, Run, Faulty, Prepare, Keep, Mission, Commands, vars, hist,
         WipeTrash, Goto, Return, Send, CheckDataFile,
         FindSound, FindUnsound, TakeDataFile, PrepareFails, GenKeepList,
         GenTxFile, GenTxFilesDone, GenCmdFile, GenCmdFilesDone,
         RestoreOne, Restored, WipeTrash, SignFile, RemoveTxFile, MissionDone,
         TakeCmd, Execute, CleanUp, PrepareFault, RestoreFault, MissionFault,
         RemoveFault, CmdFault, RenameFault,
         WipeFault, CleanFault, CleanedPartly, Crash

LEMMA KeepListTyped ==
  ASSUME KeepInv, [Next]_vars
  PROVE  keeplist' \in Seq(Names \cup {Bad})
<1>a. sent \in Seq(Uploads)
  BY DEF KeepInv, WorkInv, Numbered
<1>b. pc = "keep" => sent[temp].keep \in Seq(Names \cup {Bad})
  <2>1. pc = "keep" => sent[temp] \in Uploads
    BY DEF KeepInv, WorkInv, Numbered, Unpacking
  <2> QED  BY <2>1, WorkAssumption DEF Upload
<1>1. CASE GenKeepList
  BY <1>1, <1>b DEF GenKeepList, NewList, KeepInv
<1>2. CASE keeplist' = NoList
  <2>1. <<Bad, Bad>> \in Seq(Names \cup {Bad})
    OBVIOUS
  <2> QED  BY <1>2, <2>1 DEF NoList
<1>3. CASE pc = "keep" /\ keeplist' \in Prefixes(sent[temp].keep)
  <2>1. \A s \in Seq(Names \cup {Bad}) : \A n \in 0 .. Len(s) :
          SubSeq(s, 1, n) \in Seq(Names \cup {Bad})
    OBVIOUS
  <2> QED  BY <1>3, <1>b, <2>1 DEF Prefixes
<1>4. CASE UNCHANGED keeplist
  BY <1>4 DEF KeepInv
<1> QED  BY <1>1, <1>2, <1>3, <1>4, KeepListFrame

LEMMA ListKept ==
  ASSUME KeepInv, [Next]_vars
  PROVE  ListInForce'
<1>1. SUFFICES ASSUME pc' \in Keeping
               PROVE  /\ temp' \in 1 .. Len(sent')
                      /\ sent'[temp'].keep = <<>> \/ keeplist' = sent'[temp'].keep
  BY DEF ListInForce
<1>2. CASE GenKeepList
  <2>1. /\ UNCHANGED <<temp, sent>> /\ pc = "keep"
        /\ sent[temp].keep = <<>> \/ keeplist' = sent[temp].keep
    BY <1>2 DEF GenKeepList, NewList, inbox
  <2>2. temp \in 1 .. Len(sent)
    BY <2>1 DEF KeepInv, WorkInv, Numbered, Unpacking
  <2> QED  BY <2>1, <2>2
<1>3. CASE pc \in Keeping /\ UNCHANGED <<keeplist, temp>>
  <2>1. temp \in 1 .. Len(sent) /\ (sent[temp].keep = <<>> \/ keeplist = sent[temp].keep)
    BY <1>3 DEF KeepInv, ListInForce
  <2>2. sent'[temp] = sent[temp] /\ temp \in 1 .. Len(sent')
    BY <2>1, SentGrows DEF KeepInv, WorkInv, Numbered
  <2> QED  BY <2>1, <2>2, <1>3
<1> QED  BY <1>1, <1>2, <1>3, KeepingFrame

(* An entry is named when no entry up to it is unreadable.                 *)
LEMMA NamedEntry ==
  ASSUME NEW list \in Seq(Names \cup {Bad}), NEW n \in 1 .. Len(list),
         \A k \in 1 .. n : list[k] # Bad
  PROVE  list[n] \in Named(list)
  BY DEF Named

LEMMA PutBackKept ==
  ASSUME KeepInv, [Next]_vars
  PROVE  PutBack'
<1>a. /\ keeplist \in Seq(Names \cup {Bad}) /\ at \in Nat \ {0} /\ faults \in Nat
      /\ Len(keeplist) \in Nat
  BY DEF KeepInv, WorkInv, Numbered
<1>1. CASE MoveToTrash \/ TrashFault
  <2>1. /\ download' = {} \/ download' = left'
        /\ pc' \in {"mission", "restore"} /\ at' = 1
    BY <1>1 DEF MoveToTrash, TrashFault
  <2> QED  BY <2>1 DEF PutBack
<1>2. CASE RestoreOne
  <2>1. /\ pc = "restore" /\ pc' = "restore" /\ keeplist' = keeplist /\ at' = at + 1
        /\ at <= Len(keeplist) /\ keeplist[at] # Bad
        /\ trash' = trash \ {keeplist[at]}
        /\ download' \in {download, download \cup {keeplist[at]}}
        /\ left' = left /\ faults' = faults
    BY <1>2 DEF RestoreOne, Readable, unpacked, outbox, hist, bounds
  <2>2. \A k \in 1 .. at - 1 :
          /\ k <= Len(keeplist) /\ keeplist[k] # Bad
          /\ faults = 0 => keeplist[k] \notin trash
    BY <2>1 DEF KeepInv, PutBack
  <2>3. \A k \in 1 .. at : k \in 1 .. at - 1 \/ k = at
    BY <1>a
  <2>4. keeplist[at] \in Named(keeplist)
    BY <1>a, <2>1, <2>2, <2>3, NamedEntry
  <2>5. download' \subseteq Named(keeplist') \cup left'
    BY <2>1, <2>4 DEF KeepInv, PutBack
  <2>6. \A k \in 1 .. at' - 1 :
          /\ k <= Len(keeplist') /\ keeplist'[k] # Bad
          /\ faults' = 0 => keeplist'[k] \notin trash'
    BY <1>a, <2>1, <2>2, <2>3
  <2> QED  BY <2>1, <2>5, <2>6 DEF PutBack
<1>3. CASE Restored
  <2>1. /\ pc = "restore" /\ pc' = "wipe"
        /\ UNCHANGED <<keeplist, download, trash, left, faults>>
        /\ at > Len(keeplist) \/ keeplist[at] = Bad
    BY <1>3, <1>a DEF Restored, Readable, Goto, disk, unpacked, outbox, hist, bounds
  <2>2. ASSUME NEW n \in 1 .. Len(keeplist), \A k \in 1 .. n : keeplist[k] # Bad,
               faults = 0
        PROVE  keeplist[n] \notin trash
    <3>1. ~ (at \in 1 .. n)
      BY <1>a, <2>1, <2>2
    <3>2. n \in 1 .. at - 1
      BY <1>a, <3>1
    <3> QED  BY <2>1, <2>2, <3>2 DEF KeepInv, PutBack
  <2>3. faults = 0 => Named(keeplist) \cap trash = {}
    BY <2>2 DEF Named
  <2> QED  BY <2>1, <2>3 DEF KeepInv, PutBack
<1>4. CASE RestoreFault
  <2>1. /\ pc = "restore" /\ pc' = "wipe" /\ UNCHANGED <<keeplist, download, left>>
        /\ faults' # 0
    BY <1>4, <1>a DEF RestoreFault, Fault, disk, unpacked, outbox, hist
  <2> QED  BY <2>1 DEF KeepInv, PutBack
<1>8. CASE RenameFault
  <2>1. /\ pc = "restore" /\ pc' = "restore" /\ at' = at + 1 /\ faults' # 0
        /\ at <= Len(keeplist) /\ keeplist[at] # Bad
        /\ UNCHANGED <<keeplist, download, left>>
    BY <1>8, <1>a DEF RenameFault, Readable, Fault, disk, unpacked, outbox, hist
  <2>2. \A k \in 1 .. at : k \in 1 .. at - 1 \/ k = at
    BY <1>a
  <2>3. \A k \in 1 .. at' - 1 : k <= Len(keeplist') /\ keeplist'[k] # Bad
    BY <1>a, <2>1, <2>2 DEF KeepInv, PutBack
  <2> QED  BY <2>1, <2>3 DEF KeepInv, PutBack
<1>5. CASE pc = "restore" /\ pc' = "restore" /\ UNCHANGED <<keeplist, outbox, at, left, faults>>
  BY <1>5 DEF KeepInv, PutBack, outbox
<1>6. CASE pc = "wipe" /\ pc' = "wipe" /\ UNCHANGED <<keeplist, outbox, left, faults>>
  BY <1>6 DEF KeepInv, PutBack, outbox
<1>7. CASE pc' \notin {"restore", "wipe"}
  BY <1>7 DEF PutBack
<1> QED
  BY <1>1, <1>2, <1>3, <1>4, <1>5, <1>6, <1>7, <1>8, RestoreFrame, WipeFrame

LEMMA KeepInvInit == ASSUME Init PROVE KeepInv
<1>1. <<Bad, Bad>> \in Seq(Names \cup {Bad})
  OBVIOUS
<1> QED
  BY <1>1, InvInit DEF Init, KeepInv, ListInForce, PutBack, Keeping, NoList

LEMMA KeepInvKept == ASSUME KeepInv, [Next]_vars PROVE KeepInv'
  BY InvKept, KeepListTyped, ListKept, PutBackKept, FaultsFrame DEF KeepInv

LEMMA KeepInvHolds == Spec => []KeepInv
  BY KeepInvInit, KeepInvKept, PTL DEF Spec

(* No file that the keep list of the upload at hand names is removed from  *)
(* the node, whatever came before, unless a call has failed.               *)
THEOREM KeepListHonoured == Spec => KeepHonoured
<1> DEFINE Step == \A f \in Stock \ Stock' :
                     f \notin Named(sent[temp].keep) \/ faults > 0
<1>1. KeepInv /\ [Next]_vars => [Step]_vars
  <2> SUFFICES ASSUME KeepInv, [Next]_vars PROVE Step
    OBVIOUS
  <2>1. CASE pc = "wipe" /\ UNCHANGED download
    <3>1. SUFFICES ASSUME NEW f \in trash, faults = 0
                   PROVE  f \notin Named(sent[temp].keep)
      BY <2>1, <3>1 DEF Stock, KeepInv
    <3>2. f \notin Named(keeplist)
      BY <2>1, <3>1 DEF KeepInv, PutBack
    <3>3. sent[temp].keep = <<>> \/ keeplist = sent[temp].keep
      BY <2>1 DEF KeepInv, ListInForce, Keeping
    <3>4. Named(<<>>) = {}
      BY DEF Named
    <3> QED  BY <3>2, <3>3, <3>4
  <2>2. CASE Stock \subseteq Stock'
    BY <2>2
  <2> QED  BY <2>1, <2>2, StockFrame
<1>2. Spec => [][Step]_vars
  BY <1>1, KeepInvHolds, PTL DEF Spec
<1> QED  BY <1>2 DEF KeepHonoured

(* When the mission starts, download holds nothing that the keep list in   *)
(* force does not name, but for what an mv has failed to move in this run. *)
THEOREM DownloadPruned == Spec => Pruned
<1> DEFINE Step == (pc \in {"trash", "wipe"} /\ pc' = "mission")
                     => download' \subseteq Named(keeplist) \cup left'
<1>1. KeepInv /\ [Next]_vars => [Step]_vars
  <2> SUFFICES ASSUME KeepInv, [Next]_vars, pc \in {"trash", "wipe"}, pc' = "mission"
               PROVE  download' \subseteq Named(keeplist) \cup left'
    OBVIOUS
  <2>1. CASE MoveToTrash \/ TrashFault
    BY <2>1 DEF MoveToTrash, TrashFault
  <2>2. CASE pc = "wipe" /\ UNCHANGED <<download, left>>
    BY <2>2 DEF KeepInv, PutBack
  <2> QED  BY <2>1, <2>2, MissionFrame
<1>2. Spec => [][Step]_vars
  BY <1>1, KeepInvHolds, PTL DEF Spec
<1> QED  BY <1>2 DEF Pruned

-----------------------------------------------------------------------------
(* Types: what KeepInv leaves open. spc_do_cmd has at most as many rounds  *)
(* to go as there are command files, one more while it carries one out.    *)
RunTyped ==
  /\ download \subseteq Names /\ trash \subseteq Names
  /\ cur \in (Names \cup {NoName}) \X (0 .. Len(sent))
  /\ pc \in Stages
  /\ IsFiniteSet(CmdsLeft)
  /\ pc = "docmd" => count \in 0 .. Cardinality(CmdsLeft)
  /\ pc = "exec" => count \in 1 .. Cardinality(CmdsLeft) + 1
  /\ signed \subseteq TxFiles \X (1 .. Len(sent))
  /\ done \subseteq CmdFiles \X (1 .. Len(sent))
  /\ left \subseteq Names

LEMMA CurFrame ==
  ASSUME [Next]_vars
  PROVE  UNCHANGED cur \/ cur' = None \/ FindSound \/ SignFile \/ TakeCmd
  BY DEF Next, Run, Faulty, Prepare, Keep, Mission, Commands, vars, proc, Goto,
         Return, Send, CheckDataFile, FindUnsound, TakeDataFile,
         PrepareFails, GenKeepList, GenTxFile, GenTxFilesDone, GenCmdFile,
         GenCmdFilesDone, MoveToTrash, RestoreOne, Restored, WipeTrash,
         RemoveTxFile, MissionDone, Execute, CleanUp, PrepareFault,
         RestoreFault, MissionFault, RemoveFault, CmdFault, TrashFault, RenameFault,
         WipeFault, CleanFault, CleanedPartly, Crash

LEMMA OutboxFrame ==
  ASSUME [Next]_vars
  PROVE  \/ download' \cup trash' \subseteq download \cup trash
         \/ SignFile \/ Execute
<1>1. CASE RestoreOne
  <2>1. \/ UNCHANGED outbox
        \/ \E f \in trash : trash' = trash \ {f} /\ download' = download \cup {f}
    BY <1>1 DEF RestoreOne
  <2> QED  BY <2>1 DEF outbox
<1>2. CASE MoveToTrash \/ TrashFault \/ WipeTrash \/ WipeFault
  BY <1>2 DEF MoveToTrash, TrashFault, WipeTrash, WipeFault
<1>3. CASE Crash
  <2>1. \/ UNCHANGED outbox
        \/ \E moved \in SUBSET download :
             trash' = trash \cup moved /\ download' = download \ moved
        \/ trash' \in SUBSET trash /\ UNCHANGED download
    BY <1>3 DEF Crash, CleanedPartly, disk
  <2> QED  BY <2>1 DEF outbox
<1>4. \/ UNCHANGED outbox \/ RestoreOne \/ MoveToTrash \/ TrashFault
      \/ WipeTrash \/ WipeFault \/ Crash \/ SignFile \/ Execute
  BY DEF Next, Run, Faulty, Prepare, Keep, Mission, Commands, vars, disk, Send,
         CheckDataFile, FindSound, FindUnsound, TakeDataFile, PrepareFails,
         GenKeepList, GenTxFile, GenTxFilesDone, GenCmdFile, GenCmdFilesDone,
         Restored, RemoveTxFile, MissionDone, TakeCmd, CleanUp, PrepareFault,
         RestoreFault, MissionFault, RemoveFault, CmdFault, RenameFault,
         CleanFault, CleanedPartly
<1> QED  BY <1>1, <1>2, <1>3, <1>4 DEF outbox

LEMMA LeftFrame ==
  ASSUME [Next]_vars
  PROVE  left' \in {left, {}} \/ left' \subseteq download
  BY DEF Next, Run, Faulty, Prepare, Keep, Mission, Commands, vars, hist, Goto,
         Return, Send, CheckDataFile, FindSound, FindUnsound, TakeDataFile,
         PrepareFails, GenKeepList, GenTxFile, GenTxFilesDone, GenCmdFile,
         GenCmdFilesDone, MoveToTrash, RestoreOne, Restored, WipeTrash, SignFile,
         RemoveTxFile, MissionDone, TakeCmd, Execute, CleanUp, PrepareFault,
         RestoreFault, MissionFault, RemoveFault, CmdFault, TrashFault,
         RenameFault, WipeFault, CleanFault, Crash

LEMMA StagesKept ==
  ASSUME pc \in Stages, [Next]_vars
  PROVE  pc' \in Stages
  BY DEF Stages, Next, Run, Faulty, Prepare, Keep, Mission, Commands, vars, Goto,
         Return, Send, CheckDataFile, FindSound, FindUnsound, TakeDataFile,
         PrepareFails, GenKeepList, GenTxFile, GenTxFilesDone, GenCmdFile,
         GenCmdFilesDone, MoveToTrash, RestoreOne, Restored, WipeTrash, SignFile,
         RemoveTxFile, MissionDone, TakeCmd, Execute, CleanUp, PrepareFault,
         RestoreFault, MissionFault, RemoveFault, CmdFault, TrashFault, RenameFault,
         WipeFault, CleanFault, CleanedPartly, Crash

(* Where spc_do_cmd's loop is entered and how it goes on.                  *)
LEMMA LoopFrame ==
  ASSUME [Next]_vars, pc' \in {"docmd", "exec"}
  PROVE  \/ UNCHANGED cmds /\ count' = Cardinality(CmdsLeft) /\ pc' = "docmd"
         \/ TakeCmd \/ Execute \/ CmdFault
         \/ UNCHANGED <<cmds, count, pc>>
  BY DEF Next, Run, Faulty, Prepare, Keep, Mission, Commands, vars, disk, unpacked,
         proc, Goto, Return, Send, CheckDataFile, FindSound, FindUnsound,
         TakeDataFile, PrepareFails, GenKeepList, GenTxFile, GenTxFilesDone,
         GenCmdFile, GenCmdFilesDone, MoveToTrash, RestoreOne, Restored, WipeTrash,
         SignFile, RemoveTxFile, MissionDone, CleanUp, PrepareFault,
         RestoreFault, MissionFault, RemoveFault, TrashFault, RenameFault,
         WipeFault, CleanFault, Crash

(* At most one command file appears in a step.                             *)
LEMMA LeftFinite ==
  ASSUME Numbered, IsFiniteSet(CmdsLeft), [Next]_vars
  PROVE  IsFiniteSet(CmdsLeft')
<1>1. \E c : CmdsLeft' \subseteq CmdsLeft \cup {c}
  <2>1. UNCHANGED cmds \/ \E c, u : cmds' = [cmds EXCEPT ![c] = u]
    BY CmdsFrame DEF GenCmdFile
  <2>2. ASSUME NEW c, NEW u, cmds' = [cmds EXCEPT ![c] = u]
        PROVE  CmdsLeft' \subseteq CmdsLeft \cup {c}
    BY <2>2 DEF CmdsLeft, Numbered
  <2>3. UNCHANGED cmds => CmdsLeft' = CmdsLeft
    BY DEF CmdsLeft
  <2> QED  BY <2>1, <2>2, <2>3
<1>2. PICK c : CmdsLeft' \subseteq CmdsLeft \cup {c}
  BY <1>1
<1>3. IsFiniteSet(CmdsLeft \cup {c})
  BY FS_AddElement
<1> QED  BY <1>2, <1>3, FS_Subset

LEMMA CountKept ==
  ASSUME Numbered, RunTyped, [Next]_vars
  PROVE  /\ pc' = "docmd" => count' \in 0 .. Cardinality(CmdsLeft')
         /\ pc' = "exec" => count' \in 1 .. Cardinality(CmdsLeft') + 1
<1>a. IsFiniteSet(CmdsLeft) /\ Cardinality(CmdsLeft) \in Nat
  BY FS_CardinalityType DEF RunTyped
<1>b. UNCHANGED cmds => CmdsLeft' = CmdsLeft
  BY DEF CmdsLeft
<1>1. CASE UNCHANGED cmds /\ count' = Cardinality(CmdsLeft) /\ pc' = "docmd"
  BY <1>1, <1>a, <1>b
<1>2. CASE TakeCmd
  <2>1. PICK c \in CmdsLeft : cmds' = [cmds EXCEPT ![c] = 0]
    BY <1>2 DEF TakeCmd
  <2>2. pc = "docmd" /\ count > 0 /\ count' = count /\ pc' = "exec"
    BY <1>2 DEF TakeCmd
  <2>3. CmdsLeft' = CmdsLeft \ {c}
    BY <2>1 DEF CmdsLeft, Numbered
  <2>4. Cardinality(CmdsLeft') = Cardinality(CmdsLeft) - 1
    BY <2>1, <2>3, <1>a, FS_RemoveElement
  <2> QED  BY <2>2, <2>4, <1>a DEF RunTyped
<1>3. CASE Execute
  <2>1. pc = "exec" /\ count' = count - 1 /\ pc' = "docmd" /\ UNCHANGED cmds
    BY <1>3 DEF Execute, unpacked
  <2> QED  BY <2>1, <1>a, <1>b DEF RunTyped
<1>4. CASE CmdFault
  <2>1. pc = "docmd" /\ count > 0 /\ count' = count - 1 /\ pc' = "docmd" /\ UNCHANGED cmds
    BY <1>4 DEF CmdFault, disk, unpacked
  <2> QED  BY <2>1, <1>a, <1>b DEF RunTyped
<1>5. CASE UNCHANGED <<cmds, count, pc>>
  BY <1>5, <1>b DEF RunTyped
<1> QED  BY <1>1, <1>2, <1>3, <1>4, <1>5, LoopFrame

LEMMA RunTypedKept ==
  ASSUME Numbered, RunTyped, [Next]_vars
  PROVE  RunTyped'
<1>a. /\ 0 .. Len(sent) \subseteq 0 .. Len(sent') /\ 1 .. Len(sent) \subseteq 1 .. Len(sent')
      /\ 0 \in 0 .. Len(sent') /\ Len(sent) \in Nat
  BY SentGrows DEF Numbered
<1>b. TxFiles \subseteq Names /\ CmdFiles \subseteq Names
  BY DEF Names
<1>c. /\ updir \subseteq 0 .. Len(sent)
      /\ \A f \in TxFiles : txs[f] \in 0 .. Len(sent)
      /\ \A c \in CmdFiles : cmds[c] \in 0 .. Len(sent)
      /\ pc = "exec" => cur \in CmdFiles \X (1 .. Len(sent))
  BY <1>a DEF Numbered
<1>1. download' \subseteq Names /\ trash' \subseteq Names
  <2>1. CASE SignFile
    <3>1. PICK f \in TxFiles : download' \in {download, download \cup {f}}
      BY <2>1 DEF SignFile
    <3> QED  BY <2>1, <3>1, <1>b DEF SignFile, RunTyped
  <2>2. CASE Execute
    <3>1. cur[1] \in CmdFiles
      BY <2>2, <1>c DEF Execute
    <3> QED  BY <2>2, <3>1, <1>b DEF Execute, RunTyped
  <2>3. CASE download' \cup trash' \subseteq download \cup trash
    BY <2>3 DEF RunTyped
  <2> QED  BY <2>1, <2>2, <2>3, OutboxFrame
<1>2. cur' \in (Names \cup {NoName}) \X (0 .. Len(sent'))
  <2>1. CASE UNCHANGED cur
    BY <2>1, <1>a DEF RunTyped
  <2>2. CASE cur' = None
    BY <2>2, <1>a DEF None
  <2>3. CASE FindSound
    BY <2>3, <1>a, <1>c DEF FindSound
  <2>4. CASE SignFile
    BY <2>4, <1>a, <1>b, <1>c DEF SignFile
  <2>5. CASE TakeCmd
    BY <2>5, <1>a, <1>b, <1>c DEF TakeCmd, CmdsLeft
  <2> QED  BY <2>1, <2>2, <2>3, <2>4, <2>5, CurFrame
<1>3. signed' \subseteq TxFiles \X (1 .. Len(sent')) /\ done' \subseteq CmdFiles \X (1 .. Len(sent'))
  <2>1. CASE SignFile
    <3>1. PICK f \in TxFiles : txs[f] # 0 /\ cur' = <<f, txs[f]>> /\ signed' = signed \cup {cur'}
      BY <2>1 DEF SignFile
    <3>2. txs[f] \in 1 .. Len(sent) /\ done' = done
      BY <2>1, <3>1, <1>a, <1>c DEF SignFile
    <3>3. cur' \in TxFiles \X (1 .. Len(sent'))
      BY <3>1, <3>2, <1>a
    <3> QED  BY <3>1, <3>2, <3>3, <1>a DEF RunTyped
  <2>2. CASE Execute
    <3>1. pc = "exec" /\ done' = done \cup {cur} /\ signed' = signed
      BY <2>2 DEF Execute
    <3> QED  BY <3>1, <1>a, <1>c DEF RunTyped
  <2>3. CASE UNCHANGED <<signed, done>>
    BY <2>3, <1>a DEF RunTyped
  <2> QED  BY <2>1, <2>2, <2>3, HistFrame
<1>5. left' \subseteq Names
  <2>1. left' \in {left, {}} \/ left' \subseteq download
    BY LeftFrame
  <2> QED  BY <2>1 DEF RunTyped
<1>4. pc' \in Stages /\ IsFiniteSet(CmdsLeft')
  BY StagesKept, LeftFinite DEF RunTyped
<1> QED  BY <1>1, <1>2, <1>3, <1>4, <1>5, CountKept DEF RunTyped

LEMMA RunTypedInit == ASSUME Init PROVE RunTyped
<1>1. CmdsLeft = {}
  BY DEF Init, CmdsLeft
<1> QED  BY <1>1, FS_EmptySet DEF Init, RunTyped, Stages, None

(* Every step keeps the types; in particular spc_do_cmd never has more     *)
(* rounds to go than there are command files.                              *)
THEOREM WorkTyped == Spec => []TypeOK
<1>1. KeepInv /\ RunTyped => TypeOK
  BY DEF KeepInv, WorkInv, Numbered, RunTyped, TypeOK
<1>2. KeepInv /\ RunTyped /\ [Next]_vars => RunTyped'
  BY RunTypedKept DEF KeepInv, WorkInv
<1> QED
  BY <1>1, <1>2, RunTypedInit, KeepInvHolds, PTL DEF Spec
====
