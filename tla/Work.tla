-------------------------------- MODULE Work --------------------------------
(***************************************************************************)
(* A run of the Linux side (spc_start_work.c): the one data file in the    *)
(* upload directory is checked and unpacked (spcmodprepare.c), the         *)
(* download directory is reduced to the files the keep list names          *)
(* (spcmodtrash.c), the mission signs the transaction files                *)
(* (TxMission.tla), the commands are carried out (Registry.tla), and the   *)
(* upload and transaction directories are emptied.                         *)
(*                                                                         *)
(* The ground may send at any time, a run may be cut by a crash between    *)
(* any two steps, and nothing that a run leaves on the disk is undone.     *)
(***************************************************************************)
EXTENDS Integers, Sequences, FiniteSets

CONSTANTS
  TxFiles, CmdFiles,   \* names of transaction files and of command files
  Bad,                 \* an entry of a keep list that cannot be read
  NoName,
  Uploads,             \* what the data files of the ground may hold
  MaxSent,             \* bound: uploads
  MaxCrashes,          \* bound: power cycles
  MaxFaults            \* bound: system calls that fail

(* The result of a transaction file and the output of a command are named  *)
(* after it in the download directory.                                     *)
Names == TxFiles \cup CmdFiles

(* A data file: whether its checksum file vouches for it, whether its      *)
(* number, head and tail are in order, its three sections, and the first   *)
(* section that cannot be read to its end.                                 *)
Upload == [sound : BOOLEAN, framed : BOOLEAN, keep : Seq(Names \cup {Bad}),
           txs : Seq(TxFiles), cmds : Seq(CmdFiles),
           broken : {"none", "keep", "txs", "cmds"}]

ASSUME WorkAssumption ==
  /\ TxFiles \cap CmdFiles = {} /\ {Bad, NoName} \cap Names = {}
  /\ Uploads \subseteq Upload
  /\ MaxSent \in Nat /\ MaxCrashes \in Nat /\ MaxFaults \in Nat

VARIABLES
  \* the disk; a file is known by the number of the upload it came in
  sent,       \* the data files sent so far
  updir,      \* upload: those in the upload directory
  temp,       \* prepare/temp/temp.data, 0 at first
  keeplist,   \* trash/keep.list
  txs,        \* transaction/txfiles: from which upload, 0: not there
  cmds,       \* server/epub: likewise
  download,   \* download
  trash,      \* trash/temp
  \* the process
  pc,
  cur,        \* the file at hand, and its upload
  at,         \* the next entry of the section or list being read
  count,      \* spc_do_cmd's rounds to go
  \* history and bounds
  signed,     \* <<transaction file, upload>> the mission has been through
  done,       \* <<command file, upload>> carried out
  left,       \* files that a failing mv of the run at hand left in download
  crashes, faults

inbox == <<sent, updir, temp>>
unpacked == <<keeplist, txs, cmds>>
outbox == <<download, trash>>
disk == <<inbox, unpacked, outbox>>
proc == <<cur, at, count>>
hist == <<signed, done, left>>
bounds == <<crashes, faults>>
vars == <<disk, pc, proc, hist, bounds>>

None == <<NoName, 0>>
NoList == <<Bad, Bad>>   \* there is no keep.list

Init ==
  /\ sent = <<>> /\ updir = {} /\ temp = 0
  /\ keeplist = NoList
  /\ txs = [f \in TxFiles |-> 0] /\ cmds = [f \in CmdFiles |-> 0]
  /\ download = {} /\ trash = {}
  /\ pc = "idle" /\ cur = None /\ at = 1 /\ count = 0
  /\ signed = {} /\ done = {} /\ left = {}
  /\ crashes = 0 /\ faults = 0

-----------------------------------------------------------------------------
(* The ground: a data file and its checksum file arrive.                   *)
Send ==
  /\ Len(sent) < MaxSent
  /\ \E u \in Uploads : sent' = Append(sent, u)
  /\ updir' = updir \cup {Len(sent')}
  /\ UNCHANGED <<temp, unpacked, outbox, pc, proc, hist, bounds>>

Goto(stage) == pc' = stage /\ UNCHANGED <<proc, hist, bounds>>
Return == pc' = "idle" /\ cur' = None /\ at' = 1 /\ count' = 0 /\ left' = {}
          /\ UNCHANGED <<signed, done>>

-----------------------------------------------------------------------------
(* prepare_checkDataFile and prepare_processDataFile.                      *)

(* A run with no data file, or with more than one, ends here. *)
CheckDataFile ==
  /\ pc = "idle" /\ Cardinality(updir) = 1
  /\ Goto("find")
  /\ UNCHANGED disk

(* _findDataFile takes the first one of the directory; one may have        *)
(* arrived since they were counted. Then checksum and signature.           *)
(* Mutant: what the checks return is not looked at. *)
VouchedAll(u) == u \in updir

Vouched(u) == sent[u].sound

FindSound ==
  /\ pc = "find"
  /\ \E u \in updir : Vouched(u) /\ cur' = <<NoName, u>>
  /\ pc' = "take"
  /\ UNCHANGED <<disk, at, count, hist, bounds>>

(* Mutant: spc_start_work cleans up in every case. *)
FindUnsoundCleans ==
  /\ pc = "find" /\ \E u \in updir : ~ Vouched(u)
  /\ updir' = {}
  /\ Return
  /\ UNCHANGED <<sent, temp, unpacked, outbox, bounds>>

FindUnsound ==
  /\ pc = "find" /\ \E u \in updir : ~ Vouched(u)
  /\ Return
  /\ UNCHANGED <<disk, bounds>>

(* _mvDataFileToTempDir. *)
TakeDataFile ==
  /\ pc = "take"
  /\ updir' = updir \ {cur[2]} /\ temp' = cur[2]
  /\ Goto("keep")
  /\ UNCHANGED <<sent, unpacked, outbox>>

(* _getFileNo, _checkHeadAndTail, or the header of a section. *)
Refused ==
  \/ pc = "keep" /\ (~ sent[temp].framed \/ sent[temp].broken = "keep")
  \/ pc = "txs" /\ sent[temp].broken = "txs" /\ at > Len(sent[temp].txs)
  \/ pc = "cmds" /\ sent[temp].broken = "cmds" /\ at > Len(sent[temp].cmds)

PrepareFails ==
  /\ Refused
  /\ Return
  /\ UNCHANGED <<disk, bounds>>

(* An empty keep section leaves the keep.list of an earlier upload.        *)
NewList == IF sent[temp].keep = <<>> THEN keeplist ELSE sent[temp].keep

GenKeepList ==
  /\ pc = "keep" /\ ~ Refused
  /\ keeplist' = NewList
  /\ pc' = "txs" /\ at' = 1
  /\ UNCHANGED <<inbox, txs, cmds, outbox, cur, count, hist, bounds>>

GenTxFile ==
  /\ pc = "txs" /\ at <= Len(sent[temp].txs)
  /\ txs' = [txs EXCEPT ![sent[temp].txs[at]] = temp]
  /\ at' = at + 1
  /\ UNCHANGED <<inbox, keeplist, cmds, outbox, pc, cur, count, hist, bounds>>

GenTxFilesDone ==
  /\ pc = "txs" /\ at > Len(sent[temp].txs) /\ ~ Refused
  /\ pc' = "cmds" /\ at' = 1
  /\ UNCHANGED <<disk, cur, count, hist, bounds>>

GenCmdFile ==
  /\ pc = "cmds" /\ at <= Len(sent[temp].cmds)
  /\ cmds' = [cmds EXCEPT ![sent[temp].cmds[at]] = temp]
  /\ at' = at + 1
  /\ UNCHANGED <<inbox, keeplist, txs, outbox, pc, cur, count, hist, bounds>>

GenCmdFilesDone ==
  /\ pc = "cmds" /\ at > Len(sent[temp].cmds) /\ ~ Refused
  /\ Goto("trash")
  /\ UNCHANGED disk

-----------------------------------------------------------------------------
(* trash_keepFile.                                                         *)

(* Mutant: nothing is moved away. *)
StayInDownload ==
  /\ pc = "trash"
  /\ pc' = IF keeplist = NoList THEN "mission" ELSE "restore"
  /\ at' = 1
  /\ UNCHANGED <<disk, cur, count, hist, bounds>>

(* Everything leaves the download directory; without a keep.list it stays  *)
(* in trash/temp.                                                          *)
MoveToTrash ==
  /\ pc = "trash"
  /\ trash' = trash \cup download /\ download' = {}
  /\ pc' = IF keeplist = NoList THEN "mission" ELSE "restore"
  /\ at' = 1
  /\ UNCHANGED <<inbox, unpacked, cur, count, hist, bounds>>

Readable == at <= Len(keeplist) /\ keeplist[at] # Bad

(* rename, logged only when there is no such file. *)
RestoreOne ==
  /\ pc = "restore" /\ Readable
  /\ LET f == keeplist[at] IN
       IF f \in trash THEN trash' = trash \ {f} /\ download' = download \cup {f}
                      ELSE UNCHANGED outbox
  /\ at' = at + 1
  /\ UNCHANGED <<inbox, unpacked, pc, cur, count, hist, bounds>>

(* Mutant: the last entry is left out. *)
RestoredShort ==
  /\ pc = "restore" /\ (~ Readable \/ at = Len(keeplist))
  /\ Goto("wipe")
  /\ UNCHANGED disk

(* The end of the list, or an entry that cannot be read: the rest is lost. *)
Restored ==
  /\ pc = "restore" /\ ~ Readable
  /\ Goto("wipe")
  /\ UNCHANGED disk

WipeTrash ==
  /\ pc = "wipe"
  /\ trash' = {}
  /\ Goto("mission")
  /\ UNCHANGED <<inbox, unpacked, download>>

-----------------------------------------------------------------------------
(* spc_start_mission, one file at a time; its detail is in TxMission.tla.  *)

(* A file's round: with a result or without one (start_sign_tx_file fails  *)
(* before its first write).                                                *)
SignFile ==
  /\ pc = "mission"
  /\ \E f \in TxFiles :
       /\ txs[f] # 0
       /\ cur' = <<f, txs[f]>>
       /\ signed' = signed \cup {cur'}
       /\ download' \in {download, download \cup {f}}
  /\ pc' = "rmtx"
  /\ UNCHANGED <<inbox, unpacked, trash, at, count, done, left, bounds>>

(* Mutant: it cannot be removed, and nobody asks. *)
RemoveTxFileNot ==
  /\ pc = "rmtx"
  /\ pc' = "mission" /\ cur' = None
  /\ UNCHANGED <<disk, at, count, hist, bounds>>

RemoveTxFile ==
  /\ pc = "rmtx"
  /\ txs' = [txs EXCEPT ![cur[1]] = 0]
  /\ pc' = "mission" /\ cur' = None
  /\ UNCHANGED <<inbox, keeplist, cmds, outbox, at, count, hist, bounds>>

CmdsLeft == {c \in CmdFiles : cmds[c] # 0}

(* Mutant: spc_do_cmd counts from one. *)
MissionDoneCountShort ==
  /\ pc = "mission" /\ \A f \in TxFiles : txs[f] = 0
  /\ count' = Cardinality(CmdsLeft) - 1
  /\ pc' = "docmd"
  /\ UNCHANGED <<disk, cur, at, hist, bounds>>

(* No file is left; server_countCmdFile. *)
MissionDone ==
  /\ pc = "mission" /\ \A f \in TxFiles : txs[f] = 0
  /\ count' = Cardinality(CmdsLeft)
  /\ pc' = "docmd"
  /\ UNCHANGED <<disk, cur, at, hist, bounds>>

-----------------------------------------------------------------------------
(* spc_do_cmd, one command at a time; their detail is in Registry.tla.     *)

(* Mutant: the file is copied to server/temp/user.epub. *)
TakeCmdCopied ==
  /\ pc = "docmd" /\ count > 0
  /\ \E c \in CmdsLeft : cur' = <<c, cmds[c]>>
  /\ pc' = "exec"
  /\ UNCHANGED <<disk, at, count, hist, bounds>>

(* _getCmdFileName and _mvCmdFileToTempDir: it is gone from server/epub.   *)
TakeCmd ==
  /\ pc = "docmd" /\ count > 0
  /\ \E c \in CmdsLeft : /\ cur' = <<c, cmds[c]>>
                         /\ cmds' = [cmds EXCEPT ![c] = 0]
  /\ pc' = "exec"
  /\ UNCHANGED <<inbox, keeplist, txs, outbox, at, count, hist, bounds>>

(* The command is carried out, or fails, or the file cannot be read. *)
Execute ==
  /\ pc = "exec"
  /\ done' = done \cup {cur}
  /\ download' \in {download, download \cup {cur[1]}}
  /\ count' = count - 1 /\ cur' = None
  /\ pc' = "docmd"
  /\ UNCHANGED <<inbox, unpacked, trash, at, signed, left, bounds>>

(* The end of spc_start_work. *)
CleanUp ==
  /\ pc = "docmd" /\ count = 0
  /\ updir' = {} /\ txs' = [f \in TxFiles |-> 0]
  /\ Return
  /\ UNCHANGED <<sent, temp, keeplist, cmds, outbox, bounds>>

-----------------------------------------------------------------------------
(* Failing calls and power cycles.                                         *)

Fault == faults < MaxFaults /\ faults' = faults + 1 /\ UNCHANGED crashes

(* A call of prepare_processDataFile fails: the run is over. A file that   *)
(* _readDataToFile cannot write to its end is removed, the one it was to   *)
(* replace with it.                                                        *)
PrepareFault ==
  /\ pc \in {"find", "take", "keep", "txs", "cmds"}
  /\ Fault
  /\ Return
  /\ \/ UNCHANGED unpacked
     \/ /\ pc = "keep" /\ ~ Refused /\ sent[temp].keep # <<>>
        /\ keeplist' = NoList
        /\ UNCHANGED <<txs, cmds>>
     \/ /\ pc = "txs" /\ at <= Len(sent[temp].txs)
        /\ txs' = [txs EXCEPT ![sent[temp].txs[at]] = 0]
        /\ UNCHANGED <<keeplist, cmds>>
     \/ /\ pc = "cmds" /\ at <= Len(sent[temp].cmds)
        /\ cmds' = [cmds EXCEPT ![sent[temp].cmds[at]] = 0]
        /\ UNCHANGED <<keeplist, txs>>
  /\ UNCHANGED <<inbox, outbox>>

(* mv fails, and nobody asks: what it has not moved stays in download.     *)
TrashFault ==
  /\ pc = "trash"
  /\ Fault
  /\ \E moved \in SUBSET download :
       /\ moved # download
       /\ trash' = trash \cup moved /\ download' = download \ moved
  /\ left' = download'
  /\ pc' = IF keeplist = NoList THEN "mission" ELSE "restore"
  /\ at' = 1
  /\ UNCHANGED <<inbox, unpacked, cur, count, signed, done>>

(* keep.list cannot be opened: trash/temp is emptied all the same. *)
RestoreFault ==
  /\ pc = "restore" /\ at = 1
  /\ Fault
  /\ pc' = "wipe"
  /\ UNCHANGED <<disk, proc, hist>>

(* An entry's rename fails: the next entry is taken. *)
RenameFault ==
  /\ pc = "restore" /\ Readable
  /\ Fault
  /\ at' = at + 1
  /\ UNCHANGED <<disk, pc, cur, count, hist>>

(* rm -f removes some files or none; the run goes on. *)
WipeFault ==
  /\ pc = "wipe"
  /\ Fault
  /\ trash' \in SUBSET trash
  /\ pc' = "mission"
  /\ UNCHANGED <<inbox, unpacked, download, proc, hist>>

(* The mission cannot read its directory: it is done with what is left.    *)
MissionFault ==
  /\ pc = "mission"
  /\ Fault
  /\ count' = Cardinality(CmdsLeft)
  /\ pc' = "docmd"
  /\ UNCHANGED <<disk, cur, at, hist>>

(* A file that cannot be removed is signed again, as often as that happens *)
(* (which alone the bound does not limit).                                 *)
RemoveFault ==
  /\ pc = "rmtx" /\ MaxFaults > 0
  /\ faults' = IF faults < MaxFaults THEN faults + 1 ELSE faults
  /\ pc' = "mission" /\ cur' = None
  /\ UNCHANGED <<disk, at, count, hist, crashes>>

(* A command file cannot be moved: the round is lost, the file stays.      *)
CmdFault ==
  /\ pc = "docmd" /\ count > 0
  /\ Fault
  /\ count' = count - 1
  /\ UNCHANGED <<disk, pc, cur, at, hist>>

(* Some of the files that the clean-up removes. *)
CleanedPartly ==
  /\ updir' \in SUBSET updir
  /\ \E gone \in SUBSET TxFiles :
       txs' = [f \in TxFiles |-> IF f \in gone THEN 0 ELSE txs[f]]
  /\ UNCHANGED <<sent, temp, keeplist, cmds, outbox>>

(* What the system() calls of the clean-up return is not looked at. *)
CleanFault ==
  /\ pc = "docmd" /\ count = 0
  /\ Fault
  /\ CleanedPartly
  /\ Return

Prefixes(s) == {SubSeq(s, 1, n) : n \in 0 .. Len(s)}

(* The disk stays, with what a step had done of its work: part of the      *)
(* download directory moved, part of trash/temp or of the clean-up removed,*)
(* a keep.list cut short.                                                  *)
Crash ==
  /\ pc # "idle" /\ crashes < MaxCrashes
  /\ crashes' = crashes + 1 /\ UNCHANGED faults
  /\ Return
  /\ \/ UNCHANGED disk
     \/ /\ pc = "keep" /\ ~ Refused /\ sent[temp].keep # <<>>
        /\ keeplist' \in Prefixes(sent[temp].keep)
        /\ UNCHANGED <<inbox, txs, cmds, outbox>>
     \/ /\ pc = "trash"
        /\ \E moved \in SUBSET download :
             trash' = trash \cup moved /\ download' = download \ moved
        /\ UNCHANGED <<inbox, unpacked>>
     \/ /\ pc = "wipe"
        /\ trash' \in SUBSET trash
        /\ UNCHANGED <<inbox, unpacked, download>>
     \/ /\ pc = "docmd" /\ count = 0
        /\ CleanedPartly /\ (txs' # txs => updir' = {})

-----------------------------------------------------------------------------
Prepare == FindSound \/ FindUnsound \/ TakeDataFile \/ PrepareFails
           \/ GenKeepList \/ GenTxFile \/ GenTxFilesDone \/ GenCmdFile
           \/ GenCmdFilesDone
Keep == MoveToTrash \/ RestoreOne \/ Restored \/ WipeTrash
Mission == SignFile \/ RemoveTxFile \/ MissionDone
Commands == TakeCmd \/ Execute
Run == Prepare \/ Keep \/ Mission \/ Commands \/ CleanUp
Faulty == PrepareFault \/ TrashFault \/ RestoreFault \/ RenameFault
          \/ WipeFault \/ MissionFault \/ RemoveFault \/ CmdFault
          \/ CleanFault

(* What the program does by itself: SignFile and Execute wait for the      *)
(* SpaceChain side.                                                        *)
Own == Prepare \/ Keep \/ RemoveTxFile \/ MissionDone \/ TakeCmd \/ CleanUp

Next == Send \/ CheckDataFile \/ Run \/ Faulty \/ Crash

(* A run, once started, is one sequential program and takes its next step, *)
(* but for the answers of the SpaceChain side: they are waited for without *)
(* a timeout, and may not come. Nothing in the code starts a run: the      *)
(* ground does.                                                            *)
Spec == Init /\ [][Next]_vars
FairSpec == Spec /\ WF_vars(Own)

-----------------------------------------------------------------------------
(* Properties.                                                             *)

Stages == {"idle", "find", "take", "keep", "txs", "cmds", "trash", "restore",
           "wipe", "mission", "rmtx", "docmd", "exec"}

(* Type invariant; spc_do_cmd never has more rounds to go than there are   *)
(* command files, so _getCmdFileName always finds one.                     *)
TypeOK ==
  /\ sent \in Seq(Uploads)
  /\ updir \subseteq 1 .. Len(sent) /\ temp \in 0 .. Len(sent)
  /\ keeplist \in Seq(Names \cup {Bad})
  /\ txs \in [TxFiles -> 0 .. Len(sent)]
  /\ cmds \in [CmdFiles -> 0 .. Len(sent)]
  /\ download \subseteq Names /\ trash \subseteq Names
  /\ cur \in (Names \cup {NoName}) \X (0 .. Len(sent))
  /\ pc \in Stages /\ at \in Nat \ {0}
  /\ pc = "docmd" => count \in 0 .. Cardinality(CmdsLeft)
  /\ signed \subseteq TxFiles \X (1 .. Len(sent))
  /\ done \subseteq CmdFiles \X (1 .. Len(sent))
  /\ left \subseteq Names

(* The entries of a keep list that can be read. *)
Named(list) ==
  {list[n] : n \in {m \in 1 .. Len(list) : \A k \in 1 .. m : list[k] # Bad}}

Stock == download \cup trash

(* No file that the keep list of the upload at hand names is removed from  *)
(* both the download directory and trash/temp, whatever crash came before, *)
(* until a call has failed: when keep.list cannot be opened or a file not  *)
(* renamed, trash/temp is emptied all the same (trash_keepFile does not    *)
(* look at what _mvFileToDownloadDir returns).                             *)
KeepHonoured ==
  [][\A f \in Stock \ Stock' :
       f \notin Named(sent[temp].keep) \/ faults > 0]_vars

(* When the mission starts, the download directory holds nothing that the  *)
(* keep list in force does not name, but for the files that an mv has      *)
(* failed to move in this very run: what the ground has not asked for      *)
(* again is gone, also what crashed runs have left, and what an earlier    *)
(* run could not move.                                                     *)
Pruned ==
  [][(pc \in {"trash", "wipe"} /\ pc' = "mission")
       => download' \subseteq Named(keeplist) \cup left']_vars

(* Whatever is signed or carried out came in an upload whose checksum and  *)
(* signature were checked, although files of refused and crashed runs stay *)
(* in txfiles and server/epub and are used by a later run.                 *)
OnlyVouched == \A p \in signed \cup done : sent[p[2]].sound

(* A command file is carried out at most once per upload, also after a     *)
(* crash: it is moved away first.                                          *)
CommandOnce ==
  [][pc = "exec" /\ pc' = "docmd" => cur \notin done]_vars

(* A data file leaves the upload directory only as the temp.data of a run  *)
(* that vouches for it, or by the clean-up of a run that has come to its   *)
(* end (which takes what has arrived meanwhile, unread).                   *)
UploadFate ==
  [][\A u \in updir \ updir' :
       \/ temp' = u /\ sent[u].sound
       \/ pc = "docmd" /\ temp \notin updir]_vars

(* A run that does not end waits for the SpaceChain side for ever, or      *)
(* signs a file again and again because it cannot be removed: nothing else *)
(* holds it up or goes round, whatever fails or arrives meanwhile.         *)
RunEnds ==
  \/ <>[](pc = "exec" \/ (pc = "mission" /\ \E f \in TxFiles : txs[f] # 0))
  \/ []<><<RemoveFault>>_vars
  \/ (pc # "idle") ~> (pc = "idle")
====
