# Callisto space node: a TLA+ verification project

Callisto is the software of a satellite node that signs Bitcoin multi-signature
transactions in batches. The ground uploads a data file with transactions and
commands; the Linux side unpacks it, has every transaction signed by the
SpaceChain OS side over a virtual network card, and leaves result files that
the ground downloads. There is no interactive operator: a run is cut by a power
cycle at any point, and the next run starts from what is on the disk. This is
where the difficulty lies, and what the models are about.

Paths below: `W/` is `src/Linux_os_part/spcstartwork_dir/src/`, `P/` is
`src/Linux_os_part/spcstart_dir/src/`, `S/` is `src/Spacechain_os_part/spc/`.

## Inventory

| Component | Code | State it keeps | Operations |
|---|---|---|---|
| Run, upload, keep list | `W/spc_start_work.c`, `W/spcmodprepare.c`, `W/spcmodtrash.c`, `W/spcvsig.c` | `upload/`, `prepare/temp/temp.data`, `trash/keep.list`, `trash/temp/`, `transaction/txfiles/`, `server/epub/`, `download/` | check and unpack the one data file; reduce `download/` to the keep list; mission; commands; clean-up |
| Signing mission | `W/spc_start_mission.c`, `W/spcmodparse.c`, `W/spcmodfileops.c`, `W/spcmodhotp.c`, `W/spcmodcrypt.c`, `W/spcmodsign.c` | `transaction/txfiles/`, `transaction/resfiles/`, the counter of each record of `server.list`, `download/` | oldest file first: HOTP check, signing loop, result file, counter, rename, removal |
| Registry and commands | `W/spcmodserver.c`, `W/spc_do_cmd.c`, `W/spc_init_server.c`, `W/spc_update_satpub.c`, `W/spc_update_secret.c`, `W/spcmodseed.c`, `W/spcmodsecret.c` | `server/server.list`, `wallet/`, `certifile/`, the satpub and sec files in `download/` | initialise a server, make ten more key pairs, make a new secret |
| Protocol and keystores | `W/spctcpc.c`, `W/spcserverops_c.c`, `W/spctxops_c.c`, `S/server.c`, `S/spcserverops_s.c`, `S/spctxops_s.c`, `S/spcmoscp.c`, `S/spckeystore.c` | one TCP connection per request; one keystore file per server id | make a keystore, make a key pair, sign a transaction |
| Transaction signing | `S/spctxops_s.c`, `S/spcsign.c`, `S/spcdeserialize.c`, `S/spcserialize.c`, `S/spcscript.c`, `S/spctools.c` | none between requests; the transaction being signed | parse, BIP143 pre-image, sign each input, insert the signature in its witness, measure, serialise |
| Key derivation | `S/spcxkeygen.c`, `S/spckeyget.c` | none | new BIP32 key pair, child keys |
| Node initialisation | `P/spcstart.c`, `P/spc_init_node.c`, `P/spc_cs_1.c`, `P/spc_cs_2.c`, `P/spcmodinit.c`, `P/spcmodnode.c` | `node/*.pem`, the files of the stages in `node/temp/`, `node/mspc.data`, `prepare/deploy/`, `download/` | exchange public keys, two check stages, upgrades |
| RSA, PEM, base32 | `spcrsa.c`, `spcpem.c` (both Linux programs), `W/spc_new_base32.c` | temporary files in `node/temp/` | encrypt, decrypt, verify by running `openssl` |
| Vendored | trezor-crypto in `src/Spacechain_os_part`, `adrvLibs` | | third-party |

How they interact:

- `spcstart` is run once for each order of the ground: the exchange of keys, the
  two stages of the check, later the work (`spc_start_work`). Its stages share
  nothing but the disk. The copies of `spcmodinit.c` and `spcmodnode.c` under `W/`
  have no caller there.
- `spc_start_work` is one sequential program. It calls prepare, keep, mission
  and commands in this order; they share nothing but the disk and a few paths:
  prepare fills `txfiles/`, `epub/` and `keep.list`; the mission and the
  commands both read and write whole records of `server.list`; all of them put
  files into `download/`.
- The mission and the commands call the SpaceChain side, synchronously, with a
  new TCP connection for each request. The server handles one connection at a
  time, has no timeouts, and is a separate process on another operating system:
  either side may die alone.
- The only agreement between the two sides is the index of a key pair:
  `server_start` in `server.list` must be the number of pairs in the keystore.
  The only agreement with the ground is the secret and the counter of a server.

What is hard here: almost every operation is a sequence of writes to different
files, most failures are only logged, and nothing is undone. So the questions
are what a crash or a failure between two writes leaves, what the next run
makes of it, and whether two parties that each keep half of the truth (Linux
and SpaceChain side; satellite and ground) still agree. `PROJECT.json` lists the
hazards at their lines.

What makes each component correct:

- Mission: a code signs at most one file that went well, the counter never goes
  back, a delivered result is complete and exact and is not replaced, no file is
  dropped, and nothing but the SpaceChain side or a file that cannot be removed
  keeps a run from ending.
- Protocol: an accepted answer is true of the keystore and stays true; the two
  sides never wait for each other; every request is answered.
- Registry: ids, key pairs and secrets are given out once; the record, the
  keystore and the ground stay in step when nothing fails; what a failure leaves
  is on the safe side.
- Run: what the ground wants kept is kept, what it does not is removed; only
  what was vouched for is used; each command is carried out once.
- Transaction signing: the answer is the transaction that came, complete, with
  every input signed over what was read before any signature was put in; both
  signatures of an input are in the order of its keys; a transaction cut or
  changed anywhere is refused or is the one that was sent; the answer fills the
  buffer measured for it; what the ground sends half signed is answered.
- Node initialisation: private and public key match wherever it is cut, both
  sides hold the keys of one session, and the second half of the node's message
  is given only for a message that decrypts to the words under the node's key;
  what is sent fits together.

## Modules

| Module | Models | State | Actions |
|---|---|---|---|
| `TxMission` | the signing mission | `txs`, `content`, `counter`, `res`, `dl` on the disk; `pc`, `cur`, `accepted`, `ctr`, `remain`, `pos`, `flag`, `val` in memory | `StartRun`, `PickFile`, `AllDone`, `CleanUp`; `Open*`, `Parse*`, `Loop*`, `Sign*`, `Write*` (one per write), `SaveCounter`, `MoveResult`, `RemoveFile`; `*Fails`; `Crash` |
| `TxMission_proofs` | theorems about it | | |
| `Moscp` | both ends of the protocol and the keystore files | `conns` (messages in flight, which ends are open, reset or not), client script position, server stage, `ks` | client `Connect`, `CSend`, `CRecv`, `CAccept`, `CRecvWrong`, `CReset`; server `Accept`, `SReadCmd`, `SWrite`, `SClose`, `Ks*`, `Kp*`, `Tx*`; `ClientDeath`, `ServerCrash`, `DiskFails` |
| `Moscp_proofs` | theorems about it: what the client accepts; whose turn it is | | |
| `KeyVault` | what the SpaceChain side promises, without a protocol | `vault`, `answers` | `Open`, `Format`, `AddPair`, `Accept` |
| `KeyVault_proofs` | theorem about it | | |
| `Registry` | `server.list` and the commands | `next`, `recs`, `wallet`, `satpubs`, `sec`, `keys`; `pc`, `cmd`, `info`, `idx`; the clock `now`; `secrets`, `again`, `issued`, `undone` are history | one per write or request, a failing form of each, `Crash` |
| `Registry_proofs` | theorems about it | | |
| `Work` | a whole run | the directories, as sets of files and the upload each came in | `Send`, `CheckDataFile`, `Find*`, `TakeDataFile`, `Gen*`, `MoveToTrash`, `RestoreOne`, `WipeTrash`, `SignFile`, `TakeCmd`, `Execute`, `CleanUp`, `*Fault`, `Crash` |
| `Work_proofs` | theorems about it | | |
| `NodeInit` | `spcstart`: the key exchange and the two stages of the interlock | `satprv`, `satpub`, `spcpub`, `deploy`, `taken` (`node/temp`), `mspc`, `temp`, `download` on the disk; `pc`, `order`, `msg` in memory; `keys`, `made`, `checked`, `first`, `agreed`, `clean` are history | `Run`, `GenFile`, `GenFileRefused`; `RmPub`, `RmPrv`, `RmSpc`, `TakeEpub`, `NoEpub`, `GenPrv`, `GenPub`, `SaveSpc`, `PutEpub`; `TakeCs1`, `NoCs1`, `Encrypt`, `SaveLen`, `SaveMspc`, `PutCs1`; `TakeCs2`, `NoCs2`, `CheckGood`, `CheckBad`, `DecryptRefused`, `TempAnswer`, `NoMspc`, `TempRefusal`, `PutCs2`; `*Refused`; `Crash`, `CallFails` |
| `NodeInit_proofs` | theorems about it | | |
| `TxCodec` | reading, measuring and writing a transaction (`spcdeserialize.c`, `spcserialize.c`, `spctools.c`, `spcscript.c`) as functions on sequences of bytes | none | operators with the names of the functions they stand for (`init_tx`, `init_single_witness`, `get_single_output_hex_len`, ...) |
| `TxCodec_proofs` | lemmas about these functions, for data of any length: what was read is what the data begins with (`ParsedTx`), what the data begins with is what is read (`WrittenIsRead`), and what is measured is what is written (`TxLen`) | | |
| `SignTx` | one request to sign, from the datum to the answer (`s_do_sign_tx`, `sign_tx`) | `datum`, `siglen`, `pc`, `orig`, `tx`, `i`, `reslen`, `res` | `Parse`, `SignInput` (one per input), `Measure`, `Write`; `ParseRefused`, `SignRefused`, `MeasureRefused` |
| `SignTx_proofs` | theorems about it | | |
| `MC_*` | instances for TLC | | |

Each module holds, next to some definitions, mutants of them ("Mutant: ..."): the
definition as a plausible bug would have it. They are used by nothing; replacing a
definition by its mutant makes the property `PROJECT.json` names for it fail,
which shows that the property speaks about that line of the code.

`Moscp` implements `KeyVault`: the refinement mapping (`VaultOf`) takes a keystore
file to the pairs its header counts. `Registry` sees the keystore as a number of
pairs that a request increases, which is what `KeyVault` promises; `Work` sees the
mission as one round per file, with or without a result, which is what
`TxMission` does.

### How the models relate to the code

- A step is one write to the disk, one message, or one decision between two. A
  crash (`Crash`, `ServerCrash`, `ClientDeath`) may fall between any two steps;
  where one write has several parts (creating a file and writing it, `mv` of many
  files) the crash also leaves the partial results.
- Writes are durable in the order in which they are made. The code never calls
  `fsync`, so a real power cycle can lose more; that is outside these models.
- Files are abstracted to what the code tells apart. A transaction file is its
  check block (server id and the counter value whose HOTP code was used), the
  number of transactions it announces, and its entries, each readable or not.
  HOTP codes are taken to differ for different counters in and near a window.
- A failing system call is bounded by `MaxFaults` and takes the error path of the
  code, including the errors the code only logs and the results of `system()` it does
  not look at. One failure has no bound: a transaction file that cannot be removed may
  stay so (`RemoveFails`, `RemoveFault`), which is the one failure that repeats work.
- A result file whose header was cut between its three writes keeps the number of
  those that were made (`head`). Nothing completes it: records are appended behind it,
  and a field that is missing is read, incremented and written where the first record
  lies. What is read there is any of `Misread` (a number that is covered by the records
  and one that is not, in the runs), chosen anew each time.
- The secrets of `Registry` are named by the second that seeds them: `hotp_getNewSecret`
  is a function of `time(NULL)`. The clock only runs forward, except that a power cycle
  sets it anywhere. Two different seconds are taken to give two different secrets: for
  a 32-bit seed and 80-bit secrets that is likely and not certain.
- The index of `seed_makeSeed` and the index answered are numbers modulo `U16`, the sum
  `start+MAKEMAX` is not. An entry of a satpub file has the index that is written and,
  for the properties, the number of its pair.
- A key pair is the number of the request that made it; 0 is the all-zero pair
  that is saved when key creation fails.
- In `NodeInit` a half of the ground's message is the key it was encrypted for and
  whether the two halves make the words agreed on. Halves that do not fit are an
  error of `openssl` (no answer) or decrypt to other words (a refusal): a choice.
  A key of the node is the number of its generation. The ground's keys have one
  size, so every encrypted message has one length: `mspc.data`, which is not
  truncated, keeps the old message under the new length. A public key that
  `openssl` writes only in part is sent like a whole one.
  `epub.temp`, `temp.satepub` and `temp.satcs1` are never read after the step that
  makes them and have no variable; `temp.satcs2` is, and has one. The pruning of
  `download/` is part of `Work`, not of `NodeInit`.
- In `SignTx` a request is a datum: the bytes received, and the byte that every
  read behind them returns (`beyond`), because the parser compares with the
  length only after it has read. The answer is compared byte by byte. A count or
  length of 2^24 or more is `Huge`: a datum has at most 102400 bytes.
- Keys and signatures of `SignTx` are symbolic. The key at a path is the last byte
  of the extended key and the path; a signature holds a digest of the pre-image
  (a hash over its bytes as a tree), the key and its length, which the request
  chooses, since the signer's arithmetic decides it. Who verifies it compares.
- `SignTx` is one request of the `Tx*` actions of `Moscp`, which see only whether it
  is answered or refused; `TxMission` sees the same as `SignDone` or `SignRefused`.
- SIGPIPE is not handled by either program, so a write to a reset connection may
  kill the process: that is one of the deaths.

## Runs

| Run | Question | Bounds | Size |
|---|---|---|---|
| `TxMission_crash` | Are codes spent once and counters saved whatever crash cuts a mission? | 2 files, 9 contents, 2 uploads of each, 1 crash, window 2 | 6.3M states |
| `TxMission_fault` | Is what is delivered exact, does it stay, what can keep a run from ending, with a failing call anywhere? | 2 files, 1 upload, 1 fault, `remove` failing for ever | 492k |
| `TxMission_remain` | Is an invalid `txs_remain` rejected, as the message at `W/spcmodparse.c:514` says? (no) | `U32` = 8 | violation |
| `Moscp_safety` | Are answers true, and is nobody stranded? | 1 id, 4 requests, 1 death of each side, 1 failing write, 16-bit index cut to 1 bit | 2M |
| `Moscp_vault` | Does the protocol implement `KeyVault`; does every request end? | 4 requests, 1 server crash, 1 failing write | 300k |
| `Registry_commands` | Are ids, pairs and secrets given out once; do the records stay in step? | 2 ids, 2 pairs per command, 4 commands, indexes modulo 5, 2 seconds, 1 refusal, 1 fault, 1 crash | 1.1M |
| `Registry_undone` | Does a failed last write undo the initialisation, as the comment says? (no) | 1 id, 1 command, 1 fault | violation |
| `Work_uploads` | Is what the keep list names kept, is only what was vouched for used, once; what can keep a run from ending? | 6 kinds of upload, 3 uploads, 1 crash, 1 fault, `remove` failing for ever | 1.7M |
| `NodeInit_cut` | Do the keys match, does the exchange agree, is the second half given only after the words were found, wherever a run is cut? | 1 session, 2 keys of the ground, 4 runs, 1 crash, 1 fault | 876k |
| `NodeInit_calm` | Do the halves fit and is every file consumed, in whatever order the ground sends its orders? | 2 sessions, 2 keys, 5 runs | 8.5M |
| `SignTx_requests` | Is an answer complete, does it verify, is it the transaction that came, does it fill its buffer; is what the ground sends half signed answered? | 1 or 2 inputs, 2 outputs; the requests below | 15.7k |
| `SignTx_short` | Is a length of a signature that `sign_single_input` lets pass accepted by what follows? (no) | the same | violation |

Why these bounds are enough. The mission treats files one after the other and
two files of one server are the smallest case in which one file's counter matters
to another; two uploads are the smallest in which a result is made twice. A window
of 2 has a first, a last and a next code. Four requests make a keystore, two pairs
and a signature, and one of them can be spoilt. `MakeMax` 2 has a first and a last
pair. Three uploads allow one that fails, one that repairs and one that looks at
what is left. One crash and one fault each: a second crash starts again from a
disk that the bounds on uploads and commands already let arise, and the proofs
about the mission and the initialisation hold for any number. Five runs are an
exchange, a first stage, a second exchange with another key, and both stages: the
shortest way to a message, a key and a half that are all outdated. In one session
(`NodeInit_cut`) everything has the same name and so the most is overwritten.

The requests of `SignTx` have the node's key and the ground's signature in every
pair of places; witnesses with no signature, with two, with the node's place taken,
with an empty slot, without or with twice the node's key, with one item more or
less, and with scripts that differ in one byte; each of them as the first and as
the second of two inputs, so that a refusal falls before and after a good one;
signatures of 69 to 73 bytes; a datum cut at every byte, followed by 0, 1 or 255;
one byte at every place changed to 0, 1, 2, 253, 254 or 255; scripts of 252, 253
and 300 bytes, around the boundary of the variable-length integers; a script whose
length stands behind the head 255, with the six bytes nobody looks at zero or not; and
lists of inputs, outputs or witnesses that are missing or longer than what follows.

`U32` (8 in the runs), `IndexModulus` (2 and 8) and `U16` (5, with `MakeMax` 2: no
multiple of it, like 65536 and 10) stand for 2^32 and 2^16, so that wrapping is
reached; `MaxPairs` ends the loop that wrapping makes endless. `MaxTime` 2 allows two
secrets in one second, in two, and the same one after the clock was set back. Every bound is a `Max*` constant named in its module.

`CHECK_DEADLOCK FALSE` everywhere: between runs the program is not running, and
the bounds on what the environment does are reached.

### Fairness

`TxMission` and `Work` assume `WF(Own)`: each is one sequential program, which takes
its next step once started, as long as that is a step of its own. Uploads, starts,
crashes and faults are not fair. Nor is the answer of the SpaceChain side (`Sign` in
`TxMission`, `SignFile` and `Execute` in `Work`): it is waited for without a timeout,
and the receive loop does not even leave when the other side has gone
(`S/spcmoscp.c:46`, and the same loop on the Linux side). So `EveryRunEnds`
and `RunEnds` do not say that every run ends; they name the only ways in which one does
not: it waits for the SpaceChain side for ever, or a file that cannot be removed is
signed again and again. `Moscp` says when the SpaceChain side answers. It assumes weak
fairness of each process separately, while it is alive; the restart of a server that
has died is not assumed.
`Registry`, `NodeInit` and `SignTx` need none: only safety is asked of them. (The loop
of `seed_makeSeed` does not end at its last start, see below; those of `SignTx` go over
lists of a length fixed before.) No strong fairness is used.

## What is proved

For all values of the constants (any files, contents, windows, numbers of
uploads, crashes and faults), by TLAPS:

- `TypeCorrect`: `Spec => []TypeOK` of `TxMission`.
- `SpentCodes`, `NoReplayThm`, `CounterNeverFalls`: a code that has signed a file to
  the end lies below the saved counter, so it never signs another record, and no
  step lowers a counter.
- `UnspentRelease`: a signed result in `download/` whose code is still unspent
  belongs to a file on which `start_sign_tx_file` returned -1.
- `CountsHold`: no result file announces more than it holds, whatever cuts or fails
  between the writes of its header and of a record, in the fields of the header that
  were written. A field that a cut has left out is read from the first record, and
  nothing is said of it: such a file may announce anything.
- `ExactResults`: while nothing crashes or fails, a delivered result holds one record
  per transaction, in the order of the file, and header counts that agree with them.
- `FilesHandled`, `ResultsStay`: no transaction file leaves `txfiles/` but at the end
  of its round, unless a call has failed; and a delivered result is replaced only
  when its file was sent again, or a crash or failure left it behind.
- `Registry_proofs`: `TypeCorrect`; `IdsOnce`, an id is issued once; `PairsOnce`, no key
  pair is released twice, and none that the keystore does not hold or under an index
  that is not its own, wherever indexes wrap; `CounterKept`, a counter falls only
  together with a new secret, to 1, which the ground has been given before, or by a
  secret update that makes the old secret again, in a second in which one was made
  before; `StaysInStep`, while nothing fails
  every record agrees with the keystore and the ground whenever no command runs.
- `Work_proofs`: `VouchedOnly`, only what came in a checked upload is used;
  `CommandsOnce`; `UploadFates`, a data file leaves `upload/` only into a run that
  vouches for it or by the clean-up of a run that ended; `KeepListHonoured`, what the
  keep list names is not lost unless a call has failed; `DownloadPruned`, when the
  mission starts `download/` holds only what the list names and what an `mv` of this
  run has failed to move; `WorkTyped`,
  `Spec => []TypeOK`.
- `AnswerCompleteThm` (`SignTx_proofs`): what is answered is the transaction that was
  read, with every input signed from what was read, for any number of inputs.
- `AnswersWhatCameThm` (`SignTx_proofs`): an answer is given only to data that begins,
  byte for byte, with the transaction that was read, although `init_tx` compares lengths
  after it has read and goes on after a list it could not read. The one exemption is in
  the property (`LongLength`): behind the head 255 of a length the code reads two bytes
  and skips eight, so a script or item of the transaction that stands behind such a head
  has six bytes before it that may be anything. `Longest` in `MC_SignTx` are requests
  that need it.
- `BufferFilledThm` (`SignTx_proofs`): `serialize_tx` fills the buffer that
  `get_tx_hex_len` measured, to the last byte.
- `AnswerVerifiesThm` (`SignTx_proofs`): every input of an answer holds the signature
  that came and the node's, in the order of their keys, and the node's is one of what
  was read.
- `WrittenIsRead` (`TxCodec_proofs`): from data that begins with the partial form of a
  transaction `init_tx` returns that transaction and the position behind it, whatever
  follows and however long its lists, scripts and items are. With `AnswersWhatCameThm`
  the parser is right in both directions.
- `HalfSignedAnsweredThm` (`SignTx_proofs`): a transaction that the ground sends half
  signed is not refused by any check of `init_tx`, `sign_tx` or `get_tx_hex_len`, while
  the node's signatures come out with 71 or 72 bytes (finding 3 is what happens to
  shorter ones).
- `Moscp_proofs`: `TypeCorrect`; `PairsKept`, a key pair the client was given an index
  for stays in its keystore at that index, as long as the index fits 16 bits;
  `SignedThm`, a signed transaction is the one asked for, signed with the pair asked
  for; `VaultImplemented`, the protocol and the keystore files implement `KeyVault`,
  provided that there are no more requests than a 16-bit index has values
  (`MaxReq <= IndexModulus`): each request adds at most one pair.
- also `Moscp_proofs`: `ServerAttended`, while the client process lives the server never
  waits for a client that has gone or that waits for it; `ClientAnswered`, while the
  server process lives the client never waits on a connection the server has closed.
  The one allows crashes of the server, the other deaths of the client.
- `AnswersHold` (`KeyVault_proofs`): an answer that was accepted stays true.
- `KeysAlwaysMatch` (`NodeInit_proofs`): the public key on the node is that of its
  private key, or there is none.
- `InterlockHolds` (`NodeInit_proofs`): what leaves the node, or lies ready to, holds
  the second half of a message only if, while that was the node's message, both halves
  of one came in that decrypts to the words agreed on under the node's private key.
  This is what `init_cs2` checks, and no more: the sender knows the words and the
  node's public key. It does not show that the sender holds a private key; only what
  the second half is encrypted for (`HalvesFit`) ties the answer to the ground's key.
- `NodeTyped`, `ExchangeHolds`, `HalvesAlwaysFit`, `DeployAlwaysDrained`
  (`NodeInit_proofs`): types; the two sides of an exchange that has ended well hold
  each other's keys, through whatever comes after; and while nothing is cut, stage 2
  gives the half that belongs to the first half given, and no file stays in the deploy
  directory.

Assumptions: `ConstantsAssumption` of `TxMission` (the files have time stamps,
servers have non-zero ids, `U32` exceeds `TxsNumMax + 1` and the number of
transactions in any file, which the code finds by an offset of 32 bits), evaluated by
TLC in every run of the mission; `NodeAssumption` (the ground's keys are non-zero, the
bounds natural numbers), evaluated by the runs of `NodeInit`; `RegistryAssumption` (the bounds are natural numbers, `MaxId`,
`MakeMax` and `MaxTime` at least 1, `U16` greater than `MakeMax`) and `WorkAssumption` (transaction and command files, names and
the two non-names are different, uploads are uploads), evaluated by the runs of
`Registry` and `Work`; and `MoscpAssumption` (the bounds and indexes are natural
numbers, the modulus is at least 1, `NoTx` is no transaction), evaluated by the runs
of `Moscp`. `SignTxAssumption` says that what is received are bytes, fewer than
`Huge` (a datum has at most 102400), that the request has a length for each
signature, of 9 to 73 bytes, and that the transactions the ground makes requests from
(`Sent`) are bytes in the fields of `SPC_TX`, with a witness for every input; the runs
of `SignTx` evaluate it. Only `HalfSignedAnsweredThm` speaks of `Sent`. The proof about
`KeyVault` uses none.

The argument. None of the mission's properties is inductive as it stands: the
counter that decides about a code is in memory (`ctr`) until the last step. The
invariant `IInv` of `TxMission_proofs` ties memory to disk. It is the conjunction of

- `TypeOK` and `SpentBelowCounter`;
- `AcceptedOK`: while a file with an accepted code is in progress, its server is in
  the list, its code is in the window of the counter *on the disk*, and `ctr` is the
  code plus one;
- `SignedOK`: only an accepted code reaches a signature or the save;
- `ResSignedOK`: a result in `resfiles/` with a signature was made in a window, which
  the counter can only have moved past;
- `RefusedOK`: when its code is refused now, or its round has ended well, the code of
  a signed result is spent;
- `DlSignedOK`: so is that of a signed result in `download/`, unless
  `start_sign_tx_file` failed on its file.

`RefusedOK` is what carries a result over a crash: a file cut between the save and
its removal is refused in the next run, and only then moved over the delivered
result. Each conjunct has one lemma, with a case for each action that touches it
and frame lemmas (`CounterFrame`, `SignedFrame`, ...) for those that do not; TLC
checked the conjuncts first.

`ExactResults` takes another invariant: while nothing has failed, a result file is
there only in the round of its transaction file, and `Progress` says where the unsigned
`txs_remain` and the position stand when so many records are written. A file that
announces none and is refused takes `txs_remain` around to `U32`; it cannot come back
to 0 before the body ends, because the body is shorter than `U32`, so that round ends
with -1 and the theorem makes no claim of a complete result.

The keys of the node match because the public key is removed first and made last:
`KeysInv` says that there is none while the new pair is under way. The interlock
rests on `EarnedInv`: what lies in `node/temp` is an answer of stage 2, and when it,
or `download/`, holds a second half, then of a message for which the words were found. The case
worth reading is `EarnedRefusal`: a refusal is written over what a cut run left
and may carry its half along.

`AgreedInv` says that nothing is agreed from the first key removed to the delivery of the
new public key, and that no stage outside touches a key. For `HalvesFit` the question
is what half is in `spc.cs1`: it is `Bound` when it was made for the key pair the node
has. `FilesInv` has every file of the ground made for a key that exists, so a new key
pair unbinds it; a half is then bound only by a stage 1 or 2 after the initialisation,
when the ground's key has come, and the message on the disk is the one given.
`DrainInv` follows the one file through the deploy directory, by the kind its stage
takes.

The counts of a result file lag behind its records by exactly the writes still to
come: `CountsInv` says that a record is not yet covered at the write of the length,
nor a covered one counted at the write of the number, each for a field that is there
(`HasLen`, `HasNum`); `head` never changes once the file is made. `ResultsStay` needs
`OncePerUpload`: a file uploaded once that has a delivered result is not waiting any
more, but for the moment of its removal.

In `Registry` the difficulty is the record `info`, which a command reads, holds
while it talks to the other side and writes back whole. `SecretsOK` ties it to the
list: every secret is of a second in which one was made (`SecretsKnown`), and whoever
holds a record in memory has the list's counter with the list's secret (`AsListed`), or
is an update with the counter 1 and another secret, or with `again` set (`Renewed`).
For the key pairs `PairsOK` says that
`server_start` is behind the keystore, in the list and in memory (`StartBehind`,
`InfoBehind`), that a pair about to be saved is later than all that were released
(`PairFresh`), that what is in `wallet/` or a satpub file has been made, under the index
that stands there (`Made`), and that no two of them share a pair (`Apart`). The index
check of `seed_makeSeed` ties the index of the entry to the pair. `TypeCorrect` needs
what 16 bits do to the loop: where the pairs of a command end below 2^16 (`Fits`) the
index is between them; where they do not, the loop has no end, so that nothing is
released and `server_start` is not increased. The lemmas `Remainder` to
`RemainderOfNext` are the arithmetic of that. An id once issued is below
`next` (`IssuedBelow`), since the counter is written back before the id is used. `StaysInStep` is about
the record under way: `Others` says that all other records agree, `Own` how far the
keystore and the ground are ahead of the one in memory, stage by stage; a stage that
stops half way counts as a failure (`CalmStops`).

In `Work` every file is the number of the upload it came in. `Numbered` says that
these numbers exist, `VouchedUse` that all of them outside `upload/` were checked,
and `Fresh` that an upload that waits has not been unpacked and a command that was
carried out is not there from the same upload, which gives `CommandsOnce`. For the
keep list `ListInForce` says that from the end of the keep section to the end of
`trash_keepFile` the list on the disk is that of the upload at hand, unless its
section is empty, and `PutBack` that what is in `download/` was named or left there by a
failing `mv` (`left`) and, without a failing call, everything named is out of `trash/temp` when that is wiped. `WorkTyped` needs to know
that the loop over the commands, which counts them once before it begins, never counts
below zero: `RunTyped` bounds the count by the commands that are left.

`sign_tx` changes the transaction in place, so `AnswerComplete` has to be said half
way: nothing but witnesses changes (`SameBody`), the inputs so far are signed from
the original (`SignedUpTo`), the others untouched (`UntouchedBehind`); `SameSigned`
shows that an input is signed alike in the changed transaction and the original.
`JInv` adds where the transaction and the buffer come from: `orig` is what `init_tx`
makes of the datum (`Parsed`), `reslen` and `res` are made from the signed one
(`Measured`). With it three of the properties are facts about functions, proved in
`TxCodec_proofs`. `ParsedTx` goes down the parser: a count or length that is read has
the bytes `gen_varint` writes for it (`Minimal` refuses the others), a field ends where
the next begins, a list is the concatenation of its elements, and the comparisons of
`Within` and `TxWith` at the end show that all of it lay in the data. `TxLen` goes
through measuring and writing side by side, with one lemma per pair of functions. Both
need induction over the elements of a list: the readers and sums are functions on
`0 .. n`, and the lemma `Induction` takes the *set* of the numbers for which something
holds, which the provers can instantiate. For `AnswerVerifies`, `TwoTaken` shows that the
two slots that go into the new witness are the one that was filled and the one the node
signed, in the order of the keys (`SignedAs`); and `Scriptcode` that the script of the
answer, which the code builds from the derived keys, has each key where `PlainKey`, the
network's reading of a script, finds it.

`HalfSignedAnswered` goes the other way: not from what succeeded back to the data, but
from the data to success. `Lies` says that a text lies in the data at a position, and a
concatenation lies there only when its parts lie one behind the other (`LiesCat`). Each
reader gives back what the matching writer wrote (`VarintBack`, `SizedBack`, `InputBack`,
`OutputBack`, `WitnessBack`), a list is read back when all its elements are
(`ReadFromBack`), and `FlatLeast` shows that the rough comparisons the code makes before
it reads a list (so many inputs of at least 41 bytes, for example) refuse none that is
there. For an input, `OrderIs` finds the place the node takes, `SlotSigned` that every
count and length on the way to the new witness is the expected one; `UntouchedBehind` and
`SameSigned` carry both over to the transaction that `sign_tx` has half changed, and
`SentMeasured` shows that the size is not 0, which would be an error. So none of the three
refusals can be the next step (`RefusedNext`).

In `Moscp` an answer is true long before it is read, and it passes through a
connection of which either end may have died. `IInv` follows it backwards.
`Accepted` says it of what the client took; `Answering` of every message on its way
to the client that is not behind an error (`Warns`), and that a public key comes
behind its index (`IndexFirst`); `InMemory` of what the server holds between two
writes, `Files` of the header and the pair of a keystore between two disk writes.
A step that fails leaves what is untrue in the server's memory, and is harmless
because an error is on its way first, or the client has gone (`Warned`). Requests are
kept apart by `Own` and `Serving`: what the server reads on a connection was sent for
the request of that connection, and `OneServed` has it serve the last one only.
For the refinement `PairsBelow` says that a keystore holds fewer pairs than requests
were served, all made by earlier ones, so `AddPair` adds a new pair and its index is
not cut.

Whose turn it is takes the two ends together. `Turn` says, for each stage
of the server, at which step of its script the client can be and how much is on its way
in either direction: at `tx_cmd`, for example, either the 0x32 is on its way and nothing
else, or it has been read and the client is ahead by what it has sent since.
`Talking` says this of the request in progress, until its connection is reset, and
that a connection the server has closed has an error on its way or all that the client
still waits for (`Settled`). `Attended` is the other half: the client leaves no
connection before the server has come to a stage from which it does not read again
(`Past`), as only there can the client's next message be the last or a wrong one
(`LeaveTurn`). Deaths of the client break only the second, crashes of the server only
`Settled`, which is why the two theorems need one of them each.

Only model-checked: liveness (`EveryRunEnds`, `RequestEnds`, `RunEnds`), because fairness
is outside the prover's reach. Every safety property that a run checks is also a theorem.

## Findings

1. `W/spcmodparse.c:493` (`TxMission_remain`): a transaction file that announces 0
   transactions, with a code outside the window, makes the unsigned `txs_remain`
   wrap to 2^32-1; void records are then written until `_moveToNextTx` runs off the
   file. The branch that refuses an "invalid remain value" cannot be reached.
2. `W/spc_init_server.c:90-95` (`Registry_undone`): a failed last write leaves the
   record of the new server with start 0, against the comment; the server can
   never get another key pair.

3. `S/spcsign.c:743` (`SignTx_short`): `sign_single_input` refuses a signature "if(sig_len
   < 70)" with the message "wrong sig_len." (`S/spcsign.c:1299-1301`); the next step,
   `insert_new_sig_to_list`, takes 71 or 72 only. A signature of 70 bytes refuses
   the transaction, and as signatures are deterministic, each time it is sent.

Behaviour met while modelling that no text of the repository contradicts, stated
so that it is not rediscovered:

- After a refused signature (`flag`), the next good signature of the file is not
  written and ends the file.
- A code stays valid when its file ends with -1 after some of its records were
  signed and delivered (`UnspentMeansFailed` names exactly this case).
- A crash after the counter is saved and before the file is removed makes the next
  run answer the file with void records, over the delivered result.
- An upload with an empty keep section applies the `keep.list` of the last upload
  that had one. Without any `keep.list` the results move to `trash/temp` and stay.
- A data file whose check fails stays in `upload/`; the next one makes two, and
  `prepare_checkDataFile` refuses every later run.
- A command file is lost when the run dies while it is carried out.
- `NoInfo0`: after a crash between the two writes that make `server.list` no
  server can ever be initialised.
- `spc_init_node` removes the keys before it looks for a file: an order without a
  readable file leaves a node without keys.
- A file that a cut run leaves in `prepare/deploy` makes every later stage of its
  kind refuse, as soon as the next file has another name.
- The two stages do not compare sessions: a second half of one session is joined to
  the first half of another, and answered if the result decrypts.
- A message that cannot be decrypted gets no answer file; one that decrypts to other
  words gets a refusal with length 0, which may be followed by the half an earlier
  cut run left there (`SecondHalfEarned` holds of it).
- After a first stage that was cut before its answer, stage 2 answers with a half
  whose other half was never given (`HalvesFit` holds only while nothing is cut).

- A result file whose header is cut between its three writes (`W/spcmodparse.c:361-386`)
  is never completed: the next run of the file appends to it, and reads and increments
  bytes of its first record as the length and the number (`W/spcmodparse.c:444-487`).
- At start 65530 the loop of `seed_makeSeed` does not end (`W/spcmodseed.c:248`): the
  index wraps to 0 after 65535, and stays below the `int` sum. Six pairs are written, all
  later ones are refused by `_saveXpubToFile`, the satpub file is never released. A server
  has 65530 pairs.
- A secret depends on the second only (`W/spc_update_secret.c:35`,
  `W/spc_init_server.c:42`): two servers initialised in one second share theirs, and an
  update in a second that has been used before (the clock was set back) brings back the
  same secret with the counter 1, so that spent codes are valid again. Hence the
  exception in `CounterPerSecret`.
- An `mv` that fails leaves files in `download/` that the keep list does not name
  (`W/spcmodtrash.c:16`); the next run moves them away.
- A transaction file that cannot be removed is signed again for ever
  (`W/spc_start_mission.c:380`, `408`).
- A rename of a result that fails is only logged (`W/spc_start_mission.c:398`): the
  result stays in `resfiles/`, and only another upload of that file delivers it,
  behind what the new round appends.
- A pair that cannot be saved to `wallet/` is only logged (`SaveFails`): the satpub file
  is released with a hole, and the pair is known to the keystore alone.
- After a `seed_makeSeed` that stopped half way the keystore is ahead of
  `server_start`: each later one makes one more pair, finds a wrong index, and ends.
- A request that fails does not close its socket (`W/spctcpc.c:49`).
- Behind the head 0xff of a length only two of the eight bytes are read, and all are
  skipped (`S/spcdeserialize.c:756`); a count behind it is read in full, and refused
  when four bytes could hold it (`S/spctools.c:212`).
- `init_tx` goes on when a list has no elements: a transaction without inputs, outputs
  or witnesses is parsed, and refused only when it is signed.

## Not modelled, and why

- `fsync`-less loss of writes, and corruption of files other than by a cut write.
- The bytes of messages, names, keys, signatures, encryption and encodings, but
  for those of transactions (`TxCodec`).
- Key derivation and elliptic-curve arithmetic (numbers out of TLC's reach).
- Memory: allocation that fails, what error paths free; descriptor leaks.
- Of the signing: scripts whose key pushes are shorter than 83 bytes, or of another
  form than two keys of three, beyond what the requests change in single bytes.
- The temporary files of `spcrsa.c` (the `openssl` command line reads and writes
  files in `node/temp/`); base64 and base32 encodings.
- `spctest.c`, a hand-run test, and the copies of `spcmodinit.c` and `spcmodnode.c` in
  `W/`, which nothing there calls.
- Of the node initialisation: the upgrade scripts that `spcstart` runs (not in the
  repository), `deploy/checksum`, and the names of files.
- Vendored code: headers of OpenSSL, libgcrypt and zlib in `adrvLibs`, and
  trezor-crypto. Three quarters of the lines of the repository are theirs, so
  the models cover a small part of all lines, and about half of the code that is
  this project's own; what remains of it is logging, paths, encodings, byte order,
  memory, and the parts listed here.

## Plan

Order: the behaviour the node exists for first, then what feeds it, then the
algorithms.

1. `TxMission`, `KeyVault`, `Moscp`, `Registry`, `Work`, `NodeInit`, `TxCodec`, `SignTx`. Done.
2. Proofs about `TxMission`, `KeyVault`, `NodeInit`, `SignTx`, `Registry`, `Work`, `Moscp`, and
   its refinement of `KeyVault`. Done, up to what "only model-checked" lists.
3. `SpaceNode`: `TxMission` and `Registry` over one `server.list` and one
   `KeyVault`; the mission shown to implement the rounds of `Work`.
4. The temporary files of `spcrsa.c`.
