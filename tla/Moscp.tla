------------------------------- MODULE Moscp -------------------------------
(***************************************************************************)
(* The command protocol between the Linux side and the SpaceChain side     *)
(* over TCP (spcmoscp.c), its client (spctcpc.c, spcserverops_c.c,         *)
(* spctxops_c.c), its server (server.c, spcserverops_s.c, spctxops_s.c)    *)
(* and the keystore files the server keeps (spckeystore.c).                *)
(*                                                                         *)
(* The client makes one request per connection and one at a time. It does  *)
(* not close the connection of a request that failed. Both sides read in   *)
(* a loop that an end of file does not leave: a side that waits for a peer *)
(* that has gone waits for ever, unless the connection was reset.          *)
(***************************************************************************)
EXTENDS Integers, Sequences, FiniteSets

CONSTANTS
  Ids,            \* server ids
  Indexes,        \* key indexes the client asks to sign with
  Txs,            \* transactions
  NoTx,
  IndexModulus,   \* number of values of a uint16_t
  MaxReq,         \* bound: requests
  MaxDeaths,      \* bound: how often the client process dies
  MaxCrashes,     \* bound: how often the server process dies
  MaxFaults       \* bound: failing disk writes

ASSUME MoscpAssumption ==
  /\ Indexes \subseteq Nat /\ NoTx \notin Txs
  /\ IndexModulus \in Nat \ {0} /\ MaxReq \in Nat
  /\ MaxDeaths \in Nat /\ MaxCrashes \in Nat /\ MaxFaults \in Nat

VARIABLES
  conns,     \* the connections: one per request made
  \* client
  creq,      \* number of the request in progress, 0 when there is none
  cstep,     \* its next step in the script of its kind
  cidx,      \* the index read from a 0x22
  \* server
  spc,       \* where the server stands
  sconn,     \* connfd
  scmd,      \* id and index of the command it serves
  skey,      \* key pair in memory, 0: all zero
  stx,       \* tx_data
  ks,        \* keystore files
  \* history and bounds
  answers,   \* the answers the client has accepted
  deaths, crashes, faults

client == <<creq, cstep, cidx>>
server == <<spc, sconn, scmd, skey, stx>>
bounds == <<deaths, crashes, faults>>
vars == <<conns, client, server, ks, answers, bounds>>

Cmds == {"11", "12", "21", "22", "31", "32", "41", "42", "51", "52", "data",
         "ee", "ff"}
Message == [cmd : Cmds, id : Ids, index : Nat, tx : Txs \cup {NoTx},
            key : Nat]
Request == [kind : {"keystore", "keypair"}, id : Ids, index : {0}, tx : {NoTx}]
           \cup [kind : {"sign"}, id : Ids, index : Indexes, tx : Txs]

(* A connection: the request it was made for, what is on its way to the    *)
(* server and to the client, which ends are open, whether it was reset.    *)
Conn == [req : Request, c2s : Seq(Message), s2c : Seq(Message),
         copen : BOOLEAN, sopen : BOOLEAN, rst : BOOLEAN]

(* A keystore file: its key_pairs_num and the pairs behind the header. *)
NoFile == -2
NoHeader == -1

Init ==
  /\ conns = <<>>
  /\ creq = 0 /\ cstep = 1 /\ cidx = 0
  /\ spc = "accept" /\ sconn = 0 /\ scmd = <<>> /\ skey = 0 /\ stx = NoTx
  /\ ks = [i \in Ids |-> [num |-> NoFile, pairs |-> <<>>]]
  /\ answers = {}
  /\ deaths = 0 /\ crashes = 0 /\ faults = 0

Msg(cmd, id, index, tx, key) ==
  [cmd |-> cmd, id |-> id, index |-> index, tx |-> tx, key |-> key]

-----------------------------------------------------------------------------
(* The client.                                                             *)

(* What it sends and what it waits for, in order. *)
Send(cmd) == [do |-> "send", cmd |-> cmd]
Recv(cmd) == [do |-> "recv", cmd |-> cmd]
Script(kind) ==
  CASE kind = "keystore" -> <<Send("11"), Recv("12")>>
    [] kind = "keypair"  -> <<Send("21"), Recv("22"), Recv("data")>>
    [] kind = "sign"     -> <<Send("31"), Recv("32"), Send("41"), Send("data"),
                              Recv("42"), Send("51"), Recv("52"), Recv("data")>>

CReq == conns[creq].req
CNext == Script(CReq.kind)[cstep]
CLast == cstep = Len(Script(CReq.kind))

(* socket and connect; the request fails at once when nobody listens. *)
Connect ==
  /\ creq = 0 /\ Len(conns) < MaxReq /\ spc # "down"
  /\ \E r \in Request :
       conns' = Append(conns, [req |-> r, c2s |-> <<>>, s2c |-> <<>>,
                               copen |-> TRUE, sopen |-> TRUE, rst |-> FALSE])
  /\ creq' = Len(conns') /\ cstep' = 1 /\ cidx' = 0
  /\ UNCHANGED <<server, ks, answers, bounds>>

(* write: the first one to a closed peer is lost and resets the connection.*)
Put(c, m) == IF c.sopen THEN [c EXCEPT !.c2s = Append(@, m)]
                        ELSE [c EXCEPT !.rst = TRUE]

CSend ==
  /\ creq # 0 /\ CNext.do = "send" /\ ~ conns[creq].rst
  /\ conns' = [conns EXCEPT ![creq] =
                 Put(@, Msg(CNext.cmd, CReq.id, CReq.index, CReq.tx, 0))]
  /\ cstep' = cstep + 1
  /\ UNCHANGED <<creq, cidx, server, ks, answers, bounds>>

(* The request fails: its connection stays open; a signing request that    *)
(* has come past its 0x32 says finish.                                     *)
Finish(c) == IF c.req.kind = "sign" /\ cstep > 2 /\ ~ c.rst
               THEN Put(c, Msg("ff", c.req.id, 0, NoTx, 0)) ELSE c

GiveUp == creq' = 0 /\ cstep' = 1 /\ cidx' = 0

(* Does the message received fit the step of the script? *)
Fits(m) ==
  /\ m.cmd = CNext.cmd
  /\ m.cmd # "data" => m.id = CReq.id
  /\ m.cmd \in {"32", "42", "52"} => m.index = CReq.index

Rest(c) == [c EXCEPT !.s2c = Tail(@)]

CRecv ==
  /\ creq # 0 /\ CNext.do = "recv" /\ ~ CLast
  /\ conns[creq].s2c # <<>> /\ Fits(Head(conns[creq].s2c))
  /\ conns' = [conns EXCEPT ![creq] = Rest(@)]
  /\ cstep' = cstep + 1
  /\ cidx' = Head(conns[creq].s2c).index
  /\ UNCHANGED <<creq, server, ks, answers, bounds>>

(* The last message of the request: the answer is taken, the connection    *)
(* closed.                                                                 *)
CloseClient(c) == [c EXCEPT !.copen = FALSE, !.rst = @ \/ c.s2c # <<>>]

CAccept ==
  /\ creq # 0 /\ CNext.do = "recv" /\ CLast
  /\ conns[creq].s2c # <<>> /\ Fits(Head(conns[creq].s2c))
  /\ conns' = [conns EXCEPT ![creq] = CloseClient(Rest(@))]
  /\ answers' = answers \cup
       {[req |-> creq, kind |-> CReq.kind, id |-> CReq.id,
         index |-> IF CReq.kind = "keypair" THEN cidx ELSE CReq.index,
         tx |-> Head(conns[creq].s2c).tx, key |-> Head(conns[creq].s2c).key]}
  /\ GiveUp
  /\ UNCHANGED <<server, ks, bounds>>

CRecvWrong ==
  /\ creq # 0 /\ CNext.do = "recv"
  /\ conns[creq].s2c # <<>> /\ ~ Fits(Head(conns[creq].s2c))
  /\ conns' = [conns EXCEPT ![creq] = Finish(Rest(@))]
  /\ GiveUp
  /\ UNCHANGED <<server, ks, answers, bounds>>

(* read or write returns -1 on a connection that was reset. *)
CReset ==
  /\ creq # 0 /\ conns[creq].rst
  /\ GiveUp
  /\ UNCHANGED <<conns, server, ks, answers, bounds>>

(* The process is killed (a power cycle; SIGPIPE when it writes to a       *)
(* connection that was reset): every connection it has left open closes.   *)
ClientDeath ==
  /\ deaths < MaxDeaths /\ \E k \in DOMAIN conns : conns[k].copen
  /\ conns' = [k \in DOMAIN conns |-> IF conns[k].copen THEN CloseClient(conns[k])
                                                        ELSE conns[k]]
  /\ GiveUp
  /\ deaths' = deaths + 1
  /\ UNCHANGED <<server, ks, answers, crashes, faults>>

-----------------------------------------------------------------------------
(* The server.                                                             *)

Goto(stage) == spc' = stage /\ UNCHANGED <<sconn, scmd, skey, stx>>

(* Connections are accepted in the order they were made. *)
Accept ==
  /\ spc = "accept"
  /\ \E k \in DOMAIN conns :
       /\ k > sconn /\ conns[k].sopen
       /\ \A j \in DOMAIN conns : (j > sconn /\ conns[j].sopen) => k <= j
       /\ sconn' = k
  /\ spc' = "read"
  /\ UNCHANGED <<scmd, skey, stx, conns, client, ks, answers, bounds>>

Waiting == {"read", "tx_cmd", "tx_data", "tx_start"}
Incoming == Head(conns[sconn].c2s)
Taken == conns' = [conns EXCEPT ![sconn].c2s = Tail(@)]
CanRead == spc \in Waiting /\ conns[sconn].c2s # <<>>

(* spc_recv_cmd_from_sock and the dispatch of main. *)
SReadCmd ==
  /\ spc = "read" /\ CanRead
  /\ Taken
  /\ scmd' = [id |-> Incoming.id, index |-> Incoming.index]
  /\ spc' = CASE Incoming.cmd = "11" -> "ks_open"
              [] Incoming.cmd = "21" -> "kp_create"
              [] Incoming.cmd = "31" -> "tx_get"
              [] OTHER -> "close"
  /\ UNCHANGED <<sconn, skey, stx, client, ks, answers, bounds>>

(* read returns -1. *)
SReset ==
  /\ spc \in Waiting /\ conns[sconn].rst
  /\ Goto(IF spc = "read" THEN "close" ELSE "error")
  /\ UNCHANGED <<conns, client, ks, answers, bounds>>

-----------------------------------------------------------------------------
(* What it writes to the client.                                           *)

Reply ==
  CASE spc \in {"ks_error", "kp_error", "error"} -> "ee"
    [] spc = "ks_ack" -> "12"
    [] spc = "kp_ack" -> "22"
    [] spc = "tx_ack" -> "32"
    [] spc = "tx_dack" -> "42"
    [] spc = "tx_sack" -> "52"
    [] spc \in {"kp_xpub", "tx_res"} -> "data"

Writing == {"ks_error", "kp_error", "error", "ks_ack", "kp_ack", "tx_ack",
            "tx_dack", "tx_sack", "kp_xpub", "tx_res"}

(* Where it goes on when the write is done: after an error in              *)
(* s_do_gen_new_keystore or create_single_key_pair it goes on as if        *)
(* nothing had happened.                                                   *)
(* Mutant: after an error the server waits for another command. *)
AfterWriteStays ==
  CASE spc = "ks_error" -> "ks_ack"
    [] spc = "kp_error" -> "kp_save"
    [] spc = "kp_ack" -> "kp_xpub"
    [] spc = "tx_ack" -> "tx_cmd"
    [] spc = "tx_dack" -> "tx_start"
    [] spc = "tx_sack" -> "tx_res"
    [] spc = "error" -> "read"
    [] OTHER -> "close"

AfterWrite ==
  CASE spc = "ks_error" -> "ks_ack"
    [] spc = "kp_error" -> "kp_save"
    [] spc = "kp_ack" -> "kp_xpub"
    [] spc = "tx_ack" -> "tx_cmd"
    [] spc = "tx_dack" -> "tx_start"
    [] spc = "tx_sack" -> "tx_res"
    [] OTHER -> "close"

AfterFailedWrite ==
  CASE spc \in {"ks_error", "kp_error"} -> AfterWrite
    [] spc \in {"ks_ack", "error"} -> "close"
    [] OTHER -> "error"

(* write: the first one to a closed peer is lost here too. *)
SPut(c, m) == IF c.copen THEN [c EXCEPT !.s2c = Append(@, m)]
                         ELSE [c EXCEPT !.rst = TRUE]

SWrite ==
  /\ spc \in Writing /\ ~ conns[sconn].rst
  /\ conns' = [conns EXCEPT ![sconn] =
                 SPut(@, Msg(Reply, scmd.id, scmd.index, stx, skey))]
  /\ Goto(AfterWrite)
  /\ UNCHANGED <<client, ks, answers, bounds>>

SWriteFails ==
  /\ spc \in Writing /\ conns[sconn].rst
  /\ Goto(AfterFailedWrite)
  /\ UNCHANGED <<conns, client, ks, answers, bounds>>

SClose ==
  /\ spc = "close"
  /\ conns' = [conns EXCEPT ![sconn].sopen = FALSE,
                            ![sconn].rst = @ \/ conns[sconn].c2s # <<>>]
  /\ spc' = "accept" /\ skey' = 0 /\ stx' = NoTx
  /\ UNCHANGED <<sconn, scmd, client, ks, answers, bounds>>

-----------------------------------------------------------------------------
(* s_do_gen_new_keystore and gen_new_keystore.                             *)

(* Mutant: a keystore file that is there already will do. *)
KsExistsWillDo ==
  /\ spc = "ks_open" /\ ks[scmd.id].num # NoFile
  /\ Goto("ks_ack")
  /\ UNCHANGED <<conns, client, ks, answers, bounds>>

KsExists ==
  /\ spc = "ks_open" /\ ks[scmd.id].num # NoFile
  /\ Goto("ks_error")
  /\ UNCHANGED <<conns, client, ks, answers, bounds>>

KsOpen ==
  /\ spc = "ks_open" /\ ks[scmd.id].num = NoFile
  /\ ks' = [ks EXCEPT ![scmd.id].num = NoHeader]
  /\ Goto("ks_header")
  /\ UNCHANGED <<conns, client, answers, bounds>>

KsHeader ==
  /\ spc = "ks_header"
  /\ ks' = [ks EXCEPT ![scmd.id].num = 0]
  /\ Goto("ks_ack")
  /\ UNCHANGED <<conns, client, answers, bounds>>

(* s_do_gen_new_keypair. The pair of request k is named k. *)
KpCreate ==
  /\ spc = "kp_create"
  /\ \/ spc' = "kp_save" /\ skey' = sconn
     \/ spc' = "kp_error" /\ skey' = 0
  /\ UNCHANGED <<sconn, scmd, stx, conns, client, ks, answers, bounds>>

(* save_key_pair: the pair is written behind the pairs the header counts,  *)
(* over what a write without a header has left there, then the header.     *)
KpRefused ==
  /\ spc = "kp_save" /\ ks[scmd.id].num < 0
  /\ Goto("error")
  /\ UNCHANGED <<conns, client, ks, answers, bounds>>

(* Mutant: nothing is written.                                             *)
PutNothing(f, k) == f

PutPair(f, k) == [f EXCEPT !.pairs = Append(SubSeq(@, 1, f.num), k)]

KpPair ==
  /\ spc = "kp_save" /\ ks[scmd.id].num >= 0
  /\ ks' = [ks EXCEPT ![scmd.id] = PutPair(@, skey)]
  /\ Goto("kp_header")
  /\ UNCHANGED <<conns, client, answers, bounds>>

(* Mutant: the index returned is the number just written. *)
KpHeaderIndexAfter ==
  /\ spc = "kp_header"
  /\ ks' = [ks EXCEPT ![scmd.id].num = @ + 1]
  /\ scmd' = [scmd EXCEPT !.index = (ks[scmd.id].num + 1) % IndexModulus]
  /\ spc' = "kp_ack"
  /\ UNCHANGED <<sconn, skey, stx, conns, client, answers, bounds>>

(* Its last write; the index returned is the number read before, cut to    *)
(* 16 bits.                                                                *)
KpHeader ==
  /\ spc = "kp_header"
  /\ ks' = [ks EXCEPT ![scmd.id].num = @ + 1]
  /\ scmd' = [scmd EXCEPT !.index = ks[scmd.id].num % IndexModulus]
  /\ spc' = "kp_ack"
  /\ UNCHANGED <<sconn, skey, stx, conns, client, answers, bounds>>

(* A write to the keystore file fails. *)
DiskFails ==
  /\ spc \in {"ks_header", "kp_save", "kp_header"}
  /\ spc = "kp_save" => ks[scmd.id].num >= 0
  /\ faults < MaxFaults /\ faults' = faults + 1
  /\ Goto(IF spc = "ks_header" THEN "ks_error" ELSE "error")
  /\ UNCHANGED <<conns, client, ks, answers, deaths, crashes>>

-----------------------------------------------------------------------------
(* s_do_sign_tx.                                                           *)

Stored(id, index) == ks[id].num > index

(* Mutants: the first pair is read; a refused index is not answered.       *)
TxGetFirst ==
  /\ spc = "tx_get"
  /\ IF Stored(scmd.id, scmd.index)
       THEN spc' = "tx_ack" /\ skey' = ks[scmd.id].pairs[1]
       ELSE spc' = "error" /\ UNCHANGED skey
  /\ UNCHANGED <<sconn, scmd, stx, conns, client, ks, answers, bounds>>

TxGetSilent ==
  /\ spc = "tx_get"
  /\ IF Stored(scmd.id, scmd.index)
       THEN spc' = "tx_ack" /\ skey' = ks[scmd.id].pairs[scmd.index + 1]
       ELSE spc' = "close" /\ UNCHANGED skey
  /\ UNCHANGED <<sconn, scmd, stx, conns, client, ks, answers, bounds>>

TxGet ==
  /\ spc = "tx_get"
  /\ IF Stored(scmd.id, scmd.index)
       THEN spc' = "tx_ack" /\ skey' = ks[scmd.id].pairs[scmd.index + 1]
       ELSE spc' = "error" /\ UNCHANGED skey
  /\ UNCHANGED <<sconn, scmd, stx, conns, client, ks, answers, bounds>>

Expected(cmd) == /\ Incoming.cmd = cmd
                 /\ Incoming.id = scmd.id /\ Incoming.index = scmd.index

TxCmd ==
  /\ spc = "tx_cmd" /\ CanRead
  /\ Taken
  /\ Goto(IF Expected("41") THEN "tx_data" ELSE "error")
  /\ UNCHANGED <<client, ks, answers, bounds>>

TxData ==
  /\ spc = "tx_data" /\ CanRead
  /\ Taken
  /\ stx' = Incoming.tx
  /\ spc' = "tx_dack"
  /\ UNCHANGED <<sconn, scmd, skey, client, ks, answers, bounds>>

TxStart ==
  /\ spc = "tx_start" /\ CanRead
  /\ Taken
  /\ Goto(IF Expected("51") THEN "tx_sign" ELSE "error")
  /\ UNCHANGED <<client, ks, answers, bounds>>

(* init_tx, sign_tx, get_tx_hex_len and serialize_tx, any of which may     *)
(* refuse the transaction.                                                 *)
TxSign ==
  /\ spc = "tx_sign"
  /\ \E stage \in {"tx_sack", "error"} : Goto(stage)
  /\ UNCHANGED <<conns, client, ks, answers, bounds>>

-----------------------------------------------------------------------------
(* The server process dies and is started again; connections that wait to  *)
(* be accepted, and those with unread data, are reset.                     *)

ServerCrash ==
  /\ spc # "down" /\ crashes < MaxCrashes
  /\ crashes' = crashes + 1
  /\ conns' = [k \in DOMAIN conns |->
                 IF conns[k].sopen
                   THEN [conns[k] EXCEPT !.sopen = FALSE,
                           !.rst = @ \/ k > sconn \/ conns[k].c2s # <<>>]
                   ELSE conns[k]]
  /\ spc' = "down" /\ skey' = 0 /\ stx' = NoTx
  /\ UNCHANGED <<sconn, scmd, client, ks, answers, deaths, faults>>

ServerRestart ==
  /\ spc = "down"
  /\ Goto("accept")
  /\ UNCHANGED <<conns, client, ks, answers, bounds>>

-----------------------------------------------------------------------------
ClientStep == CSend \/ CRecv \/ CAccept \/ CRecvWrong \/ CReset
Keystores == KsExists \/ KsOpen \/ KsHeader \/ KpCreate \/ KpRefused
             \/ KpPair \/ KpHeader
Signing == TxGet \/ TxCmd \/ TxData \/ TxStart \/ TxSign
ServerStep == Accept \/ SReadCmd \/ SReset \/ SWrite \/ SWriteFails \/ SClose
              \/ Keystores \/ Signing
Failing == ClientDeath \/ ServerCrash \/ DiskFails

Next == Connect \/ ClientStep \/ ServerStep \/ ServerRestart \/ Failing

(* Either process, while it is alive, takes its next step. *)
Spec == Init /\ [][Next]_vars
FairSpec == Spec /\ WF_vars(ClientStep) /\ WF_vars(ServerStep)

-----------------------------------------------------------------------------
(* Properties.                                                             *)

Stages == {"down", "accept", "close", "ks_open", "ks_header", "kp_create",
           "kp_save", "kp_header", "tx_get", "tx_sign"} \cup Waiting \cup Writing

(* Type invariant; a header never counts more pairs than the file holds.   *)
TypeOK ==
  /\ conns \in Seq(Conn) /\ Len(conns) <= MaxReq
  /\ creq \in 0 .. Len(conns) /\ cstep \in 1 .. 8 /\ cidx \in Nat
  /\ spc \in Stages /\ sconn \in 0 .. Len(conns)
  /\ scmd = <<>> \/ scmd \in [id : Ids, index : Nat]
  /\ skey \in 0 .. MaxReq /\ stx \in Txs \cup {NoTx}
  /\ ks \in [Ids -> [num : Int, pairs : Seq(0 .. MaxReq)]]
  /\ \A i \in Ids : ks[i].num \in {NoFile, NoHeader} \cup 0 .. Len(ks[i].pairs)

(* A key pair the client was given an index for is in the keystore, at     *)
(* that index, real and for ever, through crashes of both sides and        *)
(* failing writes, as long as the keystore holds no more pairs than a      *)
(* uint16_t can index (save_key_pair cuts the index, not the number).      *)
PairKept ==
  \A a \in answers :
    (a.kind = "keypair" /\ ks[a.id].num <= IndexModulus) =>
      /\ a.key # 0
      /\ Stored(a.id, a.index)
      /\ ks[a.id].pairs[a.index + 1] = a.key

(* A signed transaction is the one that was asked for, signed with the     *)
(* pair stored under the id and index that were asked for.                 *)
SignedAsAsked ==
  \A a \in answers : a.kind = "sign" =>
    /\ a.tx = conns[a.req].req.tx
    /\ Stored(a.id, a.index)
    /\ ks[a.id].pairs[a.index + 1] = a.key

(* The server waits for a message only while the request it serves is in   *)
(* progress and it is the client's turn to read or write; never for a client that  *)
(* has given up, and never while the client waits for it.                  *)
ServerNotStranded ==
  (spc \in Waiting /\ ~ conns[sconn].rst /\ conns[sconn].c2s = <<>>) =>
    \/ creq = sconn /\ (CNext.do = "send" \/ conns[sconn].s2c # <<>>)
    \/ deaths > 0

(* The client waits on a connection the server has closed only after the   *)
(* server process has died: every refusal is answered before the close.    *)
ClientNotStranded ==
  (/\ creq # 0 /\ CNext.do = "recv"
   /\ conns[creq].s2c = <<>> /\ ~ conns[creq].sopen /\ ~ conns[creq].rst)
    => crashes > 0

(* Every request ends, with an answer or an error, unless a process dies.  *)
RequestEnds ==
  \A k \in 1 .. MaxReq :
    (creq = k) ~> (creq # k \/ deaths > 0 \/ crashes > 0)

(* The protocol and the keystore files implement the abstract vault: the   *)
(* pairs are those the header counts. Nothing the header counts is ever    *)
(* written again, and a keystore reported as made has its header: the      *)
(* error of gen_new_keystore reaches the client before the 0x12 that       *)
(* follows it. (For fewer pairs than a uint16_t has values.)               *)
VaultOf(f) ==
  [state |-> CASE f.num = NoFile -> "absent" [] f.num = NoHeader -> "broken"
               [] OTHER -> "ready",
   pairs |-> SubSeq(f.pairs, 1, f.num)]

Vault == INSTANCE KeyVault WITH
           vault <- [i \in Ids |-> VaultOf(ks[i])], Keys <- 0 .. MaxReq

ImplementsVault == Vault!VaultSpec
====
