---------------------------- MODULE Moscp_proofs ----------------------------
(***************************************************************************)
(* The command protocol, for any ids, transactions, requests, deaths of    *)
(* either process and failing writes: what the client accepts is true of   *)
(* the keystore files, the protocol implements the key vault, and neither  *)
(* side is left waiting for the other.                                     *)
(***************************************************************************)
EXTENDS Moscp, SequenceTheorems, TLAPS

-----------------------------------------------------------------------------
(* The invariant.                                                          *)

KsStages == {"ks_open", "ks_header", "ks_error", "ks_ack"}
KpStages == {"kp_create", "kp_error", "kp_save", "kp_header", "kp_ack", "kp_xpub"}
TxStages == {"tx_get", "tx_ack", "tx_cmd", "tx_data", "tx_dack", "tx_start",
             "tx_sign", "tx_sack", "tx_res"}
Served == KsStages \cup KpStages \cup TxStages \cup {"error"}

(* What the keystore of an id holds at an index. *)
Holds(id, index, key) ==
  Stored(id, index) /\ ks[id].pairs[index + 1] = key

(* The same of an index that was cut to 16 bits. *)
HoldsCut(id, index, key) ==
  ks[id].num <= IndexModulus => Holds(id, index, key)

(* The server serves one connection, the last it has accepted. *)
OneServed ==
  /\ spc \notin {"accept", "down"} => sconn # 0
  /\ \A k \in 1 .. Len(conns) :
       (conns[k].sopen /\ k <= sconn) => k = sconn /\ spc \notin {"accept", "down"}

(* A message m on connection k, made for request r, when the client makes   *)
(* request c.                                                              *)
Own(m, k, r, c) ==
  /\ m.id = r.id
  /\ m.cmd # "ff" => m.index = r.index /\ m.tx = r.tx
  /\ m.cmd = "ff" => c # k
  /\ m.cmd = "11" => r.kind = "keystore"
  /\ m.cmd = "21" => r.kind = "keypair"
  /\ m.cmd = "31" => r.kind = "sign"

(* A client's request is made of its own messages. *)
Sent ==
  \A k \in 1 .. Len(conns) : \A n \in 1 .. Len(conns[k].c2s) :
    Own(conns[k].c2s[n], k, conns[k].req, creq)

(* The server serves the request of its connection. *)
Serving ==
  /\ spc \in Served => scmd # <<>> /\ scmd.id = conns[sconn].req.id
  /\ spc \in KsStages => conns[sconn].req.kind = "keystore"
  /\ spc \in KpStages => conns[sconn].req.kind = "keypair"
  /\ spc \in TxStages => /\ conns[sconn].req.kind = "sign"
                         /\ scmd.index = conns[sconn].req.index

(* The client is at a step of the script of its request. *)
Asking == creq # 0 => cstep <= Len(Script(CReq.kind))

(* An error is on its way to the client, before the n-th message. *)
Warns(k, n) == \E j \in 1 .. Len(conns[k].s2c) : j < n /\ conns[k].s2c[j].cmd = "ee"

(* The client will not accept what is written to connection k from now on. *)
Warned(k) == creq # k \/ conns[k].rst \/ Warns(k, Len(conns[k].s2c) + 1)

(* The header of a keystore and the pair written behind it. *)
Files ==
  /\ spc = "ks_header" => ks[scmd.id].num = NoHeader
  /\ spc = "ks_ack" => ks[scmd.id].num >= 0 \/ Warned(sconn)
  /\ spc = "kp_header" => LET f == ks[scmd.id] IN
       f.num >= 0 /\ Len(f.pairs) = f.num + 1 /\ f.pairs[f.num + 1] = skey

(* The pair in the server's memory, and the transaction.                   *)
SavedStages == {"kp_save", "kp_header", "kp_ack", "kp_xpub"}
DataStages == {"tx_dack", "tx_start", "tx_sign", "tx_sack", "tx_res"}

InMemory ==
  /\ spc \in SavedStages => skey = sconn \/ (skey = 0 /\ Warned(sconn))
  /\ spc = "kp_error" => skey = 0
  /\ spc = "kp_ack" => HoldsCut(scmd.id, scmd.index, skey)
  /\ spc \in TxStages \ {"tx_get"} => Holds(scmd.id, scmd.index, skey)
  /\ (spc \in DataStages /\ creq = sconn) => stx = conns[sconn].req.tx

(* The client has read the 0x22 of its request. *)
HasIndex ==
  cstep = 3 /\ HoldsCut(CReq.id, cidx, creq)

(* The 0x22 comes before the public key. *)
IndexFirst ==
  (spc = "kp_xpub" /\ ~ Warned(sconn)) =>
    IF conns[sconn].s2c = <<>> THEN HasIndex
    ELSE conns[sconn].s2c[Len(conns[sconn].s2c)].cmd = "22"

(* What is on its way to the client: message m says of request r on        *)
(* connection k what is true, and a public key comes after its 0x22.       *)
Says(m, r, k) ==
  /\ (r.kind = "keystore" /\ m.cmd = "12") => ks[r.id].num >= 0
  /\ (r.kind = "keypair" /\ m.cmd = "22") => HoldsCut(r.id, m.index, k)
  /\ (r.kind = "keypair" /\ m.cmd = "data") => m.key = k
  /\ (r.kind = "sign" /\ m.cmd = "data") =>
       Holds(r.id, r.index, m.key) /\ m.tx = r.tx

InOrder(k, n) ==
  (conns[k].req.kind = "keypair" /\ conns[k].s2c[n].cmd = "data") =>
    IF n = 1 THEN HasIndex ELSE conns[k].s2c[n - 1].cmd = "22"

TrueMessage(k, n) == Says(conns[k].s2c[n], conns[k].req, k) /\ InOrder(k, n)

Answering ==
  creq # 0 => \A n \in 1 .. Len(conns[creq].s2c) : Warns(creq, n) \/ TrueMessage(creq, n)

(* Each connection adds at most one pair, named after it. *)
PairsBelow ==
  \A i \in Ids :
    /\ ks[i].num <= sconn
    /\ \A n \in 1 .. ks[i].num : ks[i].pairs[n] <= sconn
    /\ spc \in {"read", "kp_create", "kp_save", "kp_error", "kp_header"} =>
         /\ ks[i].num < sconn
         /\ \A n \in 1 .. ks[i].num : ks[i].pairs[n] < sconn

(* What the client has accepted: answer a, in the keystores.               *)
Kinds == {"keystore", "keypair", "sign"}

Right(a) ==
  /\ a.id \in Ids /\ a.index \in Nat /\ a.kind \in Kinds
  /\ a.kind = "keystore" => ks[a.id].num >= 0
  /\ a.kind = "keypair" => a.key = a.req /\ HoldsCut(a.id, a.index, a.key)
  /\ a.kind = "sign" => Holds(a.id, a.index, a.key)

Accepted ==
  \A a \in answers :
    /\ a.req \in 1 .. Len(conns) /\ a.req # creq
    /\ Right(a)
    /\ a.kind = "sign" => a.tx = conns[a.req].req.tx

IInv ==
  /\ TypeOK /\ OneServed /\ Sent /\ Serving /\ Asking /\ Files
  /\ InMemory /\ IndexFirst /\ Answering /\ PairsBelow /\ Accepted

-----------------------------------------------------------------------------
(* The messages, requests and scripts.                                     *)

LEMMA RequestType ==
  ASSUME NEW r \in Request
  PROVE  r.kind \in Kinds /\ r.id \in Ids /\ r.index \in Nat /\ r.tx \in Txs \cup {NoTx}
<1>1. CASE r \in [kind : {"keystore", "keypair"}, id : Ids, index : {0}, tx : {NoTx}]
  BY <1>1 DEF Kinds
<1>2. CASE r \in [kind : {"sign"}, id : Ids, index : Indexes, tx : Txs]
  BY <1>2, MoscpAssumption DEF Kinds
<1> QED  BY <1>1, <1>2 DEF Request

LEMMA MsgType ==
  ASSUME NEW cmd \in Cmds, NEW id \in Ids, NEW index \in Nat,
         NEW tx \in Txs \cup {NoTx}, NEW key \in Nat
  PROVE  /\ Msg(cmd, id, index, tx, key) \in Message
         /\ Msg(cmd, id, index, tx, key).cmd = cmd
         /\ Msg(cmd, id, index, tx, key).id = id
         /\ Msg(cmd, id, index, tx, key).index = index
         /\ Msg(cmd, id, index, tx, key).tx = tx
         /\ Msg(cmd, id, index, tx, key).key = key
<1>1. Msg(cmd, id, index, tx, key) \in Message
  BY Zenon DEF Msg, Message
<1>2. Msg(cmd, id, index, tx, key) =
        [cmd |-> cmd, id |-> id, index |-> index, tx |-> tx, key |-> key]
  BY DEF Msg
<1> QED  BY <1>1, <1>2

(* Step n of the script of a kind. *)
At(kind, n, do, cmd) ==
  Script(kind)[n].do = do /\ Script(kind)[n].cmd = cmd

LEMMA KeystoreScript ==
  ASSUME NEW kind, kind = "keystore", NEW n \in Int
  PROVE  /\ Len(Script(kind)) = 2
         /\ n = 1 => At(kind, n, "send", "11")
         /\ n = 2 => At(kind, n, "recv", "12")
<1>1. Script(kind) = <<Send("11"), Recv("12")>>
  BY DEF Script
<1> QED  BY <1>1 DEF At, Send, Recv

LEMMA KeypairScript ==
  ASSUME NEW kind, kind = "keypair", NEW n \in Int
  PROVE  /\ Len(Script(kind)) = 3
         /\ n = 1 => At(kind, n, "send", "21")
         /\ n = 2 => At(kind, n, "recv", "22")
         /\ n = 3 => At(kind, n, "recv", "data")
<1>1. Script(kind) = <<Send("21"), Recv("22"), Recv("data")>>
  BY DEF Script
<1> QED  BY <1>1 DEF At, Send, Recv

LEMMA SignScript ==
  ASSUME NEW kind, kind = "sign", NEW n \in Int
  PROVE  /\ Len(Script(kind)) = 8
         /\ n = 1 => At(kind, n, "send", "31")
         /\ n = 2 => At(kind, n, "recv", "32")
         /\ n = 3 => At(kind, n, "send", "41")
         /\ n = 4 => At(kind, n, "send", "data")
         /\ n = 5 => At(kind, n, "recv", "42")
         /\ n = 6 => At(kind, n, "send", "51")
         /\ n = 7 => At(kind, n, "recv", "52")
         /\ n = 8 => At(kind, n, "recv", "data")
<1>1. Script(kind) = <<Send("31"), Recv("32"), Send("41"), Send("data"),
                        Recv("42"), Send("51"), Recv("52"), Recv("data")>>
  BY DEF Script
<1> QED  BY <1>1 DEF At, Send, Recv

(* What a client that is at step n of its script sends or waits for. *)
StepOf(kind, last, do, cmd) ==
  \/ kind = "keystore" /\ ~ last /\ do = "send" /\ cmd = "11"
  \/ kind = "keystore" /\ last /\ do = "recv" /\ cmd = "12"
  \/ kind = "keypair" /\ ~ last /\ do = "send" /\ cmd = "21"
  \/ kind = "keypair" /\ ~ last /\ do = "recv" /\ cmd = "22"
  \/ kind = "keypair" /\ last /\ do = "recv" /\ cmd = "data"
  \/ kind = "sign" /\ ~ last /\ do = "send" /\ cmd \in {"31", "41", "data", "51"}
  \/ kind = "sign" /\ ~ last /\ do = "recv" /\ cmd \in {"32", "42", "52"}
  \/ kind = "sign" /\ last /\ do = "recv" /\ cmd = "data"

LEMMA ScriptFacts ==
  ASSUME NEW kind \in Kinds, NEW n \in 1 .. 8, n <= Len(Script(kind))
  PROVE  /\ StepOf(kind, n = Len(Script(kind)), Script(kind)[n].do, Script(kind)[n].cmd)
         /\ Len(Script(kind)) \in 1 .. 8
<1>1. CASE kind = "keystore"
  <2>a. Len(Script(kind)) = 2
    BY <1>1, KeystoreScript
  <2>b. n = 1 \/ n = 2
    BY <2>a
  <2>1. CASE n = 1
    <3>1. At(kind, n, "send", "11")
      BY <1>1, <2>1, KeystoreScript
    <3>2. n # Len(Script(kind)) /\ Len(Script(kind)) \in 1 .. 8
      BY <2>a, <2>1
    <3> QED  BY <1>1, <3>1, <3>2, Zenon DEF At, StepOf
  <2>2. CASE n = 2
    <3>1. At(kind, n, "recv", "12")
      BY <1>1, <2>2, KeystoreScript
    <3>2. n = Len(Script(kind)) /\ Len(Script(kind)) \in 1 .. 8
      BY <2>a, <2>2
    <3> QED  BY <1>1, <3>1, <3>2, Zenon DEF At, StepOf
  <2> QED  BY <2>b, <2>1, <2>2
<1>2. CASE kind = "keypair"
  <2>a. Len(Script(kind)) = 3
    BY <1>2, KeypairScript
  <2>b. n = 1 \/ n = 2 \/ n = 3
    BY <2>a
  <2>1. CASE n = 1
    <3>1. At(kind, n, "send", "21")
      BY <1>2, <2>1, KeypairScript
    <3>2. n # Len(Script(kind)) /\ Len(Script(kind)) \in 1 .. 8
      BY <2>a, <2>1
    <3> QED  BY <1>2, <3>1, <3>2, Zenon DEF At, StepOf
  <2>2. CASE n = 2
    <3>1. At(kind, n, "recv", "22")
      BY <1>2, <2>2, KeypairScript
    <3>2. n # Len(Script(kind)) /\ Len(Script(kind)) \in 1 .. 8
      BY <2>a, <2>2
    <3> QED  BY <1>2, <3>1, <3>2, Zenon DEF At, StepOf
  <2>3. CASE n = 3
    <3>1. At(kind, n, "recv", "data")
      BY <1>2, <2>3, KeypairScript
    <3>2. n = Len(Script(kind)) /\ Len(Script(kind)) \in 1 .. 8
      BY <2>a, <2>3
    <3> QED  BY <1>2, <3>1, <3>2, Zenon DEF At, StepOf
  <2> QED  BY <2>b, <2>1, <2>2, <2>3
<1>3. CASE kind = "sign"
  <2>a. Len(Script(kind)) = 8
    BY <1>3, SignScript
  <2>b. n = 1 \/ n = 2 \/ n = 3 \/ n = 4 \/ n = 5 \/ n = 6 \/ n = 7 \/ n = 8
    BY <2>a
  <2>1. CASE n = 1
    <3>1. At(kind, n, "send", "31")
      BY <1>3, <2>1, SignScript
    <3>2. n # Len(Script(kind)) /\ Len(Script(kind)) \in 1 .. 8
      BY <2>a, <2>1
    <3> QED  BY <1>3, <3>1, <3>2, Zenon DEF At, StepOf
  <2>2. CASE n = 2
    <3>1. At(kind, n, "recv", "32")
      BY <1>3, <2>2, SignScript
    <3>2. n # Len(Script(kind)) /\ Len(Script(kind)) \in 1 .. 8
      BY <2>a, <2>2
    <3> QED  BY <1>3, <3>1, <3>2, Zenon DEF At, StepOf
  <2>3. CASE n = 3
    <3>1. At(kind, n, "send", "41")
      BY <1>3, <2>3, SignScript
    <3>2. n # Len(Script(kind)) /\ Len(Script(kind)) \in 1 .. 8
      BY <2>a, <2>3
    <3> QED  BY <1>3, <3>1, <3>2, Zenon DEF At, StepOf
  <2>4. CASE n = 4
    <3>1. At(kind, n, "send", "data")
      BY <1>3, <2>4, SignScript
    <3>2. n # Len(Script(kind)) /\ Len(Script(kind)) \in 1 .. 8
      BY <2>a, <2>4
    <3> QED  BY <1>3, <3>1, <3>2, Zenon DEF At, StepOf
  <2>5. CASE n = 5
    <3>1. At(kind, n, "recv", "42")
      BY <1>3, <2>5, SignScript
    <3>2. n # Len(Script(kind)) /\ Len(Script(kind)) \in 1 .. 8
      BY <2>a, <2>5
    <3> QED  BY <1>3, <3>1, <3>2, Zenon DEF At, StepOf
  <2>6. CASE n = 6
    <3>1. At(kind, n, "send", "51")
      BY <1>3, <2>6, SignScript
    <3>2. n # Len(Script(kind)) /\ Len(Script(kind)) \in 1 .. 8
      BY <2>a, <2>6
    <3> QED  BY <1>3, <3>1, <3>2, Zenon DEF At, StepOf
  <2>7. CASE n = 7
    <3>1. At(kind, n, "recv", "52")
      BY <1>3, <2>7, SignScript
    <3>2. n # Len(Script(kind)) /\ Len(Script(kind)) \in 1 .. 8
      BY <2>a, <2>7
    <3> QED  BY <1>3, <3>1, <3>2, Zenon DEF At, StepOf
  <2>8. CASE n = 8
    <3>1. At(kind, n, "recv", "data")
      BY <1>3, <2>8, SignScript
    <3>2. n = Len(Script(kind)) /\ Len(Script(kind)) \in 1 .. 8
      BY <2>a, <2>8
    <3> QED  BY <1>3, <3>1, <3>2, Zenon DEF At, StepOf
  <2> QED  BY <2>b, <2>1, <2>2, <2>3, <2>4, <2>5, <2>6, <2>7, <2>8
<1> QED  BY <1>1, <1>2, <1>3 DEF Kinds

-----------------------------------------------------------------------------
(* What happens to a connection.                                           *)

LEMMA ConnTypes ==
  ASSUME NEW c \in Conn
  PROVE  /\ c.req \in Request /\ c.c2s \in Seq(Message) /\ c.s2c \in Seq(Message)
         /\ c.rst \in BOOLEAN /\ c.copen \in BOOLEAN /\ c.sopen \in BOOLEAN
         /\ c.s2c # <<>> => Head(c.s2c) \in Message /\ Head(c.s2c) = c.s2c[1]
         /\ c.c2s # <<>> => Head(c.c2s) \in Message /\ Head(c.c2s) = c.c2s[1]
  BY DEF Conn

LEMMA PutEffect ==
  ASSUME NEW c \in Conn, NEW m \in Message
  PROVE  LET d == Put(c, m) IN
         /\ d \in Conn /\ d.req = c.req /\ d.s2c = c.s2c /\ d.sopen = c.sopen
         /\ d.copen = c.copen
         /\ d.c2s = c.c2s \/ d.c2s = Append(c.c2s, m)
         /\ c.rst => d.rst
<1>1. Append(c.c2s, m) \in Seq(Message)
  BY DEF Conn
<1>2. CASE c.sopen
  BY <1>1, <1>2 DEF Put, Conn
<1>3. CASE ~ c.sopen
  BY <1>3 DEF Put, Conn
<1> QED  BY <1>2, <1>3

LEMMA SPutEffect ==
  ASSUME NEW c \in Conn, NEW m \in Message
  PROVE  LET d == SPut(c, m) IN
         /\ d \in Conn /\ d.req = c.req /\ d.c2s = c.c2s /\ d.sopen = c.sopen
         /\ d.s2c = Append(c.s2c, m) \/ (d.s2c = c.s2c /\ d.rst)
         /\ c.rst => d.rst
<1>1. Append(c.s2c, m) \in Seq(Message)
  BY DEF Conn
<1>2. CASE c.copen
  BY <1>1, <1>2 DEF SPut, Conn
<1>3. CASE ~ c.copen
  BY <1>3 DEF SPut, Conn
<1> QED  BY <1>2, <1>3

LEMMA RestEffect ==
  ASSUME NEW c \in Conn, c.s2c # <<>>
  PROVE  LET d == Rest(c) IN
         /\ d \in Conn /\ d.req = c.req /\ d.c2s = c.c2s /\ d.sopen = c.sopen
         /\ d.s2c = Tail(c.s2c) /\ d.rst = c.rst /\ d.copen = c.copen
<1>1. Tail(c.s2c) \in Seq(Message)
  BY DEF Conn
<1> QED  BY <1>1 DEF Rest, Conn

LEMMA CloseEffect ==
  ASSUME NEW c \in Conn
  PROVE  LET d == CloseClient(c) IN
         /\ d \in Conn /\ d.req = c.req /\ d.c2s = c.c2s /\ d.sopen = c.sopen
         /\ d.s2c = c.s2c
         /\ c.rst => d.rst
  BY DEF CloseClient, Conn

LEMMA TakeEffect ==
  ASSUME NEW c \in Conn, c.c2s # <<>>
  PROVE  LET d == [c EXCEPT !.c2s = Tail(c.c2s)] IN
         /\ d \in Conn /\ d.req = c.req /\ d.c2s = Tail(c.c2s) /\ d.sopen = c.sopen
         /\ d.s2c = c.s2c /\ d.rst = c.rst
<1>1. Tail(c.c2s) \in Seq(Message)
  BY DEF Conn
<1> QED  BY <1>1 DEF Conn

(* One connection is changed, the others are not. *)
LEMMA OneConn ==
  ASSUME conns \in Seq(Conn), NEW k \in 1 .. Len(conns), NEW c \in Conn,
         conns' = [conns EXCEPT ![k] = c]
  PROVE  /\ conns' \in Seq(Conn) /\ Len(conns') = Len(conns)
         /\ \A j \in 1 .. Len(conns) : conns'[j] = IF j = k THEN c ELSE conns[j]
  BY ExceptSeq

-----------------------------------------------------------------------------
(* What a step does to the connections.                                    *)

(* What the client and the server write.                                   *)
Asked == Msg(CNext.cmd, CReq.id, CReq.index, CReq.tx, 0)
GivenUp == Msg("ff", CReq.id, 0, NoTx, 0)
Written == Msg(Reply, scmd.id, scmd.index, stx, skey)

ToServer(k) ==
  \/ conns'[k].c2s = conns[k].c2s
  \/ /\ k = sconn /\ conns[k].c2s # <<>> /\ conns'[k].c2s = Tail(conns[k].c2s)
     /\ UNCHANGED creq
  \/ /\ k = creq /\ creq' = creq /\ CNext.do = "send"
     /\ conns'[k].c2s = Append(conns[k].c2s, Asked)
  \/ /\ k = creq /\ creq' = 0
     /\ conns'[k].c2s = Append(conns[k].c2s, GivenUp)

ToClient(k) ==
  \/ conns'[k].s2c = conns[k].s2c
  \/ /\ k = creq /\ conns[k].s2c # <<>> /\ conns'[k].s2c = Tail(conns[k].s2c)
     /\ CRecv \/ creq' = 0
  \/ /\ k = sconn /\ SWrite /\ ~ conns[k].rst
     /\ conns'[k].s2c = Append(conns[k].s2c, Written)

Kept(k) ==
  /\ conns'[k].req = conns[k].req
  /\ conns[k].rst => conns'[k].rst
  /\ conns'[k].sopen => conns[k].sopen
  /\ ToServer(k) /\ ToClient(k)

ConnsKept ==
  /\ conns' \in Seq(Conn) /\ Len(conns') = Len(conns)
  /\ \A k \in 1 .. Len(conns) : Kept(k)

LEMMA ConnsQuiet ==
  ASSUME [Next]_vars
  PROVE  \/ UNCHANGED conns
         \/ Connect \/ CSend \/ CRecv \/ CAccept \/ CRecvWrong \/ ClientDeath
         \/ SReadCmd \/ TxCmd \/ TxData \/ TxStart \/ SWrite \/ SClose \/ ServerCrash
  BY DEF Next, ClientStep, ServerStep, Failing, Keystores, Signing, CReset, Accept,
     SReset, SWriteFails, KsExists, KsOpen, KsHeader, KpCreate, KpRefused, KpPair,
     KpHeader, TxGet, TxSign, ServerRestart, DiskFails, vars

LEMMA ClientAt ==
  ASSUME TypeOK, Asking, creq # 0
  PROVE  /\ creq \in 1 .. Len(conns) /\ conns[creq] \in Conn /\ CReq \in Request
         /\ CReq.kind \in Kinds /\ Asked \in Message /\ GivenUp \in Message
         /\ StepOf(CReq.kind, CLast, CNext.do, CNext.cmd)
         /\ CNext.cmd \in Cmds \ {"ee", "ff"} /\ CNext.do \in {"send", "recv"}
<1>1. creq \in 1 .. Len(conns) /\ conns[creq] \in Conn /\ CReq \in Request
  BY ConnTypes DEF TypeOK, CReq
<1>2. /\ CReq.kind \in Kinds /\ CReq.id \in Ids /\ CReq.index \in Nat
      /\ CReq.tx \in Txs \cup {NoTx}
  BY <1>1, RequestType
<1>3. StepOf(CReq.kind, CLast, CNext.do, CNext.cmd)
  BY <1>2, ScriptFacts DEF TypeOK, Asking, CLast, CNext
<1>4. CNext.cmd \in Cmds \ {"ee", "ff"} /\ CNext.do \in {"send", "recv"}
  BY <1>3, Zenon DEF StepOf, Cmds
<1>5. Asked \in Message
  BY <1>2, <1>4, MsgType DEF Asked
<1>6. GivenUp \in Message
  <2>1. "ff" \in Cmds
    BY DEF Cmds
  <2> QED  BY <1>2, <2>1, MsgType DEF GivenUp
<1> QED  BY <1>1, <1>2, <1>3, <1>4, <1>5, <1>6

LEMMA ServerAt ==
  ASSUME TypeOK, OneServed, Serving, spc \notin {"accept", "down"}
  PROVE  /\ sconn \in 1 .. Len(conns) /\ conns[sconn] \in Conn
         /\ conns[sconn].req \in Request /\ conns[sconn].req.id \in Ids
         /\ spc \in Served => /\ scmd \in [id : Ids, index : Nat]
                              /\ scmd.id = conns[sconn].req.id
         /\ spc \in Writing => spc \in Served /\ Written \in Message
<1>1. /\ sconn \in 1 .. Len(conns) /\ conns[sconn] \in Conn
      /\ conns[sconn].req \in Request /\ conns[sconn].req.id \in Ids
  BY ConnTypes, RequestType DEF TypeOK, OneServed
<1>2. spc \in Served => scmd \in [id : Ids, index : Nat] /\ scmd.id = conns[sconn].req.id
  BY DEF Serving, TypeOK
<1>3. spc \in Writing => spc \in Served /\ Reply \in Cmds
  BY DEF Writing, Served, KsStages, KpStages, TxStages, Reply, Cmds
<1>4. spc \in Writing => Written \in Message
  BY <1>2, <1>3, MsgType, MoscpAssumption DEF Written, TypeOK
<1> QED  BY <1>1, <1>2, <1>3, <1>4

LEMMA ConnsNext ==
  ASSUME TypeOK, OneServed, Serving, Asking, [Next]_vars, ~ Connect
  PROVE  ConnsKept
<1>a. conns \in Seq(Conn) /\ \A k \in 1 .. Len(conns) : conns[k] \in Conn
  BY DEF TypeOK
<1> USE DEF ConnsKept, Kept, ToServer, ToClient
<1>1. CASE UNCHANGED conns
  BY <1>1, <1>a
<1>2. CASE CSend
  <2>1. /\ creq # 0 /\ CNext.do = "send" /\ creq' = creq
        /\ conns' = [conns EXCEPT ![creq] = Put(conns[creq], Asked)]
    BY <1>2 DEF CSend, Asked
  <2> QED  BY <1>a, <2>1, ClientAt, PutEffect, OneConn
<1>3. CASE CRecv
  <2>1. /\ creq # 0 /\ conns[creq].s2c # <<>>
        /\ conns' = [conns EXCEPT ![creq] = Rest(conns[creq])]
    BY <1>3 DEF CRecv
  <2> QED  BY <1>3, <1>a, <2>1, ClientAt, RestEffect, OneConn
<1>4. CASE CAccept
  <2>1. /\ creq # 0 /\ conns[creq].s2c # <<>> /\ creq' = 0
        /\ conns' = [conns EXCEPT ![creq] = CloseClient(Rest(conns[creq]))]
    BY <1>4 DEF CAccept, GiveUp
  <2> QED  BY <1>a, <2>1, ClientAt, RestEffect, CloseEffect, OneConn
<1>5. CASE CRecvWrong
  <2>1. /\ creq # 0 /\ conns[creq].s2c # <<>> /\ creq' = 0
        /\ conns' = [conns EXCEPT ![creq] = Finish(Rest(conns[creq]))]
    BY <1>5 DEF CRecvWrong, GiveUp
  <2>2. Rest(conns[creq]).req = CReq
    BY <2>1, ClientAt, RestEffect DEF CReq
  <2>3. \/ Finish(Rest(conns[creq])) = Rest(conns[creq])
        \/ Finish(Rest(conns[creq])) = Put(Rest(conns[creq]), GivenUp)
    BY <2>2 DEF Finish, GivenUp
  <2>4. PICK c, d : c = Rest(conns[creq]) /\ d = Finish(Rest(conns[creq]))
    OBVIOUS
  <2>5. /\ c \in Conn /\ c.s2c = Tail(conns[creq].s2c) /\ c.c2s = conns[creq].c2s
        /\ c.req = conns[creq].req /\ c.rst = conns[creq].rst
        /\ c.sopen = conns[creq].sopen /\ GivenUp \in Message /\ creq \in 1 .. Len(conns)
    BY <2>1, <2>4, ClientAt, RestEffect
  <2>6. d = c \/ d = Put(c, GivenUp)
    BY <2>3, <2>4
  <2>7. /\ d \in Conn /\ d.req = c.req /\ d.s2c = c.s2c /\ d.sopen = c.sopen
        /\ d.c2s = c.c2s \/ d.c2s = Append(c.c2s, GivenUp)
        /\ c.rst => d.rst
    BY <2>5, <2>6, PutEffect
  <2>8. /\ conns' \in Seq(Conn) /\ Len(conns') = Len(conns)
        /\ \A j \in 1 .. Len(conns) : conns'[j] = IF j = creq THEN d ELSE conns[j]
    <3>1. conns' = [conns EXCEPT ![creq] = d]
      BY <2>1, <2>4
    <3> QED  BY <1>a, <2>5, <2>7, <3>1, OneConn
  <2>9. /\ d.req = conns[creq].req /\ (conns[creq].rst => d.rst)
        /\ (d.sopen => conns[creq].sopen) /\ d.s2c = Tail(conns[creq].s2c)
        /\ d.c2s = conns[creq].c2s \/ d.c2s = Append(conns[creq].c2s, GivenUp)
    BY <2>5, <2>7
  <2> QED  BY <2>1, <2>8, <2>9
<1>6. CASE ClientDeath
  <2>1. conns' = [k \in DOMAIN conns |-> IF conns[k].copen THEN CloseClient(conns[k])
                                                           ELSE conns[k]]
    BY <1>6 DEF ClientDeath
  <2>2. \A k \in 1 .. Len(conns) :
          /\ CloseClient(conns[k]) \in Conn
          /\ CloseClient(conns[k]).req = conns[k].req
          /\ CloseClient(conns[k]).c2s = conns[k].c2s
          /\ CloseClient(conns[k]).s2c = conns[k].s2c
          /\ CloseClient(conns[k]).sopen = conns[k].sopen
          /\ conns[k].rst => CloseClient(conns[k]).rst
    BY <1>a, CloseEffect
  <2>3. DOMAIN conns = 1 .. Len(conns) /\ Len(conns) \in Nat
    BY <1>a
  <2>4. conns' \in Seq(Conn) /\ Len(conns') = Len(conns)
    BY <1>a, <2>1, <2>2, <2>3
  <2> QED  BY <2>1, <2>2, <2>3, <2>4
<1>7. CASE SReadCmd \/ TxCmd \/ TxData \/ TxStart
  <2>1. /\ spc \notin {"accept", "down"} /\ conns[sconn].c2s # <<>> /\ creq' = creq
        /\ conns' = [conns EXCEPT ![sconn] =
                       [conns[sconn] EXCEPT !.c2s = Tail(conns[sconn].c2s)]]
    BY <1>7 DEF SReadCmd, TxCmd, TxData, TxStart, CanRead, Waiting, Taken, client
  <2> QED  BY <1>a, <2>1, ServerAt, TakeEffect, OneConn
<1>8. CASE SWrite
  <2>1. /\ spc \in Writing /\ spc \notin {"accept", "down"} /\ ~ conns[sconn].rst
        /\ conns' = [conns EXCEPT ![sconn] = SPut(conns[sconn], Written)]
    BY <1>8 DEF SWrite, Written, Writing
  <2> QED  BY <1>8, <1>a, <2>1, ServerAt, SPutEffect, OneConn
<1>9. CASE SClose
  <2> DEFINE c == [conns[sconn] EXCEPT !.sopen = FALSE,
                                       !.rst = @ \/ conns[sconn].c2s # <<>>]
  <2>1. spc = "close" /\ conns' = [conns EXCEPT ![sconn] = c]
    BY <1>9, <1>a, ServerAt DEF SClose
  <2>2. c \in Conn /\ c.req = conns[sconn].req /\ c.c2s = conns[sconn].c2s
        /\ c.s2c = conns[sconn].s2c /\ ~ c.sopen /\ (conns[sconn].rst => c.rst)
    BY <2>1, ServerAt DEF Conn
  <2> HIDE DEF c
  <2> QED  BY <1>a, <2>1, <2>2, ServerAt, OneConn
<1>10. CASE ServerCrash
  <2> DEFINE c(k) == [conns[k] EXCEPT !.sopen = FALSE,
                          !.rst = @ \/ k > sconn \/ conns[k].c2s # <<>>]
  <2>1. conns' = [k \in DOMAIN conns |-> IF conns[k].sopen THEN c(k) ELSE conns[k]]
    BY <1>10 DEF ServerCrash
  <2>2. \A k \in 1 .. Len(conns) :
          c(k) \in Conn /\ c(k).req = conns[k].req /\ c(k).c2s = conns[k].c2s
          /\ c(k).s2c = conns[k].s2c /\ ~ c(k).sopen /\ (conns[k].rst => c(k).rst)
    BY <1>a DEF Conn
  <2>3. DOMAIN conns = 1 .. Len(conns) /\ Len(conns) \in Nat
    BY <1>a
  <2> HIDE DEF c
  <2>4. conns' \in Seq(Conn) /\ Len(conns') = Len(conns)
    BY <1>a, <2>1, <2>2, <2>3
  <2> QED  BY <2>1, <2>2, <2>3, <2>4
<1> QED
  BY <1>1, <1>2, <1>3, <1>4, <1>5, <1>6, <1>7, <1>8, <1>9, <1>10, ConnsQuiet

-----------------------------------------------------------------------------
(* What a step does to the keystores.                                      *)

Grown(i) ==
  /\ ks'[i].num >= ks[i].num
  /\ \A n \in 1 .. ks[i].num : ks'[i].pairs[n] = ks[i].pairs[n]

FilesKept ==
  /\ ks' \in [Ids -> [num : Int, pairs : Seq(0 .. MaxReq)]]
  /\ \A i \in Ids : /\ ks'[i].num \in {NoFile, NoHeader} \cup 0 .. Len(ks'[i].pairs)
                    /\ Grown(i)

LEMMA KsQuiet ==
  ASSUME [Next]_vars
  PROVE  UNCHANGED ks \/ KsOpen \/ KsHeader \/ KpPair \/ KpHeader
  BY DEF Next, ClientStep, ServerStep, Failing, Keystores, Signing, CReset, Accept,
     SReset, SWriteFails, KsExists, KpCreate, KpRefused, TxGet, TxSign,
     ServerRestart, DiskFails, vars, Connect, CSend, CRecv, CAccept, CRecvWrong,
     ClientDeath, SReadCmd, TxCmd, TxData, TxStart, SWrite, SClose, ServerCrash

(* A pair written behind the header, over what an earlier write left. *)
LEMMA PairPut ==
  ASSUME NEW f \in [num : Int, pairs : Seq(0 .. MaxReq)], NEW k \in 0 .. MaxReq,
         f.num \in 0 .. Len(f.pairs)
  PROVE  /\ PutPair(f, k) \in [num : Int, pairs : Seq(0 .. MaxReq)]
         /\ PutPair(f, k).num = f.num
         /\ Len(PutPair(f, k).pairs) = f.num + 1
         /\ PutPair(f, k).pairs[f.num + 1] = k
         /\ \A n \in 1 .. f.num : PutPair(f, k).pairs[n] = f.pairs[n]
<1> DEFINE front == SubSeq(f.pairs, 1, f.num)
<1>1. /\ front \in Seq(0 .. MaxReq) /\ Len(front) = f.num
      /\ \A n \in 1 .. f.num : front[n] = f.pairs[n]
  <2>1. f.pairs \in Seq(0 .. MaxReq) /\ f.num \in Nat /\ f.num <= Len(f.pairs)
    OBVIOUS
  <2>2. ASSUME NEW n \in 1 .. f.num
        PROVE  f.pairs[n] \in 0 .. MaxReq
    <3>1. n \in 1 .. Len(f.pairs)
      BY <2>1
    <3> QED  BY <2>1, <3>1, ElementOfSeq
  <2> QED  BY <2>1, <2>2, SubSeqProperties
<1> HIDE DEF front
<1>2. /\ Append(front, k) \in Seq(0 .. MaxReq) /\ Len(Append(front, k)) = f.num + 1
      /\ Append(front, k)[f.num + 1] = k
      /\ \A n \in 1 .. f.num : Append(front, k)[n] = front[n]
  BY <1>1
<1>3. PutPair(f, k) = [f EXCEPT !.pairs = Append(front, k)]
  BY DEF PutPair, front
<1> QED  BY <1>1, <1>2, <1>3

LEMMA FilesNext ==
  ASSUME TypeOK, OneServed, Serving, Files, [Next]_vars
  PROVE  FilesKept
<1>a. /\ ks \in [Ids -> [num : Int, pairs : Seq(0 .. MaxReq)]]
      /\ \A i \in Ids : /\ ks[i].num \in {NoFile, NoHeader} \cup 0 .. Len(ks[i].pairs)
                        /\ Len(ks[i].pairs) \in Nat
      /\ NoFile = -2 /\ NoHeader = -1
  BY DEF TypeOK, NoFile, NoHeader
<1> USE DEF FilesKept, Grown
<1>1. CASE UNCHANGED ks
  BY <1>1, <1>a
<1>2. CASE KsOpen
  BY <1>2, <1>a, ServerAt DEF KsOpen, Served, KsStages
<1>3. CASE KsHeader
  BY <1>3, <1>a, ServerAt DEF KsHeader, Served, KsStages, Files
<1>4. CASE KpPair
  <2>1. /\ scmd.id \in Ids /\ ks[scmd.id].num >= 0 /\ skey \in 0 .. MaxReq
        /\ ks' = [ks EXCEPT ![scmd.id] = PutPair(ks[scmd.id], skey)]
    BY <1>4, ServerAt DEF KpPair, Served, KpStages, TypeOK
  <2> DEFINE f == PutPair(ks[scmd.id], skey)
  <2>2. /\ f \in [num : Int, pairs : Seq(0 .. MaxReq)]
        /\ f.num = ks[scmd.id].num /\ Len(f.pairs) = f.num + 1
        /\ \A n \in 1 .. f.num : f.pairs[n] = ks[scmd.id].pairs[n]
    <3>1. /\ ks[scmd.id] \in [num : Int, pairs : Seq(0 .. MaxReq)]
          /\ ks[scmd.id].num \in 0 .. Len(ks[scmd.id].pairs)
      <4>1. PICK i \in Ids : i = scmd.id
        BY <2>1
      <4>2. ks[i].num >= 0 /\ ks[i] \in [num : Int, pairs : Seq(0 .. MaxReq)]
        BY <1>a, <2>1, <4>1
      <4>3. ks[i].num \in {NoFile, NoHeader} \cup 0 .. Len(ks[i].pairs)
        BY <1>a, Zenon
      <4>4. ks[i].num \in 0 .. Len(ks[i].pairs)
        BY <1>a, <4>2, <4>3
      <4> QED  BY <4>1, <4>2, <4>4, Zenon
    <3> QED  BY <2>1, <3>1, PairPut
  <2> HIDE DEF f
  <2>3. \A i \in Ids : ks'[i] = IF i = scmd.id THEN f ELSE ks[i]
    BY <1>a, <2>1 DEF f
  <2>4. ks' \in [Ids -> [num : Int, pairs : Seq(0 .. MaxReq)]]
    BY <1>a, <2>1, <2>2 DEF f
  <2> QED  BY <1>a, <2>1, <2>2, <2>3, <2>4
<1>5. CASE KpHeader
  <2>1. /\ scmd.id \in Ids /\ ks' = [ks EXCEPT ![scmd.id].num = @ + 1]
        /\ ks[scmd.id].num >= 0 /\ Len(ks[scmd.id].pairs) = ks[scmd.id].num + 1
    BY <1>5, ServerAt DEF KpHeader, Served, KpStages, Files
  <2> QED  BY <1>a, <2>1
<1> QED  BY <1>1, <1>2, <1>3, <1>4, <1>5, KsQuiet

-----------------------------------------------------------------------------
(* Type correctness.                                                       *)

(* A new connection.                                                       *)
Fresh(r) == [req |-> r, c2s |-> <<>>, s2c |-> <<>>,
             copen |-> TRUE, sopen |-> TRUE, rst |-> FALSE]

LEMMA FreshType ==
  ASSUME NEW r \in Request
  PROVE  /\ Fresh(r) \in Conn /\ Fresh(r).req = r /\ Fresh(r).c2s = <<>>
         /\ Fresh(r).s2c = <<>> /\ Fresh(r).sopen /\ ~ Fresh(r).rst
<1>1. <<>> \in Seq(Message)
  OBVIOUS
<1>2. Fresh(r) \in Conn
  BY <1>1, Zenon DEF Fresh, Conn
<1> QED  BY <1>2 DEF Fresh

LEMMA ConnectEffect ==
  ASSUME TypeOK, Connect
  PROVE  /\ conns' \in Seq(Conn) /\ Len(conns') = Len(conns) + 1
         /\ \A k \in 1 .. Len(conns) : conns'[k] = conns[k]
         /\ \E r \in Request : conns'[Len(conns) + 1] = Fresh(r)
         /\ creq = 0 /\ creq' = Len(conns) + 1 /\ cstep' = 1 /\ cidx' = 0
         /\ spc # "down" /\ Len(conns) < MaxReq
         /\ UNCHANGED <<spc, sconn, scmd, skey, stx, ks, answers>>
<1>1. PICK r \in Request : conns' = Append(conns, Fresh(r))
  BY DEF Connect, Fresh
<1>2. Fresh(r) \in Conn /\ conns \in Seq(Conn)
  BY FreshType DEF TypeOK
<1>3. /\ conns' \in Seq(Conn) /\ Len(conns') = Len(conns) + 1
      /\ \A k \in 1 .. Len(conns) : conns'[k] = conns[k]
      /\ conns'[Len(conns) + 1] = Fresh(r)
  BY <1>1, <1>2
<1> QED  BY <1>3 DEF Connect, server

LEMMA ClientTypes ==
  ASSUME TypeOK, OneServed, Serving, Asking, [Next]_vars
  PROVE  /\ conns' \in Seq(Conn) /\ Len(conns') <= MaxReq
         /\ creq' \in 0 .. Len(conns') /\ cstep' \in 1 .. 8 /\ cidx' \in Nat
<1>1. CASE Connect
  BY <1>1, ConnectEffect, MoscpAssumption DEF TypeOK
<1>2. CASE ~ Connect
  <2>1. conns' \in Seq(Conn) /\ Len(conns') = Len(conns)
    BY <1>2, ConnsNext DEF ConnsKept
  <2>2. CASE UNCHANGED client
    BY <2>1, <2>2 DEF client, TypeOK
  <2>3. CASE GiveUp
    BY <2>1, <2>3 DEF GiveUp, TypeOK
  <2>4. CASE CSend \/ CRecv
    <3>1. creq # 0 /\ creq' = creq /\ cstep' = cstep + 1
      BY <2>4 DEF CSend, CRecv
    <3>2. ~ CLast
      <4>1. CNext.do = "send" \/ ~ CLast
        BY <2>4 DEF CSend, CRecv
      <4>2. StepOf(CReq.kind, CLast, CNext.do, CNext.cmd)
        BY <3>1, ClientAt
      <4>3. CNext.do = "send" => ~ CLast
        BY <4>2, Zenon DEF StepOf
      <4> QED  BY <4>1, <4>3
    <3>3. cstep + 1 \in 1 .. 8
      <4> DEFINE length == Len(Script(CReq.kind))
      <4>1. cstep <= length /\ cstep # length
        BY <3>1, <3>2 DEF Asking, CLast
      <4>2. cstep \in 1 .. 8 /\ CReq.kind \in Kinds
        BY <3>1, ClientAt DEF TypeOK
      <4>3. length \in 1 .. 8
        BY <4>1, <4>2, ScriptFacts
      <4> HIDE DEF length
      <4> QED  BY <4>1, <4>2, <4>3
    <3>4. cidx' \in Nat
      <4>1. CASE CSend
        BY <4>1 DEF CSend, TypeOK
      <4>2. CASE CRecv
        <5>1. cidx' = Head(conns[creq].s2c).index /\ conns[creq].s2c # <<>>
          BY <4>2 DEF CRecv
        <5>2. Head(conns[creq].s2c) \in Message
          BY <3>1, <5>1, ClientAt, ConnTypes
        <5> QED  BY <5>1, <5>2 DEF Message
      <4> QED  BY <2>4, <4>1, <4>2
    <3> QED  BY <2>1, <3>1, <3>3, <3>4 DEF TypeOK
  <2> QED
    BY <1>2, <2>2, <2>3, <2>4
       DEF Next, ClientStep, ServerStep, Failing, Keystores, Signing, CReset,
       Accept, SReset, SWriteFails, KsExists, KsOpen, KsHeader, KpCreate,
       KpRefused, KpPair, KpHeader, TxGet, TxSign, ServerRestart, DiskFails,
       vars, CAccept, CRecvWrong, ClientDeath, SReadCmd, TxCmd, TxData, TxStart,
       SWrite, SClose, ServerCrash
<1> QED  BY <1>1, <1>2

(* The steps of the server, by what they change. *)
ServerMoves ==
  Accept \/ SReadCmd \/ SReset \/ SWrite \/ SWriteFails \/ SClose \/ Keystores
  \/ Signing \/ ServerRestart \/ DiskFails \/ ServerCrash

LEMMA ServerQuiet ==
  ASSUME [Next]_vars
  PROVE  (UNCHANGED server /\ UNCHANGED ks) \/ ServerMoves
  BY DEF Next, ServerMoves, ClientStep, ServerStep, Failing, CReset, vars, Connect,
     CSend, CRecv, CAccept, CRecvWrong, ClientDeath

LEMMA ReadMessage ==
  ASSUME TypeOK, OneServed, Serving, CanRead
  PROVE  Incoming \in Message /\ Incoming = conns[sconn].c2s[1]
<1>1. spc \notin {"accept", "down"} /\ conns[sconn].c2s # <<>>
  BY DEF CanRead, Waiting
<1> QED  BY <1>1, ServerAt, ConnTypes DEF Incoming

LEMMA ServerTypes ==
  ASSUME TypeOK, OneServed, Serving, Files, InMemory, [Next]_vars
  PROVE  /\ spc' \in Stages /\ sconn' \in 0 .. Len(conns)
         /\ scmd' = <<>> \/ scmd' \in [id : Ids, index : Nat]
         /\ skey' \in 0 .. MaxReq /\ stx' \in Txs \cup {NoTx}
<1>a. /\ spc \in Stages /\ sconn \in 0 .. Len(conns) /\ Len(conns) \in Nat
      /\ scmd = <<>> \/ scmd \in [id : Ids, index : Nat]
      /\ skey \in 0 .. MaxReq /\ stx \in Txs \cup {NoTx} /\ Len(conns) <= MaxReq
      /\ MaxReq \in Nat
  BY MoscpAssumption DEF TypeOK
<1> USE DEF Stages, Waiting, Writing
<1>1. CASE UNCHANGED server
  BY <1>1, <1>a DEF server
<1>2. CASE Accept
  <2>1. sconn' \in DOMAIN conns /\ spc' = "read" /\ UNCHANGED <<scmd, skey, stx>>
    BY <1>2 DEF Accept
  <2>2. DOMAIN conns = 1 .. Len(conns)
    BY DEF TypeOK
  <2> QED  BY <1>a, <2>1, <2>2
<1>3. CASE SReadCmd
  <2>1. CanRead /\ scmd' = [id |-> Incoming.id, index |-> Incoming.index]
    BY <1>3 DEF SReadCmd
  <2>2. Incoming.id \in Ids /\ Incoming.index \in Nat
    BY <2>1, ReadMessage DEF Message
  <2>3. spc' \in Stages /\ UNCHANGED <<sconn, skey, stx>>
    BY <1>3 DEF SReadCmd
  <2> QED  BY <1>a, <2>1, <2>2, <2>3
<1>4. CASE SReset \/ SWrite \/ SWriteFails \/ SClose
  BY <1>4, <1>a DEF SReset, SWrite, SWriteFails, SClose, Goto, AfterWrite, AfterFailedWrite
<1>5. CASE KsExists \/ KsOpen \/ KsHeader \/ KpRefused \/ KpPair
  BY <1>5, <1>a DEF KsExists, KsOpen, KsHeader, KpRefused, KpPair, Goto
<1>6. CASE KpCreate
  BY <1>6, <1>a DEF KpCreate
<1>7. CASE KpHeader
  <2>1. /\ spc = "kp_header" /\ spc' = "kp_ack" /\ UNCHANGED <<sconn, skey, stx>>
        /\ scmd' = [scmd EXCEPT !.index = ks[scmd.id].num % IndexModulus]
    BY <1>7 DEF KpHeader
  <2>2. ks[scmd.id].num >= 0 /\ scmd \in [id : Ids, index : Nat] /\ scmd.id \in Ids
    BY <2>1, ServerAt DEF Files, Served, KpStages
  <2>3. ks[scmd.id].num \in Int
    BY <2>2 DEF TypeOK
  <2>4. ks[scmd.id].num % IndexModulus \in Nat
    BY <2>2, <2>3, MoscpAssumption
  <2> QED  BY <1>a, <2>1, <2>2, <2>4
<1>8. CASE TxGet
  <2>1. spc' \in Stages /\ UNCHANGED <<sconn, scmd, stx>>
    BY <1>8 DEF TxGet
  <2>2. CASE ~ Stored(scmd.id, scmd.index)
    BY <1>8, <1>a, <2>1, <2>2 DEF TxGet
  <2>3. CASE Stored(scmd.id, scmd.index)
    <3>1. skey' = ks[scmd.id].pairs[scmd.index + 1] /\ spc = "tx_get"
      BY <1>8, <2>3 DEF TxGet
    <3>2. scmd.id \in Ids /\ scmd.index \in Nat
      BY <3>1, ServerAt DEF Served, TxStages
    <3>3. /\ ks[scmd.id].pairs \in Seq(0 .. MaxReq)
          /\ scmd.index + 1 \in 1 .. Len(ks[scmd.id].pairs)
      <4>1. ks \in [Ids -> [num : Int, pairs : Seq(0 .. MaxReq)]]
        BY DEF TypeOK
      <4>2. ks[scmd.id] \in [num : Int, pairs : Seq(0 .. MaxReq)]
        BY <3>2, <4>1
      <4>3. ks[scmd.id].pairs \in Seq(0 .. MaxReq)
        BY <4>2
      <4>4. Len(ks[scmd.id].pairs) \in Nat
        BY <4>3
      <4>5. scmd.index < Len(ks[scmd.id].pairs)
        <5>1. ks[scmd.id].num \in {NoFile, NoHeader} \cup 0 .. Len(ks[scmd.id].pairs)
          BY <3>2 DEF TypeOK
        <5>2. ks[scmd.id].num > scmd.index
          BY <2>3 DEF Stored
        <5> QED  BY <3>2, <4>4, <5>1, <5>2 DEF NoFile, NoHeader
      <4> QED  BY <3>2, <4>3, <4>4, <4>5
    <3>4. skey' \in 0 .. MaxReq
      BY <3>1, <3>3, ElementOfSeq
    <3> QED  BY <1>a, <2>1, <3>4
  <2> QED  BY <2>2, <2>3
<1>9. CASE TxCmd \/ TxStart \/ TxSign
  BY <1>9, <1>a DEF TxCmd, TxStart, TxSign, Goto
<1>10. CASE TxData
  <2>1. CanRead /\ stx' = Incoming.tx /\ spc' = "tx_dack" /\ UNCHANGED <<sconn, scmd, skey>>
    BY <1>10 DEF TxData
  <2>2. Incoming.tx \in Txs \cup {NoTx}
    BY <2>1, ReadMessage DEF Message
  <2> QED  BY <1>a, <2>1, <2>2
<1>11. CASE ServerRestart \/ DiskFails
  BY <1>11, <1>a DEF ServerRestart, DiskFails, Goto
<1>12. CASE ServerCrash
  <2>1. UNCHANGED <<sconn, scmd>> /\ spc' = "down" /\ skey' = 0 /\ stx' = NoTx
    BY <1>12 DEF ServerCrash
  <2> QED  BY <1>a, <2>1
<1> QED
  BY <1>1, <1>2, <1>3, <1>4, <1>5, <1>6, <1>7, <1>8, <1>9, <1>10, <1>11, <1>12, ServerQuiet
     DEF ServerMoves, Keystores, Signing

LEMMA TypeNext ==
  ASSUME IInv, [Next]_vars
  PROVE  TypeOK'
<1>1. Len(conns') >= Len(conns) /\ Len(conns) \in Nat /\ Len(conns') \in Nat
  <2>1. CASE Connect
    BY <2>1, ConnectEffect DEF IInv, TypeOK
  <2>2. CASE ~ Connect
    BY <2>2, ConnsNext DEF IInv, TypeOK, ConnsKept
  <2> QED  BY <2>1, <2>2
<1>2. /\ conns' \in Seq(Conn) /\ Len(conns') <= MaxReq
      /\ creq' \in 0 .. Len(conns') /\ cstep' \in 1 .. 8 /\ cidx' \in Nat
  BY ClientTypes DEF IInv
<1>3. /\ spc' \in Stages /\ sconn' \in 0 .. Len(conns)
      /\ scmd' = <<>> \/ scmd' \in [id : Ids, index : Nat]
      /\ skey' \in 0 .. MaxReq /\ stx' \in Txs \cup {NoTx}
  BY ServerTypes DEF IInv
<1>4. FilesKept
  BY FilesNext DEF IInv
<1> QED  BY <1>1, <1>2, <1>3, <1>4 DEF TypeOK, FilesKept

-----------------------------------------------------------------------------
(* What every step leaves.                                                 *)

(* The client makes a connection, moves along its script, or gives up.     *)
LEMMA ClientMoves ==
  ASSUME [Next]_vars
  PROVE  \/ UNCHANGED client
         \/ Connect \/ CSend \/ CRecv
         \/ creq' = 0
  BY DEF Next, ClientStep, ServerStep, Failing, Keystores, Signing, CReset, GiveUp,
     Accept, SReset, SWriteFails, KsExists, KsOpen, KsHeader, KpCreate,
     KpRefused, KpPair, KpHeader, TxGet, TxSign, ServerRestart, DiskFails,
     vars, CAccept, CRecvWrong, ClientDeath, SReadCmd, TxCmd, TxData, TxStart,
     SWrite, SClose, ServerCrash

Framed ==
  /\ Len(conns) \in Nat /\ Len(conns') \in Nat /\ Len(conns') >= Len(conns)
  /\ creq \in 0 .. Len(conns) /\ sconn \in 0 .. Len(conns)
  /\ \A k \in 1 .. Len(conns) :
       /\ Kept(k)
       /\ conns[k] \in Conn /\ conns'[k] \in Conn
       /\ creq' = k => creq = k
  /\ \A k \in 1 .. Len(conns') :
       k \in 1 .. Len(conns) \/ (conns'[k].c2s = <<>> /\ conns'[k].s2c = <<>> /\ k > Len(conns))

LEMMA Frame ==
  ASSUME IInv, [Next]_vars
  PROVE  Framed
<1>a. /\ conns \in Seq(Conn) /\ Len(conns) \in Nat /\ creq \in 0 .. Len(conns)
      /\ sconn \in 0 .. Len(conns)
  BY DEF IInv, TypeOK
<1>b. conns' \in Seq(Conn)
  BY TypeNext DEF TypeOK
<1>1. CASE Connect
  <2>1. /\ Len(conns') = Len(conns) + 1
        /\ \A k \in 1 .. Len(conns) : conns'[k] = conns[k]
        /\ \E r \in Request : conns'[Len(conns) + 1] = Fresh(r)
        /\ creq' = Len(conns) + 1
    BY <1>1, ConnectEffect DEF IInv
  <2>2. conns'[Len(conns) + 1].c2s = <<>> /\ conns'[Len(conns) + 1].s2c = <<>>
    BY <2>1, FreshType
  <2>3. \A k \in 1 .. Len(conns) : Kept(k)
    BY <2>1 DEF Kept, ToServer, ToClient
  <2>4. \A k \in 1 .. Len(conns) : conns[k] \in Conn /\ conns'[k] \in Conn
    BY <1>a, <2>1, ElementOfSeq
  <2> QED  BY <1>a, <2>1, <2>2, <2>3, <2>4 DEF Framed
<1>2. CASE ~ Connect
  <2>1. Len(conns') = Len(conns) /\ \A k \in 1 .. Len(conns) : Kept(k)
    BY <1>2, ConnsNext DEF IInv, ConnsKept
  <2>2. creq' = creq \/ creq' = 0
    BY <1>2, ClientMoves DEF client, CSend, CRecv
  <2>3. \A k \in 1 .. Len(conns) : conns[k] \in Conn /\ conns'[k] \in Conn
    BY <1>a, <1>b, <2>1, ElementOfSeq
  <2> QED  BY <1>a, <2>1, <2>2, <2>3 DEF Framed
<1> QED  BY <1>1, <1>2

(* What the keystores hold they hold for ever.                             *)
LEMMA HoldsStays ==
  ASSUME TypeOK, FilesKept, NEW i \in Ids, NEW n \in Nat, NEW key
  PROVE  /\ Holds(i, n, key) => Holds(i, n, key)'
         /\ HoldsCut(i, n, key) => HoldsCut(i, n, key)'
         /\ ks'[i].num >= ks[i].num /\ ks[i].num \in Int /\ ks'[i].num \in Int
<1>1. /\ ks[i].num \in Int /\ ks'[i].num \in Int /\ ks'[i].num >= ks[i].num
      /\ \A j \in 1 .. ks[i].num : ks'[i].pairs[j] = ks[i].pairs[j]
  BY DEF TypeOK, FilesKept, Grown
<1>2. Holds(i, n, key) => Holds(i, n, key)'
  BY <1>1 DEF Holds, Stored
<1> QED  BY <1>1, <1>2, MoscpAssumption DEF HoldsCut

(* The message a client reads and goes on with is the one it waits for.    *)
LEMMA ReadOn ==
  ASSUME IInv, CRecv
  PROVE  LET m == conns[creq].s2c[1] IN
         /\ creq \in 1 .. Len(conns) /\ conns[creq].s2c # <<>> /\ creq' = creq
         /\ m.cmd # "ee" /\ cidx' = m.index /\ cstep' = cstep + 1
         /\ conns'[creq].s2c = Tail(conns[creq].s2c)
         /\ (CReq.kind = "keypair" => m.cmd = "22" /\ cstep = 2)
<1>1. /\ creq # 0 /\ conns[creq].s2c # <<>> /\ Fits(Head(conns[creq].s2c))
      /\ CNext.do = "recv" /\ ~ CLast
      /\ cidx' = Head(conns[creq].s2c).index /\ cstep' = cstep + 1 /\ creq' = creq
      /\ conns' = [conns EXCEPT ![creq] = Rest(conns[creq])]
  BY DEF CRecv
<1>2. /\ creq \in 1 .. Len(conns) /\ conns[creq] \in Conn
      /\ Head(conns[creq].s2c) = conns[creq].s2c[1]
      /\ StepOf(CReq.kind, CLast, CNext.do, CNext.cmd)
      /\ CNext.cmd \in Cmds \ {"ee", "ff"}
  BY <1>1, ClientAt, ConnTypes DEF IInv
<1>3. conns[creq].s2c[1].cmd = CNext.cmd
  BY <1>1, <1>2 DEF Fits
<1>4. conns'[creq].s2c = Tail(conns[creq].s2c)
  BY <1>1, <1>2, RestEffect, OneConn DEF IInv, TypeOK
<1>5. CReq.kind = "keypair" => CNext.cmd = "22" /\ cstep = 2
  <2> SUFFICES ASSUME CReq.kind = "keypair"
               PROVE  CNext.cmd = "22" /\ cstep = 2
    OBVIOUS
  <2>1. cstep \in 1 .. 8 /\ cstep <= 3 /\ cstep # 3
    <3>1. Len(Script(CReq.kind)) = 3
      BY KeypairScript
    <3>2. cstep <= Len(Script(CReq.kind)) /\ cstep # Len(Script(CReq.kind))
      BY <1>1 DEF IInv, Asking, CLast
    <3>3. cstep \in 1 .. 8
      BY DEF IInv, TypeOK
    <3> QED  BY <3>1, <3>2, <3>3
  <2>2. cstep # 1
    BY <1>1, KeypairScript DEF At, CNext
  <2>3. cstep = 2
    BY <2>1, <2>2
  <2> QED  BY <2>3, KeypairScript DEF At, CNext
<1>6. CNext.cmd # "ee"
  BY <1>2
<1> QED  BY <1>1, <1>2, <1>3, <1>4, <1>5, <1>6

(* A client that has been sent an error will not go on; a client that is   *)
(* past what it was sent for does not come back.                           *)
LEMMA WarnedStays ==
  ASSUME IInv, [Next]_vars, NEW k \in 1 .. Len(conns), Warned(k)
  PROVE  Warned(k)'
<1>1. Framed
  BY Frame
<1>2. /\ Kept(k) /\ conns[k].s2c \in Seq(Message) /\ (creq' = k => creq = k)
      /\ conns'[k].s2c \in Seq(Message)
  BY <1>1, ConnTypes DEF Framed
<1>3. CASE creq # k \/ creq' # k
  BY <1>2, <1>3 DEF Warned
<1>4. CASE conns[k].rst
  BY <1>2, <1>4 DEF Warned, Kept
<1>5. CASE creq = k /\ creq' = k /\ ~ conns[k].rst
  <2>1. PICK j \in 1 .. Len(conns[k].s2c) : conns[k].s2c[j].cmd = "ee"
    BY <1>5 DEF Warned, Warns
  <2>2. CASE conns'[k].s2c = conns[k].s2c
    BY <1>2, <2>1, <2>2 DEF Warned, Warns
  <2>3. CASE CRecv /\ conns'[k].s2c = Tail(conns[k].s2c)
    <3>1. conns[k].s2c[1].cmd # "ee" /\ conns[k].s2c # <<>>
      BY <1>5, <2>3, ReadOn
    <3>2. /\ Len(conns'[k].s2c) = Len(conns[k].s2c) - 1
          /\ \A n \in 1 .. Len(conns'[k].s2c) : conns'[k].s2c[n] = conns[k].s2c[n + 1]
          /\ Len(conns[k].s2c) \in Nat
      BY <1>2, <2>3, <3>1, HeadTailProperties
    <3>3. j - 1 \in 1 .. Len(conns'[k].s2c)
      BY <2>1, <3>1, <3>2
    <3>4. conns'[k].s2c[j - 1].cmd = "ee"
      BY <2>1, <3>2, <3>3
    <3> QED  BY <3>2, <3>3, <3>4 DEF Warned, Warns
  <2>4. CASE conns'[k].s2c = Append(conns[k].s2c, Written)
    BY <1>2, <2>1, <2>4 DEF Warned, Warns
  <2> QED  BY <1>2, <1>5, <2>2, <2>3, <2>4 DEF Kept, ToClient
<1> QED  BY <1>3, <1>4, <1>5

-----------------------------------------------------------------------------
(* Every part of the invariant is kept.                                    *)

Idle == {"accept", "down"}

(* The server takes a connection, leaves it, or goes on with it.           *)
LEMMA ServerPlace ==
  ASSUME IInv, [Next]_vars
  PROVE  \/ Accept \/ SClose \/ ServerCrash \/ ServerRestart
         \/ sconn' = sconn /\ (spc' \in Idle <=> spc \in Idle)
<1>1. CASE UNCHANGED server
  BY <1>1 DEF server
<1>2. CASE SReadCmd \/ KpCreate \/ KpHeader \/ TxGet \/ TxData
  BY <1>2 DEF SReadCmd, KpCreate, KpHeader, TxGet, TxData, Idle
<1>3. CASE SReset \/ TxCmd \/ TxStart \/ TxSign
  BY <1>3 DEF SReset, TxCmd, TxStart, TxSign, Goto, Idle, Waiting
<1>4. CASE SWrite \/ SWriteFails
  BY <1>4 DEF SWrite, SWriteFails, Goto, Idle, Writing, AfterWrite, AfterFailedWrite
<1>5. CASE KsExists \/ KsOpen \/ KsHeader \/ KpRefused \/ KpPair \/ DiskFails
  BY <1>5 DEF KsExists, KsOpen, KsHeader, KpRefused, KpPair, DiskFails, Goto, Idle
<1> QED
  BY <1>1, <1>2, <1>3, <1>4, <1>5, ServerQuiet DEF ServerMoves, Keystores, Signing

LEMMA OneServedNext ==
  ASSUME IInv, [Next]_vars
  PROVE  OneServed'
<1>1. Framed
  BY Frame
<1> SUFFICES /\ spc' \notin Idle => sconn' # 0
             /\ \A k \in 1 .. Len(conns) :
                  (conns'[k].sopen /\ k <= sconn') => k = sconn' /\ spc' \notin Idle
             /\ sconn' \in 0 .. Len(conns)
  BY <1>1 DEF Framed, OneServed, Idle
<1>2. sconn' \in 0 .. Len(conns)
  BY ServerTypes DEF IInv
<1>3. \A k \in 1 .. Len(conns) : conns'[k].sopen => conns[k].sopen
  BY <1>1 DEF Framed, Kept
<1>4. /\ spc \notin Idle => sconn # 0
      /\ \A k \in 1 .. Len(conns) :
           (conns[k].sopen /\ k <= sconn) => k = sconn /\ spc \notin Idle
  BY DEF IInv, OneServed, Idle
<1>5. CASE sconn' = sconn /\ (spc' \in Idle <=> spc \in Idle)
  BY <1>2, <1>3, <1>4, <1>5
<1>6. CASE Accept
  <2>1. /\ spc \in Idle /\ spc' \notin Idle /\ sconn' \in 1 .. Len(conns) /\ sconn' > sconn
        /\ \A j \in 1 .. Len(conns) : (j > sconn /\ conns[j].sopen) => sconn' <= j
    <3>1. DOMAIN conns = 1 .. Len(conns)
      BY DEF IInv, TypeOK
    <3> QED  BY <1>6, <3>1 DEF Accept, Idle
  <2>2. \A k \in 1 .. Len(conns) : (conns[k].sopen /\ k <= sconn') => k = sconn'
    BY <1>1, <1>4, <2>1 DEF Framed
  <2> QED  BY <1>2, <1>3, <2>1, <2>2
<1>7. CASE SClose
  <2>1. spc = "close" /\ spc' \in Idle /\ sconn' = sconn /\ sconn \in 1 .. Len(conns)
    BY <1>7, ServerAt DEF IInv, SClose, Idle
  <2>2. ~ conns'[sconn].sopen
    BY <1>7, <2>1, ServerAt DEF SClose, IInv, TypeOK, Conn
  <2> QED  BY <1>2, <1>3, <1>4, <2>1, <2>2
<1>8. CASE ServerCrash
  <2>1. spc' \in Idle
    BY <1>8 DEF ServerCrash, Idle
  <2>2. \A k \in 1 .. Len(conns) : ~ conns'[k].sopen
    <3>1. DOMAIN conns = 1 .. Len(conns)
      BY DEF IInv, TypeOK
    <3> QED  BY <1>1, <1>8, <3>1 DEF ServerCrash, Framed, Conn
  <2> QED  BY <1>2, <2>1, <2>2
<1>9. CASE ServerRestart
  <2>1. spc \in Idle /\ spc' \in Idle /\ sconn' = sconn
    BY <1>9 DEF ServerRestart, Goto, Idle
  <2> QED  BY <1>2, <1>3, <1>4, <2>1
<1> QED  BY <1>5, <1>6, <1>7, <1>8, <1>9, ServerPlace

LEMMA SentNext ==
  ASSUME IInv, [Next]_vars
  PROVE  Sent'
<1>1. Framed
  BY Frame
<1>2. \A k \in 1 .. Len(conns) : \A n \in 1 .. Len(conns[k].c2s) : Own(conns[k].c2s[n], k, conns[k].req, creq)
  BY DEF IInv, Sent
<1>3. \A k \in 1 .. Len(conns) : \A m : Own(m, k, conns[k].req, creq) =>
          Own(m, k, conns'[k].req, creq')
  BY <1>1 DEF Framed, Kept, Own
<1>4. ASSUME NEW k \in 1 .. Len(conns), NEW n \in 1 .. Len(conns'[k].c2s)
      PROVE  Own(conns'[k].c2s[n], k, conns'[k].req, creq')
  <2>1. conns[k].c2s \in Seq(Message) /\ Len(conns[k].c2s) \in Nat
    BY <1>1, ConnTypes DEF Framed
  <2>2. CASE conns'[k].c2s = conns[k].c2s
    BY <1>2, <1>3, <2>2
  <2>3. CASE conns[k].c2s # <<>> /\ conns'[k].c2s = Tail(conns[k].c2s)
    <3>1. conns'[k].c2s[n] = conns[k].c2s[n + 1] /\ n + 1 \in 1 .. Len(conns[k].c2s)
      BY <2>1, <2>3, HeadTailProperties
    <3> QED  BY <1>2, <1>3, <3>1
  <2>4. CASE /\ k = creq /\ creq' = creq /\ CNext.do = "send"
             /\ conns'[k].c2s = Append(conns[k].c2s, Asked)
    <3>1. CASE n <= Len(conns[k].c2s)
      <4>1. n \in 1 .. Len(conns[k].c2s) /\ conns'[k].c2s[n] = conns[k].c2s[n]
        BY <2>1, <2>4, <3>1
      <4> QED  BY <1>2, <1>3, <4>1
    <3>2. CASE n > Len(conns[k].c2s)
      <4>1. conns'[k].c2s[n] = Asked
        BY <2>1, <2>4, <3>2
      <4>2. /\ Asked.cmd = CNext.cmd /\ Asked.id = CReq.id
            /\ Asked.index = CReq.index /\ Asked.tx = CReq.tx
        BY DEF Asked, Msg
      <4>3. creq # 0 /\ CReq = conns[k].req
        BY <2>4 DEF CReq
      <4>4. /\ StepOf(CReq.kind, CLast, CNext.do, CNext.cmd)
            /\ CNext.cmd \in Cmds \ {"ee", "ff"}
        BY <4>3, ClientAt DEF IInv
      <4>5. /\ CNext.cmd # "ff"
            /\ CNext.cmd = "11" => CReq.kind = "keystore"
            /\ CNext.cmd = "21" => CReq.kind = "keypair"
            /\ CNext.cmd = "31" => CReq.kind = "sign"
        BY <4>4 DEF StepOf
      <4>6. Own(Asked, k, conns[k].req, creq)
        BY <4>2, <4>3, <4>5 DEF Own
      <4> QED  BY <1>3, <4>1, <4>6
    <3> QED  BY <2>1, <3>1, <3>2
  <2>5. CASE k = creq /\ creq' = 0 /\ conns'[k].c2s = Append(conns[k].c2s, GivenUp)
    <3>1. CASE n <= Len(conns[k].c2s)
      <4>1. n \in 1 .. Len(conns[k].c2s) /\ conns'[k].c2s[n] = conns[k].c2s[n]
        BY <2>1, <2>5, <3>1
      <4> QED  BY <1>2, <1>3, <4>1
    <3>2. CASE n > Len(conns[k].c2s)
      <4>1. conns'[k].c2s[n] = GivenUp
        BY <2>1, <2>5, <3>2
      <4>2. GivenUp.cmd = "ff" /\ GivenUp.id = conns[k].req.id
        BY <2>5 DEF GivenUp, Msg, CReq
      <4>3. conns'[k].req = conns[k].req
        BY <1>1 DEF Framed, Kept
      <4> QED  BY <2>5, <4>1, <4>2, <4>3 DEF Own
    <3> QED  BY <2>1, <3>1, <3>2
  <2>6. Kept(k)
    BY <1>1 DEF Framed
  <2> QED  BY <2>2, <2>3, <2>4, <2>5, <2>6 DEF Kept, ToServer
<1>5. \A k \in 1 .. Len(conns') : k \in 1 .. Len(conns) \/ Len(conns'[k].c2s) = 0
  BY <1>1 DEF Framed
<1> QED  BY <1>4, <1>5 DEF Sent

LEMMA AskingNext ==
  ASSUME IInv, [Next]_vars
  PROVE  Asking'
<1>1. Framed /\ TypeOK'
  BY Frame, TypeNext
<1>2. CASE creq' = 0
  BY <1>2 DEF Asking
<1>3. CASE Connect
  <2>1. creq' # 0 /\ cstep' = 1 /\ creq' \in 1 .. Len(conns') /\ conns' \in Seq(Conn)
    BY <1>1, <1>3, ConnectEffect DEF IInv, TypeOK
  <2>2. conns'[creq'] \in Conn
    BY <2>1, ElementOfSeq
  <2>3. CReq'.kind \in Kinds
    BY <2>2, ConnTypes, RequestType DEF CReq
  <2>4. \A kind \in Kinds : Len(Script(kind)) >= 1
    <3> SUFFICES ASSUME NEW kind \in Kinds
                 PROVE  Len(Script(kind)) >= 1
      OBVIOUS
    <3>1. CASE kind = "keystore"
      <4>1. Len(Script(kind)) = 2
        BY <3>1, KeystoreScript
      <4> QED  BY <4>1
    <3>2. CASE kind = "keypair"
      <4>1. Len(Script(kind)) = 3
        BY <3>2, KeypairScript
      <4> QED  BY <4>1
    <3>3. CASE kind = "sign"
      <4>1. Len(Script(kind)) = 8
        BY <3>3, SignScript
      <4> QED  BY <4>1
    <3> QED  BY <3>1, <3>2, <3>3 DEF Kinds
  <2>5. Len(Script(CReq'.kind)) >= 1
    BY <2>3, <2>4
  <2>6. cstep' <= Len(Script(CReq'.kind))
    BY <2>1, <2>5
  <2> QED  BY <2>6 DEF Asking
<1>4. CASE creq' = creq /\ creq # 0 /\ ~ Connect
  <2>1. CReq' = CReq /\ CReq.kind \in Kinds
    BY <1>1, <1>4, ClientAt DEF CReq, Framed, Kept, IInv
  <2> DEFINE length == Len(Script(CReq.kind))
  <2>2. cstep <= length /\ cstep \in 1 .. 8
    BY <1>4 DEF IInv, Asking, TypeOK
  <2>3. length \in 1 .. 8
    BY <2>1, <2>2, ScriptFacts
  <2>4. cstep' = cstep \/ (cstep' = cstep + 1 /\ cstep # length)
    <3>1. CASE UNCHANGED client
      BY <3>1 DEF client
    <3>2. CASE CSend
      <4>1. cstep' = cstep + 1 /\ CNext.do = "send"
        BY <3>2 DEF CSend
      <4>2. StepOf(CReq.kind, CLast, CNext.do, CNext.cmd)
        BY <1>4, ClientAt DEF IInv
      <4>3. ~ CLast
        BY <4>1, <4>2, Zenon DEF StepOf
      <4> QED  BY <4>1, <4>3 DEF CLast
    <3>3. CASE CRecv
      BY <3>3 DEF CRecv, CLast
    <3> QED  BY <1>4, <3>1, <3>2, <3>3, ClientMoves
  <2> HIDE DEF length
  <2>5. cstep' <= length
    BY <2>2, <2>3, <2>4
  <2> QED  BY <2>1, <2>5 DEF Asking, length
<1> QED
  <2>1. (UNCHANGED client \/ CSend \/ CRecv) => creq' = creq
    BY DEF client, CSend, CRecv
  <2> QED  BY <1>2, <1>3, <1>4, <2>1, ClientMoves

LEMMA ServingNext ==
  ASSUME IInv, [Next]_vars
  PROVE  Serving'
<1>1. Framed /\ TypeOK'
  BY Frame, TypeNext
<1> DEFINE Place(stage, id, index, r) ==
             /\ stage \in Served => id = r.id
             /\ stage \in KsStages => r.kind = "keystore"
             /\ stage \in KpStages => r.kind = "keypair"
             /\ stage \in TxStages => r.kind = "sign" /\ index = r.index
<1>2. (spc' \in Served /\ sconn' = sconn) => conns'[sconn].req = conns[sconn].req
  <2>1. (spc' \in Served /\ sconn' = sconn) => sconn \in 1 .. Len(conns)
    BY <1>1, OneServedNext DEF OneServed, Served, KsStages, KpStages, TxStages, Framed
  <2> QED  BY <1>1, <2>1 DEF Framed, Kept
<1>3. Place(spc, scmd.id, scmd.index, conns[sconn].req) /\ (spc \in Served => scmd # <<>>)
  BY DEF IInv, Serving
<1> SUFFICES ASSUME spc' \in Served
             PROVE  /\ scmd' # <<>>
                    /\ sconn' = sconn
                    /\ Place(spc', scmd'.id, scmd'.index, conns[sconn].req)
  <2>1. spc' \notin Served => spc' \notin KsStages /\ spc' \notin KpStages /\ spc' \notin TxStages
    BY DEF Served
  <2>2. CASE spc' \notin Served
    BY <2>1, <2>2 DEF Serving
  <2>3. CASE spc' \in Served
    BY <1>2, <2>3 DEF Serving
  <2> QED  BY <2>2, <2>3
<1> DEFINE Onward == /\ UNCHANGED <<sconn, scmd>> /\ spc \in Served
                     /\ spc' \in KsStages => spc \in KsStages
                     /\ spc' \in KpStages => spc \in KpStages
                     /\ spc' \in TxStages => spc \in TxStages
<1>4. Onward => /\ scmd' # <<>> /\ sconn' = sconn
                /\ Place(spc', scmd'.id, scmd'.index, conns[sconn].req)
  BY <1>3
<1> USE DEF Served, KsStages, KpStages, TxStages
<1>5. CASE UNCHANGED server
  BY <1>3, <1>5 DEF server
<1>6. CASE Accept \/ SClose \/ ServerCrash \/ ServerRestart
  BY <1>6 DEF Accept, SClose, ServerCrash, ServerRestart, Goto
<1>7. CASE SReadCmd
  <2>1. /\ CanRead /\ spc = "read" /\ scmd' = [id |-> Incoming.id, index |-> Incoming.index]
        /\ sconn' = sconn
        /\ \/ Incoming.cmd = "11" /\ spc' = "ks_open"
           \/ Incoming.cmd = "21" /\ spc' = "kp_create"
           \/ Incoming.cmd = "31" /\ spc' = "tx_get"
           \/ spc' = "close"
    BY <1>7 DEF SReadCmd
  <2>2. /\ Incoming = conns[sconn].c2s[1] /\ Len(conns[sconn].c2s) >= 1
        /\ sconn \in 1 .. Len(conns)
    <3>1. conns[sconn].c2s # <<>> /\ spc \notin {"accept", "down"}
      BY <2>1 DEF CanRead
    <3>2. conns[sconn].c2s \in Seq(Message) /\ sconn \in 1 .. Len(conns)
      BY <3>1, ServerAt, ConnTypes DEF IInv
    <3> QED  BY <2>1, <3>1, <3>2, ReadMessage DEF IInv
  <2>3. Own(Incoming, sconn, conns[sconn].req, creq)
    <3>1. 1 \in 1 .. Len(conns[sconn].c2s)
      BY <2>2, <1>1, ConnTypes DEF Framed
    <3> QED  BY <2>2, <3>1 DEF IInv, Sent
  <2>4. scmd' # <<>> /\ scmd'.id = Incoming.id /\ scmd'.index = Incoming.index
    <3>1. Incoming \in Message
      BY <2>1, ReadMessage DEF IInv
    <3>2. Incoming.id \in Ids /\ Incoming.index \in Nat
      BY <3>1 DEF Message
    <3>3. scmd'.id = Incoming.id /\ scmd'.index = Incoming.index
      BY <2>1
    <3>4. scmd' # <<>>
      BY <2>1
    <3> QED  BY <3>3, <3>4
  <2> QED  BY <2>1, <2>3, <2>4 DEF Own
<1>8. CASE KpHeader
  <2>1. /\ spc = "kp_header" /\ spc' = "kp_ack" /\ sconn' = sconn
        /\ scmd' = [scmd EXCEPT !.index = ks[scmd.id].num % IndexModulus]
    BY <1>8 DEF KpHeader
  <2>2. scmd \in [id : Ids, index : Nat]
    BY <2>1, ServerAt DEF IInv
  <2>3. scmd'.id = scmd.id
    BY <2>1, <2>2
  <2>4. scmd' # <<>>
    <3>1. DOMAIN scmd' = {"id", "index"}
      BY <2>1, <2>2
    <3>2. DOMAIN <<>> = {}
      OBVIOUS
    <3> QED  BY <3>1, <3>2
  <2> QED  BY <1>3, <2>1, <2>3, <2>4
<1>9. CASE SReset \/ TxCmd \/ TxStart \/ TxSign \/ TxGet \/ TxData \/ KpCreate
  <2>1. Onward
    BY <1>9 DEF SReset, TxCmd, TxStart, TxSign, TxGet, TxData, KpCreate, Goto, Waiting
  <2> QED  BY <1>4, <2>1
<1>10. CASE SWrite \/ SWriteFails
  <2>1. Onward
    BY <1>10 DEF SWrite, SWriteFails, Goto, Writing, AfterWrite, AfterFailedWrite
  <2> QED  BY <1>4, <2>1
<1>11. CASE KsExists \/ KsOpen \/ KsHeader \/ KpRefused \/ KpPair \/ DiskFails
  <2>1. Onward
    BY <1>11 DEF KsExists, KsOpen, KsHeader, KpRefused, KpPair, DiskFails, Goto
  <2> QED  BY <1>4, <2>1
<1> QED
  BY <1>5, <1>6, <1>7, <1>8, <1>9, <1>10, <1>11, ServerQuiet
     DEF ServerMoves, Keystores, Signing

(* A server that has written an error, or has found the connection reset,  *)
(* has warned the client.                                                  *)
LEMMA ErrorWritten ==
  ASSUME IInv, [Next]_vars, SWrite \/ SWriteFails
  PROVE  /\ sconn \in 1 .. Len(conns) /\ UNCHANGED <<creq, sconn, scmd, skey, stx, ks>>
         /\ ~ Warned(sconn)' => /\ SWrite /\ Reply # "ee" /\ Written.cmd = Reply
                                /\ conns[sconn].s2c \in Seq(Message)
                                /\ conns'[sconn].s2c = Append(conns[sconn].s2c, Written)
<1>1. /\ spc \in Writing /\ spc \notin {"accept", "down"} /\ UNCHANGED <<creq, sconn, scmd, skey, stx, ks>>
  BY DEF SWrite, SWriteFails, Writing, Goto, client
<1>2. /\ sconn \in 1 .. Len(conns) /\ conns[sconn] \in Conn /\ Written \in Message
      /\ conns[sconn].s2c \in Seq(Message)
  BY <1>1, ServerAt, ConnTypes DEF IInv
<1>3. CASE SWriteFails
  <2>1. Warned(sconn)
    BY <1>3 DEF SWriteFails, Warned
  <2> QED  BY <1>1, <1>2, <2>1, WarnedStays
<1>4. CASE SWrite
  <2>1. conns' = [conns EXCEPT ![sconn] = SPut(conns[sconn], Written)]
    BY <1>4 DEF SWrite, Written
  <2>2. conns'[sconn] = SPut(conns[sconn], Written)
    BY <1>2, <2>1 DEF IInv, TypeOK
  <2>3. conns'[sconn].rst \/ conns'[sconn].s2c = Append(conns[sconn].s2c, Written)
    <3> DEFINE c == conns[sconn]
    <3>1. c \in Conn /\ Written \in Message
      BY <1>2
    <3> HIDE DEF c
    <3>2. SPut(c, Written).rst \/ SPut(c, Written).s2c = Append(c.s2c, Written)
      BY <3>1, SPutEffect
    <3> QED  BY <2>2, <3>2 DEF c
  <2>4. Written.cmd = Reply
    BY DEF Written, Msg
  <2>5. CASE conns'[sconn].rst
    BY <1>1, <1>2, <2>5 DEF Warned
  <2>6. CASE conns'[sconn].s2c = Append(conns[sconn].s2c, Written)
    <3>1. Reply = "ee" => Warned(sconn)'
      <4> SUFFICES ASSUME Reply = "ee"
                   PROVE  \E j \in 1 .. Len(conns'[sconn].s2c) : j < Len(conns'[sconn].s2c) + 1
                             /\ conns'[sconn].s2c[j].cmd = "ee"
        BY <1>1 DEF Warned, Warns
      <4>1. /\ Len(conns'[sconn].s2c) = Len(conns[sconn].s2c) + 1
            /\ Len(conns[sconn].s2c) \in Nat
            /\ conns'[sconn].s2c[Len(conns[sconn].s2c) + 1] = Written
        BY <1>2, <2>6
      <4> DEFINE last == Len(conns[sconn].s2c) + 1
      <4>2. last \in 1 .. Len(conns'[sconn].s2c) /\ last < Len(conns'[sconn].s2c) + 1
        BY <4>1
      <4>3. conns'[sconn].s2c[last].cmd = "ee"
        BY <2>4, <4>1
      <4> QED  BY <4>2, <4>3
    <3> QED  BY <1>1, <1>2, <1>4, <2>4, <2>6, <3>1
  <2> QED  BY <2>3, <2>5, <2>6
<1> QED  BY <1>3, <1>4

LEMMA FilesKeptNext ==
  ASSUME IInv, [Next]_vars
  PROVE  Files'
<1>1. Framed /\ FilesKept
  BY Frame, FilesNext DEF IInv
<1>2. spc \in Served => /\ sconn \in 1 .. Len(conns) /\ scmd.id \in Ids
                        /\ scmd \in [id : Ids, index : Nat]
  BY ServerAt DEF IInv, Served, KsStages, KpStages, TxStages
<1>3. spc \in Served => ks[scmd.id] \in [num : Int, pairs : Seq(0 .. MaxReq)]
  BY <1>2 DEF IInv, TypeOK
<1>5. CASE UNCHANGED server /\ UNCHANGED ks
  <2>1. UNCHANGED <<spc, sconn, scmd, skey, ks>>
    BY <1>5 DEF server
  <2>2. (spc = "ks_ack" /\ Warned(sconn)) => Warned(sconn)'
    BY <1>2, <2>1, WarnedStays DEF Served, KsStages
  <2>3. Files
    BY DEF IInv
  <2> QED  BY <2>1, <2>2, <2>3 DEF Files
<1>6. CASE Accept \/ SReadCmd \/ SReset \/ SClose \/ ServerCrash \/ ServerRestart \/ Signing
  BY <1>6 DEF Accept, SReadCmd, SReset, SClose, ServerCrash, ServerRestart, Signing,
     TxGet, TxCmd, TxData, TxStart, TxSign, Goto, Files
<1>7. CASE KsExists \/ KpCreate \/ KpRefused \/ DiskFails
  BY <1>7 DEF KsExists, KpCreate, KpRefused, DiskFails, Goto, Files
<1>8. CASE KsOpen
  <2>1. /\ scmd' = scmd /\ spc = "ks_open" /\ spc' = "ks_header"
        /\ ks' = [ks EXCEPT ![scmd.id].num = NoHeader]
    BY <1>8 DEF KsOpen, Goto
  <2>2. scmd.id \in Ids
    BY <1>2, <2>1 DEF Served, KsStages
  <2>3. ks'[scmd.id].num = NoHeader
    BY <1>3, <2>1, <2>2 DEF IInv, TypeOK
  <2> QED  BY <2>1, <2>3 DEF Files
<1>9. CASE KsHeader
  <2>1. /\ scmd' = scmd /\ spc = "ks_header" /\ spc' = "ks_ack"
        /\ ks' = [ks EXCEPT ![scmd.id].num = 0]
    BY <1>9 DEF KsHeader, Goto
  <2>2. scmd.id \in Ids
    BY <1>2, <2>1 DEF Served, KsStages
  <2>3. ks'[scmd.id].num = 0
    BY <1>3, <2>1, <2>2 DEF IInv, TypeOK
  <2> QED  BY <2>1, <2>3 DEF Files
<1>10. CASE KpPair
  <2>1. /\ scmd' = scmd /\ spc = "kp_save" /\ spc' = "kp_header" /\ skey' = skey
        /\ ks[scmd.id].num >= 0
        /\ ks' = [ks EXCEPT ![scmd.id] = PutPair(ks[scmd.id], skey)]
    BY <1>10 DEF KpPair, Goto
  <2>2. scmd.id \in Ids /\ ks[scmd.id].num \in 0 .. Len(ks[scmd.id].pairs)
    BY <1>2, <2>1 DEF Served, KpStages, IInv, TypeOK, NoFile, NoHeader
  <2>3. ks'[scmd.id] = PutPair(ks[scmd.id], skey)
    BY <2>1, <2>2 DEF IInv, TypeOK
  <2>4. skey \in 0 .. MaxReq /\ spc \in Served
    BY <2>1 DEF IInv, TypeOK, Served, KpStages
  <2> QED  BY <1>3, <2>1, <2>2, <2>3, <2>4, PairPut DEF Files
<1>11. CASE KpHeader
  BY <1>11 DEF KpHeader, Files
<1>12. CASE SWrite \/ SWriteFails
  <2>1. UNCHANGED <<scmd, skey, sconn, ks>>
    BY <1>12, ErrorWritten
  <2>2. spc' \notin {"ks_header", "kp_header"} /\ (spc' = "ks_ack" => spc = "ks_error")
    BY <1>12 DEF SWrite, SWriteFails, Goto, Writing, AfterWrite, AfterFailedWrite
  <2>3. spc = "ks_error" => Warned(sconn)'
    BY <1>12, ErrorWritten DEF Reply
  <2>4. Warned(sconn)' => (spc' = "ks_ack" => ks'[scmd'.id].num >= 0 \/ Warned(sconn)')
    OBVIOUS
  <2> QED  BY <2>2, <2>3 DEF Files
<1> QED
  BY <1>5, <1>6, <1>7, <1>8, <1>9, <1>10, <1>11, <1>12, ServerQuiet
     DEF ServerMoves, Keystores

LEMMA Uncut ==
  ASSUME NEW n \in Nat, n < IndexModulus
  PROVE  n % IndexModulus = n
  BY MoscpAssumption

LEMMA InMemoryNext ==
  ASSUME IInv, [Next]_vars
  PROVE  InMemory'
<1>1. Framed /\ FilesKept
  BY Frame, FilesNext DEF IInv
<1>2. spc \in Served => /\ sconn \in 1 .. Len(conns) /\ scmd.id \in Ids /\ scmd.index \in Nat
                        /\ scmd \in [id : Ids, index : Nat]
  BY ServerAt DEF IInv, Served, KsStages, KpStages, TxStages
<1>3. ASSUME UNCHANGED <<sconn, scmd, skey, stx>>
      PROVE  /\ spc \in SavedStages => skey' = sconn' \/ (skey' = 0 /\ Warned(sconn)')
             /\ spc = "kp_ack" => HoldsCut(scmd.id, scmd.index, skey)'
             /\ spc \in TxStages \ {"tx_get"} => Holds(scmd.id, scmd.index, skey)'
             /\ (spc \in DataStages /\ creq' = sconn') => stx' = conns'[sconn'].req.tx
  <2>1. spc \in SavedStages => skey' = sconn' \/ (skey' = 0 /\ Warned(sconn)')
    BY <1>2, <1>3, WarnedStays DEF IInv, InMemory, SavedStages, Served, KpStages
  <2>2. spc = "kp_ack" => HoldsCut(scmd.id, scmd.index, skey)'
    BY <1>1, <1>2, <1>3, HoldsStays DEF IInv, InMemory, Served, KpStages
  <2>3. spc \in TxStages \ {"tx_get"} => Holds(scmd.id, scmd.index, skey)'
    BY <1>1, <1>2, <1>3, HoldsStays DEF IInv, InMemory, Served
  <2>4. (spc \in DataStages /\ creq' = sconn') => stx' = conns'[sconn'].req.tx
    <3>1. spc \in DataStages => sconn \in 1 .. Len(conns)
      BY <1>2 DEF DataStages, Served, TxStages
    <3> QED  BY <1>1, <1>3, <3>1 DEF IInv, InMemory, Framed, Kept
  <2> QED  BY <2>1, <2>2, <2>3, <2>4
<1> USE DEF SavedStages, DataStages, TxStages
<1>4. CASE UNCHANGED server /\ UNCHANGED ks
  <2>1. UNCHANGED <<spc, sconn, scmd, skey, stx>>
    BY <1>4 DEF server
  <2> QED  BY <1>3, <2>1 DEF IInv, InMemory
<1>5. CASE Accept \/ SReadCmd \/ SReset \/ SClose \/ ServerCrash \/ ServerRestart
  BY <1>5 DEF Accept, SReadCmd, SReset, SClose, ServerCrash, ServerRestart, Goto, InMemory
<1>6. CASE KsExists \/ KsOpen \/ KsHeader \/ KpRefused \/ DiskFails
  BY <1>6 DEF KsExists, KsOpen, KsHeader, KpRefused, DiskFails, Goto, InMemory
<1>7. CASE KpPair
  <2>1. spc = "kp_save" /\ spc' = "kp_header" /\ UNCHANGED <<sconn, scmd, skey, stx>>
    BY <1>7 DEF KpPair, Goto
  <2> QED  BY <1>3, <2>1 DEF InMemory
<1>8. CASE TxCmd \/ TxStart \/ TxSign
  <2>1. /\ UNCHANGED <<sconn, scmd, skey, stx>>
        /\ \/ spc = "tx_cmd" /\ spc' = "tx_data"
           \/ spc = "tx_start" /\ spc' = "tx_sign"
           \/ spc = "tx_sign" /\ spc' = "tx_sack"
           \/ spc' = "error"
    BY <1>8 DEF TxCmd, TxStart, TxSign, Goto
  <2> QED  BY <1>3, <2>1 DEF InMemory
<1>9. CASE SWrite \/ SWriteFails
  <2>1. /\ UNCHANGED <<sconn, scmd, skey, stx>>
        /\ \/ spc = "kp_error" /\ spc' = "kp_save"
           \/ spc = "kp_ack" /\ spc' = "kp_xpub"
           \/ spc = "tx_ack" /\ spc' = "tx_cmd"
           \/ spc = "tx_dack" /\ spc' = "tx_start"
           \/ spc = "tx_sack" /\ spc' = "tx_res"
           \/ spc' \in {"close", "error", "ks_ack"}
    BY <1>9 DEF SWrite, SWriteFails, Goto, Writing, AfterWrite, AfterFailedWrite
  <2>2. spc = "kp_error" => skey' = 0 /\ Warned(sconn)'
    BY <1>9, <2>1, ErrorWritten DEF IInv, InMemory, Reply
  <2> QED  BY <1>3, <2>1, <2>2 DEF InMemory
<1>10. CASE KpCreate
  BY <1>10 DEF KpCreate, InMemory
<1>11. CASE KpHeader
  <2>1. /\ spc = "kp_header" /\ spc' = "kp_ack" /\ UNCHANGED <<sconn, skey, stx>>
        /\ scmd' = [scmd EXCEPT !.index = ks[scmd.id].num % IndexModulus]
        /\ ks' = [ks EXCEPT ![scmd.id].num = @ + 1]
    BY <1>11 DEF KpHeader
  <2>2. /\ scmd.id \in Ids /\ scmd \in [id : Ids, index : Nat] /\ sconn \in 1 .. Len(conns)
    BY <1>2, <2>1 DEF Served, KpStages
  <2> DEFINE f == ks[scmd.id]
  <2>3. /\ f \in [num : Int, pairs : Seq(0 .. MaxReq)]
        /\ f.num >= 0 /\ f.pairs[f.num + 1] = skey
    BY <2>1, <2>2 DEF IInv, TypeOK, Files
  <2>4. ks'[scmd.id].num = f.num + 1 /\ ks'[scmd.id].pairs = f.pairs
    BY <2>1, <2>2, <2>3 DEF IInv, TypeOK
  <2>5. scmd'.id = scmd.id /\ scmd'.index = f.num % IndexModulus
    BY <2>1, <2>2
  <2> HIDE DEF f
  <2>6. f.num + 1 <= IndexModulus => f.num % IndexModulus = f.num
    <3>1. f.num \in Nat
      BY <2>3
    <3>2. f.num + 1 <= IndexModulus => f.num < IndexModulus
      BY <3>1, MoscpAssumption
    <3> QED  BY <3>1, <3>2, Uncut
  <2>7. HoldsCut(scmd.id, scmd.index, skey)'
    <3> SUFFICES ASSUME f.num + 1 <= IndexModulus
                 PROVE  Holds(scmd.id, scmd.index, skey)'
      BY <2>4, <2>5 DEF HoldsCut
    <3> QED  BY <2>1, <2>3, <2>4, <2>5, <2>6 DEF Holds, Stored
  <2>8. skey' = sconn' \/ (skey' = 0 /\ Warned(sconn)')
    BY <2>1, <2>2, WarnedStays DEF IInv, InMemory
  <2> QED  BY <2>1, <2>7, <2>8 DEF InMemory
<1>12. CASE TxGet
  <2>1. /\ spc' \in {"tx_ack", "error"} /\ UNCHANGED <<scmd, ks>>
        /\ spc' = "tx_ack" => /\ Stored(scmd.id, scmd.index)
                              /\ skey' = ks[scmd.id].pairs[scmd.index + 1]
    BY <1>12 DEF TxGet
  <2>2. spc' = "tx_ack" => Holds(scmd.id, scmd.index, skey)'
    BY <2>1 DEF Holds, Stored
  <2> QED  BY <2>1, <2>2 DEF InMemory
<1>13. CASE TxData
  <2>1. /\ spc = "tx_data" /\ spc' = "tx_dack" /\ UNCHANGED <<sconn, scmd, skey, creq, ks>>
        /\ stx' = Incoming.tx /\ CanRead
    BY <1>13 DEF TxData, client
  <2>2. sconn \in 1 .. Len(conns) /\ Incoming = conns[sconn].c2s[1] /\ conns[sconn].c2s # <<>>
    BY <1>2, <2>1, ReadMessage DEF IInv, CanRead, Served
  <2>3. Own(Incoming, sconn, conns[sconn].req, creq)
    <3>1. 1 \in 1 .. Len(conns[sconn].c2s)
      BY <2>2, <1>1, ConnTypes DEF Framed
    <3> QED  BY <2>2, <3>1 DEF IInv, Sent
  <2>4. creq' = sconn' => stx' = conns'[sconn'].req.tx
    BY <1>1, <2>1, <2>2, <2>3 DEF Own, Framed, Kept
  <2>5. Holds(scmd.id, scmd.index, skey)'
    BY <2>1 DEF IInv, InMemory, Holds, Stored
  <2> QED  BY <2>1, <2>4, <2>5 DEF InMemory
<1> QED
  BY <1>4, <1>5, <1>6, <1>7, <1>8, <1>9, <1>10, <1>11, <1>12, <1>13, ServerQuiet
     DEF ServerMoves, Keystores, Signing

LEMMA PairsBelowNext ==
  ASSUME IInv, [Next]_vars
  PROVE  PairsBelow'
<1> DEFINE Making(stage) == stage \in {"read", "kp_create", "kp_save", "kp_error", "kp_header"}
<1>1. Framed /\ FilesKept /\ TypeOK'
  BY Frame, FilesNext, TypeNext DEF IInv
<1>2. ASSUME NEW i \in Ids
      PROVE  /\ ks[i].num \in Int /\ ks[i].num <= sconn /\ sconn \in Nat /\ ks[i].pairs \in Seq(0 .. MaxReq)
             /\ ks[i].num <= Len(ks[i].pairs)
             /\ \A n \in 1 .. ks[i].num : ks[i].pairs[n] \in Nat /\ ks[i].pairs[n] <= sconn
             /\ Making(spc) => /\ ks[i].num < sconn
                               /\ \A n \in 1 .. ks[i].num : ks[i].pairs[n] < sconn
  <2>1. /\ ks[i] \in [num : Int, pairs : Seq(0 .. MaxReq)]
        /\ ks[i].num \in {NoFile, NoHeader} \cup 0 .. Len(ks[i].pairs)
        /\ sconn \in Nat
    BY DEF IInv, TypeOK
  <2>2. ks[i].num <= Len(ks[i].pairs) /\ ks[i].num \in Int /\ ks[i].pairs \in Seq(0 .. MaxReq)
    BY <2>1 DEF NoFile, NoHeader
  <2>3. ASSUME NEW n \in 1 .. ks[i].num
        PROVE  ks[i].pairs[n] \in Nat
    <3>1. n \in 1 .. Len(ks[i].pairs)
      BY <2>2
    <3>2. ks[i].pairs[n] \in 0 .. MaxReq
      BY <2>2, <3>1, ElementOfSeq
    <3> QED  BY <3>2
  <2> QED  BY <2>1, <2>2, <2>3 DEF IInv, PairsBelow
<1>3. CASE UNCHANGED ks /\ sconn' = sconn /\ (Making(spc') => Making(spc))
  BY <1>3 DEF IInv, PairsBelow
<1>4. CASE Accept
  <2>1. sconn' > sconn /\ sconn' \in Nat /\ UNCHANGED ks
    BY <1>1, <1>4 DEF Accept, TypeOK
  <2>2. \A i \in Ids : /\ ks'[i].num < sconn' /\ ks'[i].num \in Int
                       /\ \A n \in 1 .. ks'[i].num : ks'[i].pairs[n] < sconn' /\ ks'[i].pairs[n] \in Nat
    BY <1>2, <2>1
  <2>3. \A i \in Ids : /\ ks'[i].num <= sconn'
                       /\ \A n \in 1 .. ks'[i].num : ks'[i].pairs[n] <= sconn'
    BY <2>1, <2>2
  <2> QED  BY <2>2, <2>3 DEF PairsBelow
<1>5. CASE KsOpen \/ KsHeader
  <2>1. /\ sconn' = sconn /\ ~ Making(spc') /\ spc \in Served
        /\ ks' = [ks EXCEPT ![scmd.id].num = NoHeader] \/ ks' = [ks EXCEPT ![scmd.id].num = 0]
    BY <1>5 DEF KsOpen, KsHeader, Goto, Served, KsStages
  <2>2. \A i \in Ids : /\ ks'[i].num <= 0 \/ ks'[i].num = ks[i].num
                       /\ ks'[i].pairs = ks[i].pairs /\ ks'[i].num \in Int
    <3> SUFFICES ASSUME NEW i \in Ids
                 PROVE  /\ ks'[i].num <= 0 \/ ks'[i].num = ks[i].num
                        /\ ks'[i].pairs = ks[i].pairs /\ ks'[i].num \in Int
      OBVIOUS
    <3>1. ks \in [Ids -> [num : Int, pairs : Seq(0 .. MaxReq)]]
      BY DEF IInv, TypeOK
    <3>2. CASE i # scmd.id
      BY <2>1, <3>1, <3>2
    <3>3. CASE i = scmd.id
      <4>1. \/ ks'[i] = [ks[i] EXCEPT !.num = NoHeader]
            \/ ks'[i] = [ks[i] EXCEPT !.num = 0]
        BY <2>1, <3>1, <3>3
      <4> QED  BY <3>1, <4>1 DEF NoHeader
    <3> QED  BY <3>2, <3>3
  <2>3. \A i \in Ids : /\ ks'[i].num <= sconn
                       /\ \A n \in 1 .. ks'[i].num : ks'[i].pairs[n] <= sconn
    BY <1>2, <2>2
  <2> QED  BY <2>1, <2>3 DEF PairsBelow
<1>6. CASE KpPair
  <2>1. /\ spc = "kp_save" /\ sconn' = sconn /\ ks[scmd.id].num >= 0
        /\ ks' = [ks EXCEPT ![scmd.id] = PutPair(ks[scmd.id], skey)]
    BY <1>6 DEF KpPair, Goto
  <2>2. /\ scmd.id \in Ids /\ skey \in 0 .. MaxReq
        /\ ks[scmd.id] \in [num : Int, pairs : Seq(0 .. MaxReq)]
    BY <2>1, ServerAt DEF IInv, TypeOK, Served, KpStages
  <2>3. ks[scmd.id].num \in 0 .. Len(ks[scmd.id].pairs)
    BY <1>2, <2>1, <2>2
  <2>4. /\ PutPair(ks[scmd.id], skey).num = ks[scmd.id].num
        /\ \A n \in 1 .. ks[scmd.id].num : PutPair(ks[scmd.id], skey).pairs[n] = ks[scmd.id].pairs[n]
    BY <2>2, <2>3, PairPut
  <2>5. \A i \in Ids : /\ ks'[i].num = ks[i].num
                       /\ \A n \in 1 .. ks[i].num : ks'[i].pairs[n] = ks[i].pairs[n]
    BY <2>1, <2>2, <2>4 DEF IInv, TypeOK
  <2>6. ASSUME NEW i \in Ids
        PROVE  /\ ks'[i].num < sconn /\ ks'[i].num <= sconn
               /\ \A n \in 1 .. ks'[i].num : ks'[i].pairs[n] < sconn /\ ks'[i].pairs[n] <= sconn
    <3>1. /\ ks[i].num \in Int /\ ks[i].num < sconn /\ sconn \in Nat
          /\ \A n \in 1 .. ks[i].num : ks[i].pairs[n] \in Nat /\ ks[i].pairs[n] < sconn
      BY <1>2, <2>1
    <3> QED  BY <2>5, <3>1
  <2> QED  BY <2>1, <2>6 DEF PairsBelow
<1>7. CASE KpHeader
  <2>1. /\ spc = "kp_header" /\ sconn' = sconn /\ spc' = "kp_ack"
        /\ ks' = [ks EXCEPT ![scmd.id].num = @ + 1]
    BY <1>7 DEF KpHeader
  <2>2. scmd.id \in Ids /\ Making(spc)
    BY <2>1, ServerAt DEF IInv, Served, KpStages
  <2>3. ks[scmd.id].pairs[ks[scmd.id].num + 1] = skey /\ skey <= sconn /\ skey \in Nat
    BY <1>2, <2>1, <2>2 DEF IInv, Files, InMemory, SavedStages, TypeOK
  <2>4. \A i \in Ids : /\ ks'[i].num = ks[i].num \/ (i = scmd.id /\ ks'[i].num = ks[i].num + 1)
                       /\ ks'[i].pairs = ks[i].pairs
    BY <2>1, <2>2 DEF IInv, TypeOK
  <2>5. \A i \in Ids : /\ ks'[i].num <= sconn
                       /\ \A n \in 1 .. ks'[i].num : ks'[i].pairs[n] <= sconn
    <3> SUFFICES ASSUME NEW i \in Ids
                 PROVE  /\ ks'[i].num <= sconn
                        /\ \A n \in 1 .. ks'[i].num : ks'[i].pairs[n] <= sconn
      OBVIOUS
    <3>1. ks[i].num \in Int /\ ks[i].num < sconn /\ sconn \in Nat
      BY <1>2, <2>2
    <3>2. \A n \in 1 .. ks[i].num : ks[i].pairs[n] <= sconn
      BY <1>2
    <3>3. CASE ks'[i].num = ks[i].num
      BY <2>4, <3>1, <3>2, <3>3
    <3>4. CASE i = scmd.id /\ ks'[i].num = ks[i].num + 1
      <4>1. \A n \in 1 .. ks[i].num + 1 : n \in 1 .. ks[i].num \/ n = ks[i].num + 1
        BY <3>1
      <4> QED  BY <2>3, <2>4, <3>1, <3>2, <3>4, <4>1
    <3> QED  BY <2>4, <3>3, <3>4
  <2>6. ~ Making(spc')
    BY <2>1
  <2> QED  BY <2>1, <2>5, <2>6 DEF PairsBelow
<1>8. CASE UNCHANGED server /\ UNCHANGED ks
  <2>1. UNCHANGED ks /\ sconn' = sconn /\ spc' = spc
    BY <1>8 DEF server
  <2> QED  BY <1>3, <2>1
<1>9. CASE SReadCmd \/ SReset \/ SClose \/ ServerCrash \/ ServerRestart \/ Signing
  <2>1. UNCHANGED ks /\ sconn' = sconn
    BY <1>9 DEF SReadCmd, SReset, SClose, ServerCrash, ServerRestart, Signing, TxGet, TxCmd,
       TxData, TxStart, TxSign, Goto
  <2>2. Making(spc') => Making(spc)
    BY <1>9 DEF SReadCmd, SReset, SClose, ServerCrash, ServerRestart, Signing, TxGet, TxCmd,
       TxData, TxStart, TxSign, Goto
  <2> QED  BY <1>3, <2>1, <2>2
<1>10. CASE SWrite \/ SWriteFails \/ KsExists \/ KpCreate \/ KpRefused \/ DiskFails
  <2>1. UNCHANGED ks /\ sconn' = sconn
    BY <1>10 DEF SWrite, SWriteFails, KsExists, KpCreate, KpRefused, DiskFails, Goto
  <2>2. Making(spc') => Making(spc)
    BY <1>10 DEF SWrite, SWriteFails, KsExists, KpCreate, KpRefused, DiskFails, Goto,
       Writing, AfterWrite, AfterFailedWrite
  <2> QED  BY <1>3, <2>1, <2>2
<1> QED
  BY <1>4, <1>5, <1>6, <1>7, <1>8, <1>9, <1>10, ServerQuiet DEF ServerMoves, Keystores

(* A client that has its index keeps it until it reads on, and gets it     *)
(* from the 0x22 it reads.                                                 *)
LEMMA HasIndexStays ==
  ASSUME IInv, [Next]_vars, creq # 0, creq' = creq, CReq.kind = "keypair",
         HasIndex, ~ CRecv
  PROVE  HasIndex'
<1>1. Framed /\ FilesKept /\ creq \in 1 .. Len(conns)
  BY Frame, FilesNext, ClientAt DEF IInv
<1>2. CReq' = CReq /\ CReq.id \in Ids
  <2>1. CReq \in Request
    BY ClientAt DEF IInv
  <2> QED  BY <1>1, <2>1, RequestType DEF CReq, Framed, Kept
<1>3. cstep' = 3 /\ cidx' = cidx /\ cidx \in Nat
  <2>1. UNCHANGED client \/ CSend
    <3>1. Connect => creq' # creq
      BY DEF Connect
    <3> QED  BY <1>1, <3>1, ClientMoves
  <2>2. ~ CSend
    <3>1. cstep = 3 /\ At(CReq.kind, 3, "recv", "data")
      BY KeypairScript DEF HasIndex
    <3>2. CNext.do = "recv"
      BY <3>1 DEF At, CNext
    <3> QED  BY <3>2 DEF CSend
  <2> QED  BY <2>1, <2>2 DEF client, HasIndex, IInv, TypeOK
<1>4. HoldsCut(CReq.id, cidx, creq)'
  BY <1>1, <1>2, <1>3, HoldsStays DEF HasIndex, IInv
<1> QED  BY <1>3, <1>4 DEF HasIndex

LEMMA IndexRead ==
  ASSUME IInv, [Next]_vars, CRecv, CReq.kind = "keypair", TrueMessage(creq, 1)
  PROVE  HasIndex'
<1>1. Framed /\ FilesKept /\ creq \in 1 .. Len(conns) /\ creq' = creq
  BY Frame, FilesNext, ReadOn DEF IInv
<1>2. /\ conns[creq].s2c[1].cmd = "22" /\ cidx' = conns[creq].s2c[1].index
      /\ cstep = 2 /\ cstep' = cstep + 1 /\ conns[creq].s2c # <<>>
  BY ReadOn
<1>3. conns[creq].s2c[1] \in Message /\ CReq \in Request
  BY <1>1, <1>2, ClientAt, ConnTypes DEF IInv
<1>4. CReq.id \in Ids /\ cidx' \in Nat /\ CReq' = CReq
  BY <1>1, <1>2, <1>3, RequestType DEF CReq, Framed, Kept, Message
<1>5. HoldsCut(CReq.id, cidx', creq)
  BY <1>2 DEF TrueMessage, Says, CReq
<1>6. HoldsCut(CReq.id, cidx, creq)'
  <2> DEFINE n == cidx'
  <2>1. n \in Nat /\ HoldsCut(CReq.id, n, creq)
    BY <1>4, <1>5
  <2>2. ks'[CReq.id].num >= ks[CReq.id].num /\ ks[CReq.id].num \in Int /\ ks'[CReq.id].num \in Int
    BY <1>1, <1>4, HoldsStays DEF IInv
  <2>3. \A j \in 1 .. ks[CReq.id].num : ks'[CReq.id].pairs[j] = ks[CReq.id].pairs[j]
    BY <1>1, <1>4 DEF FilesKept, Grown
  <2> HIDE DEF n
  <2>4. ks'[CReq.id].num <= IndexModulus =>
          ks'[CReq.id].num > n /\ ks'[CReq.id].pairs[n + 1] = creq
    BY <2>1, <2>2, <2>3, MoscpAssumption DEF HoldsCut, Holds, Stored
  <2> QED  BY <1>1, <1>4, <2>4 DEF n, HoldsCut, Holds, Stored
<1> QED  BY <1>2, <1>6 DEF HasIndex

LEMMA FirstMessage ==
  ASSUME IInv, creq # 0, conns[creq].s2c # <<>>
  PROVE  TrueMessage(creq, 1)
<1>1. conns[creq].s2c \in Seq(Message)
  BY ClientAt, ConnTypes DEF IInv
<1>2. 1 \in 1 .. Len(conns[creq].s2c)
  BY <1>1
<1>3. ~ Warns(creq, 1)
  BY <1>1 DEF Warns
<1> QED  BY <1>2, <1>3 DEF IInv, Answering

LEMMA IndexFirstNext ==
  ASSUME IInv, [Next]_vars
  PROVE  IndexFirst'
<1>1. Framed
  BY Frame
<1> SUFFICES ASSUME spc' = "kp_xpub", ~ Warned(sconn)'
             PROVE  IF conns'[sconn'].s2c = <<>> THEN HasIndex'
                    ELSE conns'[sconn'].s2c[Len(conns'[sconn'].s2c)].cmd = "22"
  BY DEF IndexFirst
<1>2. CASE SWrite \/ SWriteFails
  <2>1. spc = "kp_ack"
    BY <1>2 DEF SWrite, SWriteFails, Goto, Writing, AfterWrite, AfterFailedWrite
  <2>2. /\ Written.cmd = "22" /\ sconn' = sconn /\ conns[sconn].s2c \in Seq(Message)
        /\ conns'[sconn].s2c = Append(conns[sconn].s2c, Written)
    BY <1>2, <2>1, ErrorWritten DEF Reply
  <2>3. /\ conns'[sconn].s2c # <<>>
        /\ conns'[sconn].s2c[Len(conns'[sconn].s2c)] = Written
    BY <2>2
  <2> QED  BY <2>2, <2>3
<1>3. CASE UNCHANGED server /\ UNCHANGED ks /\ ~ SWrite
  <2>1. UNCHANGED <<spc, sconn>> /\ spc = "kp_xpub"
    BY <1>3 DEF server
  <2>2. sconn \in 1 .. Len(conns) /\ conns[sconn].req.kind = "keypair"
    BY <2>1, ServerAt DEF IInv, Serving, KpStages
  <2>3. ~ Warned(sconn)
    BY <2>1, <2>2, WarnedStays
  <2>4. creq = sconn /\ creq' = sconn /\ CReq.kind = "keypair"
    BY <2>1, <2>2, <2>3 DEF Warned, CReq
  <2>5. conns[creq].s2c \in Seq(Message) /\ Kept(creq)
    BY <1>1, <2>2, <2>4, ConnTypes DEF Framed
  <2>6. IF conns[creq].s2c = <<>> THEN HasIndex
        ELSE conns[creq].s2c[Len(conns[creq].s2c)].cmd = "22"
    BY <2>1, <2>3, <2>4 DEF IInv, IndexFirst
  <2>7. CASE conns'[creq].s2c = conns[creq].s2c
    <3>1. CASE conns[creq].s2c = <<>>
      <4>1. ~ CRecv
        BY <3>1 DEF CRecv
      <4> QED  BY <2>1, <2>2, <2>4, <2>6, <2>7, <3>1, <4>1, HasIndexStays
    <3>2. CASE conns[creq].s2c # <<>>
      BY <2>1, <2>4, <2>6, <2>7, <3>2
    <3> QED  BY <3>1, <3>2
  <2>8. CASE CRecv /\ conns[creq].s2c # <<>> /\ conns'[creq].s2c = Tail(conns[creq].s2c)
    <3>1. /\ Len(conns'[creq].s2c) = Len(conns[creq].s2c) - 1
          /\ \A n \in 1 .. Len(conns'[creq].s2c) : conns'[creq].s2c[n] = conns[creq].s2c[n + 1]
          /\ Len(conns[creq].s2c) \in Nat
      BY <2>5, <2>8, HeadTailProperties
    <3>2. CASE conns'[creq].s2c = <<>>
      <4>1. HasIndex'
        BY <2>2, <2>4, <2>8, FirstMessage, IndexRead
      <4> QED  BY <2>1, <2>4, <3>2, <4>1
    <3>3. CASE conns'[creq].s2c # <<>>
      <4>1. Len(conns'[creq].s2c) \in 1 .. Len(conns'[creq].s2c)
        <5>1. conns'[creq].s2c \in Seq(Message)
          BY <2>5, <2>8, HeadTailProperties
        <5> QED  BY <3>3, <5>1
      <4>2. conns'[creq].s2c[Len(conns'[creq].s2c)] = conns[creq].s2c[Len(conns[creq].s2c)]
        <5>1. PICK m : m = Len(conns'[creq].s2c)
          OBVIOUS
        <5>2. m \in 1 .. m /\ m + 1 = Len(conns[creq].s2c)
          BY <3>1, <4>1, <5>1
        <5>3. conns'[creq].s2c[m] = conns[creq].s2c[m + 1]
          BY <3>1, <5>1, <5>2, Zenon
        <5> QED  BY <5>1, <5>2, <5>3, Zenon
      <4> QED  BY <2>1, <2>4, <2>6, <2>8, <3>3, <4>2
    <3> QED  BY <3>2, <3>3
  <2>9. creq' # 0
    BY <2>2, <2>4
  <2> QED  BY <1>3, <2>5, <2>7, <2>8, <2>9 DEF Kept, ToClient
<1>4. CASE Accept \/ SReadCmd \/ SReset \/ SClose \/ ServerCrash \/ ServerRestart \/ Signing
  BY <1>4 DEF Accept, SReadCmd, SReset, SClose, ServerCrash, ServerRestart, Signing,
     TxGet, TxCmd, TxData, TxStart, TxSign, Goto
<1>5. CASE Keystores \/ DiskFails
  BY <1>5 DEF Keystores, KsExists, KsOpen, KsHeader, KpCreate, KpRefused, KpPair, KpHeader,
     DiskFails, Goto
<1> QED  BY <1>2, <1>3, <1>4, <1>5, ServerQuiet DEF ServerMoves

LEMMA SaysStays ==
  ASSUME TypeOK, FilesKept, NEW m \in Message, NEW r \in Request, NEW k, Says(m, r, k)
  PROVE  Says(m, r, k)'
<1>1. r.id \in Ids /\ r.index \in Nat /\ m.index \in Nat
  BY RequestType DEF Message
<1>2. ks[r.id].num >= 0 => ks'[r.id].num >= 0
  BY <1>1, HoldsStays
<1>3. HoldsCut(r.id, m.index, k) => HoldsCut(r.id, m.index, k)'
  BY <1>1, HoldsStays
<1>4. Holds(r.id, r.index, m.key) => Holds(r.id, r.index, m.key)'
  BY <1>1, HoldsStays
<1> QED  BY <1>2, <1>3, <1>4 DEF Says

(* What the server writes to a client that will listen is true.            *)
LEMMA WrittenTrue ==
  ASSUME IInv, SWrite, creq = sconn, ~ Warned(sconn)
  PROVE  /\ Says(Written, conns[sconn].req, sconn)
         /\ (conns[sconn].req.kind = "keypair" /\ Written.cmd = "data") =>
              IF conns[sconn].s2c = <<>> THEN HasIndex
              ELSE conns[sconn].s2c[Len(conns[sconn].s2c)].cmd = "22"
<1> DEFINE r == conns[sconn].req
<1>1. /\ spc \in Writing /\ spc \in Served /\ scmd.id = r.id /\ sconn \in 1 .. Len(conns)
      /\ scmd \in [id : Ids, index : Nat]
  BY ServerAt DEF IInv, SWrite, Writing
<1>2. /\ Written.cmd = Reply /\ Written.index = scmd.index /\ Written.key = skey
      /\ Written.tx = stx
  BY DEF Written, Msg
<1>3. /\ spc \in KsStages => r.kind = "keystore"
      /\ spc \in KpStages => r.kind = "keypair"
      /\ spc \in TxStages => r.kind = "sign" /\ scmd.index = r.index
  BY DEF IInv, Serving
<1> HIDE DEF r
<1>4. CASE spc \in {"ks_error", "kp_error", "error"}
  <2>1. Reply = "ee"
    BY <1>4 DEF Reply
  <2> QED  BY <1>2, <2>1 DEF Says
<1>5. CASE spc = "ks_ack"
  <2>1. Reply = "12" /\ r.kind = "keystore"
    BY <1>3, <1>5 DEF Reply, KsStages
  <2>2. ks[r.id].num >= 0
    BY <1>1, <1>5 DEF IInv, Files
  <2> QED  BY <1>2, <2>1, <2>2 DEF Says, r
<1>6. CASE spc \in {"kp_ack", "kp_xpub"}
  <2>1. r.kind = "keypair" /\ skey = sconn
    BY <1>3, <1>6 DEF KpStages, IInv, InMemory, SavedStages
  <2>2. CASE spc = "kp_ack"
    <3>1. Reply = "22" /\ HoldsCut(scmd.id, scmd.index, skey)
      BY <2>2 DEF Reply, IInv, InMemory
    <3> QED  BY <1>1, <1>2, <2>1, <3>1 DEF Says, r
  <2>3. CASE spc = "kp_xpub"
    <3>1. Reply = "data"
      BY <2>3 DEF Reply
    <3>2. IF conns[sconn].s2c = <<>> THEN HasIndex
          ELSE conns[sconn].s2c[Len(conns[sconn].s2c)].cmd = "22"
      BY <2>3 DEF IInv, IndexFirst
    <3> QED  BY <1>2, <2>1, <3>1, <3>2 DEF Says, r
  <2> QED  BY <1>6, <2>2, <2>3
<1>7. CASE spc \in {"tx_ack", "tx_dack", "tx_sack"}
  <2>1. Reply # "data" /\ r.kind = "sign"
    BY <1>3, <1>7 DEF Reply, TxStages
  <2> QED  BY <1>2, <2>1 DEF Says, r
<1>8. CASE spc = "tx_res"
  <2>1. r.kind = "sign" /\ scmd.index = r.index
    BY <1>3, <1>8 DEF TxStages
  <2>2. Holds(r.id, r.index, skey)
    BY <1>1, <1>8, <2>1 DEF IInv, InMemory, TxStages
  <2>3. stx = r.tx
    BY <1>8 DEF IInv, InMemory, DataStages, r
  <2> QED  BY <1>2, <2>1, <2>2, <2>3 DEF Says, r
<1> QED  BY <1>1, <1>4, <1>5, <1>6, <1>7, <1>8 DEF Writing

LEMMA AnsweringNext ==
  ASSUME IInv, [Next]_vars
  PROVE  Answering'
<1>1. Framed /\ FilesKept
  BY Frame, FilesNext DEF IInv
<1>2. CASE creq' = 0 \/ creq' > Len(conns)
  <2>1. TypeOK'
    BY TypeNext
  <2>2. creq' > Len(conns) => conns'[creq'].s2c = <<>>
    BY <1>1, <2>1 DEF Framed, TypeOK
  <2>3. creq' # 0 => Len(conns'[creq'].s2c) = 0
    BY <1>1, <1>2, <2>2 DEF Framed
  <2> QED  BY <2>3 DEF Answering
<1>3. CASE creq \in 1 .. Len(conns) /\ creq' = creq
  <2>1. PICK k \in 1 .. Len(conns) : creq = k /\ creq' = k
    BY <1>3
  <2>2. PICK r \in Request : r = conns[k].req
    BY <1>1, ConnTypes DEF Framed
  <2>3. PICK s \in Seq(Message) : s = conns[k].s2c
    BY <1>1, ConnTypes DEF Framed
  <2>4. PICK t \in Seq(Message) : t = conns'[k].s2c
    BY <1>1, ConnTypes DEF Framed
  <2> DEFINE Place(n) == (r.kind = "keypair" /\ s[n].cmd = "data") =>
                            IF n = 1 THEN HasIndex ELSE s[n - 1].cmd = "22"
  <2>5. \A n \in 1 .. Len(s) :
          (\A j \in 1 .. Len(s) : j < n => s[j].cmd # "ee") => Says(s[n], r, k) /\ Place(n)
    BY <2>1, <2>2, <2>3, <1>3 DEF IInv, Answering, Warns, TrueMessage, InOrder
  <2>6. \A m \in Message : Says(m, r, k) => Says(m, r, k)'
    BY <1>1, SaysStays DEF IInv
  <2>7. (r.kind = "keypair" /\ HasIndex /\ ~ CRecv) => HasIndex'
    BY <1>3, <2>1, <2>2, HasIndexStays DEF CReq
  <2>8. conns'[k].req = r /\ Kept(k) /\ CReq = r
    BY <1>1, <2>1, <2>2 DEF Framed, Kept, CReq
  <2>9. ASSUME NEW p \in 1 .. Len(t), \A j \in 1 .. Len(t) : j < p => t[j].cmd # "ee"
        PROVE  /\ Says(t[p], r, k)'
               /\ (r.kind = "keypair" /\ t[p].cmd = "data") =>
                    IF p = 1 THEN HasIndex' ELSE t[p - 1].cmd = "22"
    <3>1. CASE t = s
      <4>1. Says(s[p], r, k) /\ Place(p) /\ s[p] \in Message
        BY <2>5, <2>9, <3>1, ElementOfSeq
      <4>2. ~ CRecv
        <5>1. CRecv => s # <<>> /\ t = Tail(s)
          BY <2>1, <2>3, <2>4, ReadOn
        <5>2. s # <<>> => Len(Tail(s)) = Len(s) - 1 /\ Len(s) \in Nat
          BY HeadTailProperties
        <5> QED  BY <3>1, <5>1, <5>2
      <4>3. Says(t[p], r, k)'
        BY <2>6, <3>1, <4>1
      <4> QED  BY <2>7, <3>1, <4>1, <4>2, <4>3
    <3>2. CASE CRecv /\ s # <<>> /\ t = Tail(s)
      <4>1. s[1].cmd # "ee"
        BY <2>1, <2>3, <3>2, ReadOn
      <4>2. Len(t) = Len(s) - 1 /\ Len(s) \in Nat /\ \A n \in 1 .. Len(t) : t[n] = s[n + 1]
        BY <3>2, HeadTailProperties
      <4>3. p + 1 \in 1 .. Len(s) /\ t[p] = s[p + 1] /\ p \in Nat
        BY <4>2
      <4>4. ASSUME NEW j \in 1 .. Len(s), j < p + 1
            PROVE  s[j].cmd # "ee"
        <5>1. CASE j = 1
          BY <4>1, <5>1
        <5>2. CASE j # 1
          <6>1. j - 1 \in 1 .. Len(t) /\ j - 1 < p /\ t[j - 1] = s[j]
            BY <4>2, <4>4, <5>2
          <6> QED  BY <2>9, <6>1
        <5> QED  BY <5>1, <5>2
      <4>5. Says(s[p + 1], r, k) /\ Place(p + 1) /\ s[p + 1] \in Message
        BY <2>5, <4>3, <4>4, ElementOfSeq
      <4>6. Says(t[p], r, k)'
        BY <2>6, <4>3, <4>5
      <4>7. r.kind = "keypair" => HasIndex'
        BY <1>3, <2>1, <2>3, <2>8, <3>2, FirstMessage, IndexRead
      <4>8. p # 1 => t[p - 1] = s[p]
        BY <4>2, <4>3
      <4>9. (r.kind = "keypair" /\ s[p + 1].cmd = "data") => s[p].cmd = "22"
        BY <4>3, <4>5
      <4> QED  BY <4>3, <4>6, <4>7, <4>8, <4>9
    <3>3. CASE SWrite /\ k = sconn /\ ~ conns[k].rst /\ t = Append(s, Written)
      <4>1. PICK w \in Message : w = Written
        <5>1. spc \in Writing /\ spc \notin {"accept", "down"}
          BY <3>3 DEF SWrite, Writing
        <5> QED  BY <5>1, ServerAt DEF IInv
      <4>2. /\ Len(t) = Len(s) + 1 /\ Len(s) \in Nat /\ t[Len(s) + 1] = w
            /\ \A n \in 1 .. Len(s) : t[n] = s[n]
        BY <3>3, <4>1
      <4>3. ~ CRecv
        <5>1. cstep \in 1 .. 8
          BY DEF IInv, TypeOK
        <5> QED  BY <3>3, <5>1 DEF SWrite, CRecv, client
      <4>4. CASE p \in 1 .. Len(s)
        <5>1. \A j \in 1 .. Len(s) : j < p => s[j].cmd # "ee"
          BY <2>9, <4>2
        <5>2. Says(s[p], r, k) /\ Place(p) /\ s[p] \in Message
          BY <2>5, <4>4, <5>1, ElementOfSeq
        <5>3. Says(t[p], r, k)'
          BY <2>6, <4>2, <4>4, <5>2
        <5>4. p # 1 => t[p - 1] = s[p - 1]
          BY <4>2, <4>4
        <5> QED  BY <2>7, <4>2, <4>3, <4>4, <5>2, <5>3, <5>4
      <4>5. CASE p = Len(s) + 1
        <5>1. \A j \in 1 .. Len(s) : s[j].cmd # "ee"
          BY <2>9, <4>2, <4>5
        <5>2. ~ Warned(sconn)
          BY <2>1, <2>3, <3>3, <5>1 DEF Warned, Warns
        <5>3. /\ Says(w, r, k)
              /\ (r.kind = "keypair" /\ w.cmd = "data") =>
                   IF s = <<>> THEN HasIndex ELSE s[Len(s)].cmd = "22"
          BY <2>1, <2>2, <2>3, <3>3, <4>1, <5>2, WrittenTrue
        <5>4. Says(t[p], r, k)'
          BY <2>6, <4>2, <4>5, <5>3
        <5>5. CASE s = <<>>
          <6>1. p = 1
            BY <4>5, <5>5
          <6> QED  BY <2>7, <4>2, <4>3, <4>5, <5>3, <5>4, <5>5, <6>1
        <5>6. CASE s # <<>>
          <6>1. p # 1 /\ p - 1 = Len(s) /\ t[p - 1] = s[Len(s)]
            BY <4>2, <4>5, <5>6
          <6> QED  BY <4>2, <4>5, <5>3, <5>4, <5>6, <6>1
        <5> QED  BY <5>5, <5>6
      <4> QED  BY <4>2, <4>4, <4>5
    <3> QED  BY <2>1, <2>3, <2>4, <2>8, <3>1, <3>2, <3>3 DEF Kept, ToClient
  <2>10. ASSUME NEW p \in 1 .. Len(t)
         PROVE  Warns(creq, p)' \/ TrueMessage(creq, p)'
    <3>1. CASE \A j \in 1 .. Len(t) : j < p => t[j].cmd # "ee"
      <4>1. /\ Says(t[p], r, k)'
            /\ (r.kind = "keypair" /\ t[p].cmd = "data") =>
                 IF p = 1 THEN HasIndex' ELSE t[p - 1].cmd = "22"
        BY <2>9, <3>1
      <4> QED  BY <2>1, <2>4, <2>8, <4>1 DEF TrueMessage, InOrder
    <3>2. CASE ~ \A j \in 1 .. Len(t) : j < p => t[j].cmd # "ee"
      BY <2>1, <2>4, <3>2 DEF Warns
    <3> QED  BY <3>1, <3>2
  <2> QED  BY <2>1, <2>4, <2>10 DEF Answering
<1> QED
  <2>1. creq' = 0 \/ creq' > Len(conns) \/ (creq' \in 1 .. Len(conns))
    BY <1>1, TypeNext DEF Framed, TypeOK
  <2>2. creq' \in 1 .. Len(conns) => creq = creq'
    BY <1>1 DEF Framed
  <2> QED  BY <1>2, <1>3, <2>1, <2>2

(* The answer a client takes.                                              *)
Taking == [req |-> creq, kind |-> CReq.kind, id |-> CReq.id,
           index |-> IF CReq.kind = "keypair" THEN cidx ELSE CReq.index,
           tx |-> Head(conns[creq].s2c).tx, key |-> Head(conns[creq].s2c).key]

LEMMA AcceptEffect ==
  ASSUME IInv, CAccept
  PROVE  /\ creq \in 1 .. Len(conns) /\ answers' = answers \cup {Taking} /\ creq' = 0
         /\ UNCHANGED ks
         /\ Taking.req = creq /\ Right(Taking)
         /\ Taking.kind = "sign" => Taking.tx = conns[creq].req.tx
<1>1. /\ creq # 0 /\ conns[creq].s2c # <<>> /\ Fits(Head(conns[creq].s2c))
      /\ CNext.do = "recv" /\ CLast /\ creq' = 0 /\ UNCHANGED ks
      /\ answers' = answers \cup {Taking}
  BY DEF CAccept, GiveUp, Taking
<1> DEFINE m == conns[creq].s2c[1]
<1>2. /\ creq \in 1 .. Len(conns) /\ CReq \in Request /\ CReq = conns[creq].req
      /\ StepOf(CReq.kind, CLast, CNext.do, CNext.cmd)
      /\ m = Head(conns[creq].s2c)
  BY <1>1, ClientAt, ConnTypes DEF IInv, CReq
<1>3. CReq.id \in Ids /\ CReq.index \in Nat /\ CReq.kind \in Kinds /\ cidx \in Nat
  BY <1>2, RequestType DEF IInv, TypeOK
<1>4. Says(m, CReq, creq) /\ InOrder(creq, 1)
  BY <1>1, <1>2, FirstMessage DEF TrueMessage
<1>5. m.cmd = CNext.cmd
  BY <1>1, <1>2 DEF Fits
<1>6. /\ CReq.kind = "keystore" => m.cmd = "12"
      /\ CReq.kind \in {"keypair", "sign"} => m.cmd = "data"
  <2>1. /\ CReq.kind = "keystore" => CNext.cmd = "12"
        /\ CReq.kind \in {"keypair", "sign"} => CNext.cmd = "data"
    BY <1>1, <1>2 DEF StepOf
  <2> QED  BY <1>5, <2>1
<1>7. (CReq.kind = "keypair") => HasIndex
  BY <1>2, <1>6, <1>4 DEF InOrder
<1>8. /\ Taking.req = creq /\ Taking.kind = CReq.kind /\ Taking.id = CReq.id
      /\ Taking.index = (IF CReq.kind = "keypair" THEN cidx ELSE CReq.index)
      /\ Taking.tx = m.tx /\ Taking.key = m.key
  BY <1>2 DEF Taking
<1> HIDE DEF m
<1>9. CASE CReq.kind = "keystore"
  BY <1>3, <1>4, <1>6, <1>8, <1>9, <1>1, <1>2 DEF Right, Says
<1>10. CASE CReq.kind = "keypair"
  <2>1. m.key = creq /\ HoldsCut(CReq.id, cidx, creq)
    BY <1>4, <1>6, <1>7, <1>10 DEF Says, HasIndex
  <2>2. /\ Taking.kind = "keypair" /\ Taking.key = Taking.req /\ Taking.index = cidx
        /\ Taking.id = CReq.id /\ Taking.req = creq
    BY <1>8, <1>10, <2>1
  <2> QED  BY <1>1, <1>2, <1>3, <2>1, <2>2 DEF Right, Kinds
<1>11. CASE CReq.kind = "sign"
  <2>1. Holds(CReq.id, CReq.index, m.key) /\ m.tx = CReq.tx
    BY <1>4, <1>6, <1>11 DEF Says
  <2>2. /\ Taking.kind = "sign" /\ Taking.key = m.key /\ Taking.index = CReq.index
        /\ Taking.id = CReq.id /\ Taking.req = creq /\ Taking.tx = m.tx
    BY <1>8, <1>11
  <2> QED  BY <1>1, <1>2, <1>3, <2>1, <2>2 DEF Right, Kinds
<1> QED  BY <1>3, <1>9, <1>10, <1>11 DEF Kinds

LEMMA AnswersQuiet ==
  ASSUME [Next]_vars
  PROVE  UNCHANGED answers \/ CAccept
  BY DEF Next, ClientStep, ServerStep, Failing, Keystores, Signing, CReset,
     Accept, SReset, SWriteFails, KsExists, KsOpen, KsHeader, KpCreate,
     KpRefused, KpPair, KpHeader, TxGet, TxSign, ServerRestart, DiskFails, Connect,
     CSend, CRecv, vars, CRecvWrong, ClientDeath, SReadCmd, TxCmd, TxData, TxStart,
     SWrite, SClose, ServerCrash

LEMMA RightStays ==
  ASSUME TypeOK, FilesKept, NEW a, Right(a)
  PROVE  Right(a)'
<1>1. a.id \in Ids /\ a.index \in Nat
  BY DEF Right
<1>2. ks[a.id].num >= 0 => ks'[a.id].num >= 0
  BY <1>1, HoldsStays
<1>3. HoldsCut(a.id, a.index, a.key) => HoldsCut(a.id, a.index, a.key)'
  BY <1>1, HoldsStays
<1>4. Holds(a.id, a.index, a.key) => Holds(a.id, a.index, a.key)'
  BY <1>1, HoldsStays
<1> QED  BY <1>1, <1>2, <1>3, <1>4 DEF Right

LEMMA AcceptedNext ==
  ASSUME IInv, [Next]_vars
  PROVE  Accepted'
<1>1. Framed /\ FilesKept
  BY Frame, FilesNext DEF IInv
<1>2. ASSUME NEW a \in answers
      PROVE  /\ a.req \in 1 .. Len(conns') /\ a.req # creq'
             /\ Right(a)'
             /\ a.kind = "sign" => a.tx = conns'[a.req].req.tx
  <2>1. /\ a.req \in 1 .. Len(conns) /\ a.req # creq /\ Right(a)
        /\ a.kind = "sign" => a.tx = conns[a.req].req.tx
    BY DEF IInv, Accepted
  <2>2. Right(a)'
    BY <1>1, <2>1, RightStays DEF IInv
  <2> QED  BY <1>1, <2>1, <2>2 DEF Framed, Kept
<1>3. CASE UNCHANGED answers
  BY <1>2, <1>3 DEF Accepted
<1>4. CASE CAccept
  <2>1. PICK a : a = Taking
    OBVIOUS
  <2>2. /\ a.req = creq /\ creq \in 1 .. Len(conns) /\ creq' = 0 /\ Right(a)
        /\ a.kind = "sign" => a.tx = conns[creq].req.tx
        /\ answers' = answers \cup {a}
    BY <1>4, <2>1, AcceptEffect
  <2>3. Right(a)'
    BY <1>1, <2>2, RightStays DEF IInv
  <2>4. /\ a.req \in 1 .. Len(conns') /\ a.req # creq'
        /\ a.kind = "sign" => a.tx = conns'[a.req].req.tx
    BY <1>1, <2>2 DEF Framed, Kept
  <2> QED  BY <1>2, <2>2, <2>3, <2>4 DEF Accepted
<1> QED  BY <1>3, <1>4, AnswersQuiet

-----------------------------------------------------------------------------
(* The theorems.                                                           *)

LEMMA InvInit ==
  ASSUME Init
  PROVE  IInv
<1>1. TypeOK
  <2>1. <<>> \in Seq(Conn) /\ Len(<<>>) = 0
    OBVIOUS
  <2>2. spc \in Stages
    BY DEF Init, Stages
  <2>3. /\ ks \in [Ids -> [num : Int, pairs : Seq(0 .. MaxReq)]]
        /\ \A i \in Ids : ks[i].num \in {NoFile, NoHeader} \cup 0 .. Len(ks[i].pairs)
    <3>1. <<>> \in Seq(0 .. MaxReq) /\ NoFile \in Int
      BY DEF NoFile
    <3> QED  BY <3>1 DEF Init
  <2> QED  BY <2>1, <2>2, <2>3, MoscpAssumption DEF Init, TypeOK
<1>2. OneServed /\ Sent /\ Asking /\ Answering /\ Accepted
  BY DEF Init, OneServed, Sent, Asking, Answering, Accepted
<1>3. Serving /\ Files /\ InMemory /\ IndexFirst
  BY DEF Init, Serving, Files, InMemory, IndexFirst, Served, KsStages, KpStages, TxStages,
     SavedStages, DataStages
<1>4. PairsBelow
  BY DEF Init, PairsBelow, NoFile
<1> QED  BY <1>1, <1>2, <1>3, <1>4 DEF IInv

LEMMA InvNext ==
  ASSUME IInv, [Next]_vars
  PROVE  IInv'
BY TypeNext, OneServedNext, SentNext, ServingNext, AskingNext, FilesKeptNext, InMemoryNext,
   IndexFirstNext, AnsweringNext, PairsBelowNext, AcceptedNext DEF IInv

(* The invariant, by the lemmas above. *)
THEOREM Invariant == Spec => []IInv
BY InvInit, InvNext, PTL DEF Spec

(* Type correctness: the protocol and the keystore files keep their types, *)
(* and a header never counts more pairs than its file holds.               *)
THEOREM TypeCorrect == Spec => []TypeOK
<1>1. IInv => TypeOK
  BY DEF IInv
<1> QED  BY <1>1, Invariant, PTL

(* A key pair the client has an index for is in the keystore, real, at     *)
(* that index and for ever.                                                *)
THEOREM PairsKept == Spec => []PairKept
<1>1. IInv => PairKept
  <2> SUFFICES ASSUME IInv, NEW a \in answers, a.kind = "keypair",
                      ks[a.id].num <= IndexModulus
               PROVE  a.key # 0 /\ Stored(a.id, a.index) /\ ks[a.id].pairs[a.index + 1] = a.key
    BY DEF PairKept
  <2>1. a.req \in 1 .. Len(conns) /\ Right(a)
    BY DEF IInv, Accepted
  <2>2. a.key # 0
    BY <2>1 DEF Right
  <2> QED  BY <2>1, <2>2 DEF Right, HoldsCut, Holds
<1> QED  BY <1>1, Invariant, PTL

(* A signed transaction is the one asked for, signed with the pair stored  *)
(* under the id and index asked for.                                       *)
THEOREM SignedThm == Spec => []SignedAsAsked
<1>1. IInv => SignedAsAsked
  BY DEF IInv, Accepted, SignedAsAsked, Right, Holds
<1> QED  BY <1>1, Invariant, PTL

-----------------------------------------------------------------------------
(* The protocol and the keystore files implement the vault.                *)

File == [num : Int, pairs : Seq(0 .. MaxReq)]
VaultKs == [i \in Ids |-> VaultOf(ks[i])]

(* The vault of a file: its header's state and the pairs it counts.        *)
LEMMA VaultFields ==
  ASSUME NEW f \in File, f.num \in {NoFile, NoHeader} \cup 0 .. Len(f.pairs)
  PROVE  /\ f.num = NoFile => VaultOf(f) = [state |-> "absent", pairs |-> <<>>]
         /\ f.num = NoHeader => VaultOf(f) = [state |-> "broken", pairs |-> <<>>]
         /\ f.num = 0 => VaultOf(f) = [state |-> "ready", pairs |-> <<>>]
         /\ f.num >= 0 => /\ VaultOf(f) = [state |-> "ready", pairs |-> SubSeq(f.pairs, 1, f.num)]
                          /\ SubSeq(f.pairs, 1, f.num) \in Seq(0 .. MaxReq)
                          /\ Len(SubSeq(f.pairs, 1, f.num)) = f.num
                          /\ \A n \in 1 .. f.num : SubSeq(f.pairs, 1, f.num)[n] = f.pairs[n]
<1>1. f.num \in Int /\ f.pairs \in Seq(0 .. MaxReq) /\ NoFile = -2 /\ NoHeader = -1
  BY DEF File, NoFile, NoHeader
<1>2. f.num < 1 => SubSeq(f.pairs, 1, f.num) = <<>>
  BY <1>1, SubSeqEmpty
<1>3. f.num = NoFile => VaultOf(f) = [state |-> "absent", pairs |-> <<>>]
  BY <1>1, <1>2 DEF VaultOf
<1>4. f.num = NoHeader => VaultOf(f) = [state |-> "broken", pairs |-> <<>>]
  BY <1>1, <1>2 DEF VaultOf
<1>5. f.num >= 0 => VaultOf(f) = [state |-> "ready", pairs |-> SubSeq(f.pairs, 1, f.num)]
  <2>1. f.num >= 0 => ~ (f.num = NoFile) /\ ~ (f.num = NoHeader)
    BY <1>1
  <2> QED  BY <2>1, Zenon DEF VaultOf
<1>6. ASSUME f.num >= 0
      PROVE  /\ SubSeq(f.pairs, 1, f.num) \in Seq(0 .. MaxReq)
             /\ Len(SubSeq(f.pairs, 1, f.num)) = f.num
             /\ \A n \in 1 .. f.num : SubSeq(f.pairs, 1, f.num)[n] = f.pairs[n]
  <2>1. ASSUME NEW n \in 1 .. f.num
        PROVE  f.pairs[n] \in 0 .. MaxReq
    <3>1. n \in 1 .. Len(f.pairs)
      BY <1>1
    <3> QED  BY <1>1, <3>1, ElementOfSeq
  <2> QED  BY <1>1, <1>6, <2>1, SubSeqProperties
<1> QED  BY <1>1, <1>2, <1>3, <1>4, <1>5, <1>6

LEMMA FileType ==
  ASSUME TypeOK, NEW i \in Ids
  PROVE  ks[i] \in File /\ ks[i].num \in {NoFile, NoHeader} \cup 0 .. Len(ks[i].pairs)
BY DEF TypeOK, File

(* A pair behind the header is not yet in the vault.                       *)
LEMMA PairUncounted ==
  ASSUME NEW f \in File, f.num \in 0 .. Len(f.pairs), NEW k \in 0 .. MaxReq
  PROVE  VaultOf(PutPair(f, k)) = VaultOf(f)
<1> DEFINE g == PutPair(f, k)
<1>1. /\ g \in File /\ g.num = f.num /\ Len(g.pairs) = f.num + 1
      /\ \A n \in 1 .. f.num : g.pairs[n] = f.pairs[n]
  BY PairPut DEF File
<1> HIDE DEF g
<1>2. /\ VaultOf(g) = [state |-> "ready", pairs |-> SubSeq(g.pairs, 1, f.num)]
      /\ SubSeq(g.pairs, 1, f.num) \in Seq(0 .. MaxReq)
      /\ Len(SubSeq(g.pairs, 1, f.num)) = f.num
      /\ \A n \in 1 .. f.num : SubSeq(g.pairs, 1, f.num)[n] = g.pairs[n]
  BY <1>1, VaultFields
<1>3. /\ VaultOf(f) = [state |-> "ready", pairs |-> SubSeq(f.pairs, 1, f.num)]
      /\ SubSeq(f.pairs, 1, f.num) \in Seq(0 .. MaxReq)
      /\ Len(SubSeq(f.pairs, 1, f.num)) = f.num
      /\ \A n \in 1 .. f.num : SubSeq(f.pairs, 1, f.num)[n] = f.pairs[n]
  BY VaultFields
<1>4. SubSeq(g.pairs, 1, f.num) = SubSeq(f.pairs, 1, f.num)
  BY <1>1, <1>2, <1>3, SeqEqual
<1> QED  BY <1>2, <1>3, <1>4 DEF g

(* The header that counts it puts it there.                                *)
LEMMA PairCounted ==
  ASSUME NEW f \in File, f.num >= 0, Len(f.pairs) = f.num + 1
  PROVE  VaultOf([f EXCEPT !.num = f.num + 1]) =
           [state |-> "ready",
            pairs |-> Append(SubSeq(f.pairs, 1, f.num), f.pairs[f.num + 1])]
<1>1. f.num \in Nat /\ f.pairs \in Seq(0 .. MaxReq)
  BY DEF File
<1> DEFINE g == [f EXCEPT !.num = f.num + 1]
<1>2. g \in File /\ g.num = f.num + 1 /\ g.pairs = f.pairs
  BY <1>1 DEF File
<1> HIDE DEF g
<1>3. VaultOf(g) = [state |-> "ready", pairs |-> SubSeq(f.pairs, 1, f.num + 1)]
  BY <1>1, <1>2, VaultFields
<1>4. SubSeq(f.pairs, 1, f.num + 1) = SubSeq(f.pairs, 1, f.num) \o <<f.pairs[f.num + 1]>>
  <2>1. 1 \in 1 .. Len(f.pairs) /\ f.num + 1 \in 1 .. Len(f.pairs) /\ (f.num + 1) - 1 = f.num
    BY <1>1
  <2> QED  BY <1>1, <2>1, SubSeqRecursiveSecond
<1>5. SubSeq(f.pairs, 1, f.num) \in Seq(0 .. MaxReq) /\ f.pairs[f.num + 1] \in 0 .. MaxReq
  <2>1. f.num \in 0 .. Len(f.pairs) /\ f.num + 1 \in 1 .. Len(f.pairs)
    BY <1>1
  <2> QED  BY <1>1, <2>1, VaultFields, ElementOfSeq
<1> QED  BY <1>3, <1>4, <1>5, AppendIsConcat DEF g

(* One file changes, and its vault with it.                                *)
LEMMA OneFile ==
  ASSUME TypeOK, NEW i \in Ids, NEW g, NEW v,
         ks' = [ks EXCEPT ![i] = g], VaultOf(g) = v
  PROVE  VaultKs' = [VaultKs EXCEPT ![i] = v]
<1>1. ks' \in [Ids -> {ks[j] : j \in Ids} \cup {g}] /\ \A j \in Ids : ks'[j] = IF j = i THEN g ELSE ks[j]
  BY DEF TypeOK
<1> QED  BY <1>1 DEF VaultKs

(* The protocol and the keystore files implement the vault, for as many    *)
(* requests as an uint16_t has values: each adds at most one pair.         *)
THEOREM VaultImplemented == MaxReq <= IndexModulus => (Spec => ImplementsVault)
<1> SUFFICES ASSUME MaxReq <= IndexModulus
             PROVE  Spec => ImplementsVault
  OBVIOUS
<1>1. Init => Vault!VaultInit
  <2> SUFFICES ASSUME Init
               PROVE  VaultKs = [i \in Ids |-> [state |-> "absent", pairs |-> <<>>]] /\ answers = {}
    BY DEF Vault!VaultInit, VaultKs
  <2>1. \A i \in Ids : VaultOf(ks[i]) = [state |-> "absent", pairs |-> <<>>]
    BY InvInit, FileType, VaultFields DEF IInv, Init
  <2> QED  BY <2>1 DEF Init, VaultKs
<1>2. ASSUME IInv, [Next]_vars
      PROVE  [Vault!VaultStep]_<<VaultKs, answers>>
  <2>1. ASSUME NEW i \in Ids
        PROVE  /\ ks[i] \in File /\ ks[i].num \in {NoFile, NoHeader} \cup 0 .. Len(ks[i].pairs)
               /\ ks[i].num <= IndexModulus
    <3>1. ks[i] \in File /\ ks[i].num \in {NoFile, NoHeader} \cup 0 .. Len(ks[i].pairs)
      BY <1>2, FileType DEF IInv
    <3>2. sconn \in 0 .. Len(conns) /\ Len(conns) \in Nat /\ Len(conns) <= MaxReq
      BY <1>2 DEF IInv, TypeOK
    <3>3. ks[i].num <= sconn /\ ks[i].num \in Int
      BY <1>2, <3>1 DEF IInv, PairsBelow, File
    <3> QED  BY <3>1, <3>2, <3>3, MoscpAssumption
  <2>2. CASE CAccept
    <3> DEFINE a == Taking
    <3>1. /\ answers' = answers \cup {a} /\ UNCHANGED ks /\ a.req = creq /\ Right(a)
      BY <1>2, <2>2, AcceptEffect
    <3> HIDE DEF a
    <3>2. a \notin answers
      BY <1>2, <3>1 DEF IInv, Accepted
    <3>3. a.id \in Ids /\ a.index \in Nat /\ ks[a.id].num <= IndexModulus
      BY <2>1, <3>1 DEF Right
    <3>4. /\ a.kind \in {"keypair", "sign"} => Holds(a.id, a.index, a.key)
          /\ ks[a.id].num >= 0
      <4>1. a.kind \in {"keypair", "sign"} => Holds(a.id, a.index, a.key)
        BY <3>1, <3>3 DEF Right, HoldsCut
      <4>2. ks[a.id].num \in Int
        BY <2>1, <3>3 DEF File
      <4>3. a.kind = "keystore" \/ a.kind \in {"keypair", "sign"}
        BY <3>1 DEF Right, Kinds
      <4> QED  BY <3>1, <3>3, <4>1, <4>2, <4>3 DEF Right, Holds, Stored
    <3>5. /\ VaultKs[a.id].state = "ready" /\ Len(VaultKs[a.id].pairs) = ks[a.id].num
          /\ \A n \in 1 .. ks[a.id].num : VaultKs[a.id].pairs[n] = ks[a.id].pairs[n]
      BY <2>1, <3>3, <3>4, VaultFields DEF VaultKs
    <3>6. a.kind \in {"keypair", "sign"} =>
            a.index < Len(VaultKs[a.id].pairs) /\ VaultKs[a.id].pairs[a.index + 1] = a.key
      <4> SUFFICES ASSUME a.kind \in {"keypair", "sign"}
                   PROVE  /\ a.index < Len(VaultKs[a.id].pairs)
                          /\ VaultKs[a.id].pairs[a.index + 1] = a.key
        OBVIOUS
      <4>1. ks[a.id].num > a.index /\ ks[a.id].pairs[a.index + 1] = a.key
        BY <3>4 DEF Holds, Stored
      <4>2. ks[a.id].num \in Int
        BY <2>1, <3>3 DEF File
      <4>3. a.index + 1 \in 1 .. ks[a.id].num
        BY <3>3, <4>1, <4>2
      <4> QED  BY <3>5, <4>1, <4>3
    <3>7. a.kind = "keypair" => a.key = creq /\ creq # 0
      BY <1>2, <2>2, <3>1, AcceptEffect DEF Right
    <3>8. \A b \in answers : b.kind = "keypair" => b.key # creq
      BY <1>2 DEF IInv, Accepted, Right
    <3>9. Vault!True(a)
      BY <3>3, <3>5, <3>6, <3>7 DEF Vault!True, VaultKs
    <3>10. Vault!Accept(a)
      BY <3>1, <3>7, <3>8, <3>9 DEF Vault!Accept, VaultKs
    <3> QED  BY <3>1, <3>2, <3>10 DEF Vault!VaultStep
  <2>3. CASE KsOpen
    <3> DEFINE i == scmd.id
    <3>1. /\ i \in Ids /\ ks[i].num = NoFile /\ UNCHANGED answers
          /\ ks' = [ks EXCEPT ![i] = [ks[i] EXCEPT !.num = NoHeader]]
      BY <1>2, <2>3, ServerAt DEF IInv, TypeOK, KsOpen, Served, KsStages
    <3> HIDE DEF i
    <3>2. [ks[i] EXCEPT !.num = NoHeader] \in File
      BY <2>1, <3>1 DEF File, NoHeader
    <3>3. VaultOf([ks[i] EXCEPT !.num = NoHeader]) = [state |-> "broken", pairs |-> <<>>]
      BY <2>1, <3>1, <3>2, VaultFields DEF File
    <3>4. VaultKs[i] = [state |-> "absent", pairs |-> <<>>]
      BY <2>1, <3>1, VaultFields DEF VaultKs
    <3>5. VaultKs' = [VaultKs EXCEPT ![i] = [state |-> "broken", pairs |-> <<>>]]
      BY <1>2, <3>1, <3>3, OneFile DEF IInv
    <3>6. VaultKs' = [VaultKs EXCEPT ![i].state = "broken"]
      <4>1. [VaultKs[i] EXCEPT !.state = "broken"] = [state |-> "broken", pairs |-> <<>>]
        BY <3>4
      <4>2. [VaultKs EXCEPT ![i].state = "broken"] =
              [VaultKs EXCEPT ![i] = [VaultKs[i] EXCEPT !.state = "broken"]]
        OBVIOUS
      <4> QED  BY <3>5, <4>1, <4>2
    <3>7. Vault!Open(i)
      BY <3>1, <3>4, <3>6 DEF Vault!Open, VaultKs
    <3> QED  BY <3>1, <3>7 DEF Vault!VaultStep
  <2>4. CASE KsHeader
    <3> DEFINE i == scmd.id
    <3>1. /\ i \in Ids /\ ks[i].num = NoHeader /\ UNCHANGED answers
          /\ ks' = [ks EXCEPT ![i] = [ks[i] EXCEPT !.num = 0]]
      BY <1>2, <2>4, ServerAt DEF IInv, TypeOK, KsHeader, Served, KsStages, Files
    <3> HIDE DEF i
    <3>2. [ks[i] EXCEPT !.num = 0] \in File /\ [ks[i] EXCEPT !.num = 0].num \in 0 .. Len([ks[i] EXCEPT !.num = 0].pairs)
      BY <2>1, <3>1 DEF File
    <3>3. VaultOf([ks[i] EXCEPT !.num = 0]) = [state |-> "ready", pairs |-> <<>>]
      BY <2>1, <3>1, <3>2, VaultFields DEF File
    <3>4. VaultKs[i] = [state |-> "broken", pairs |-> <<>>]
      BY <2>1, <3>1, VaultFields DEF VaultKs
    <3>5. VaultKs' = [VaultKs EXCEPT ![i] = [state |-> "ready", pairs |-> <<>>]]
      BY <1>2, <3>1, <3>3, OneFile DEF IInv
    <3>6. VaultKs' = [VaultKs EXCEPT ![i].state = "ready"]
      <4>1. [VaultKs[i] EXCEPT !.state = "ready"] = [state |-> "ready", pairs |-> <<>>]
        BY <3>4
      <4>2. [VaultKs EXCEPT ![i].state = "ready"] =
              [VaultKs EXCEPT ![i] = [VaultKs[i] EXCEPT !.state = "ready"]]
        OBVIOUS
      <4> QED  BY <3>5, <4>1, <4>2
    <3>7. Vault!Format(i)
      BY <3>1, <3>4, <3>6 DEF Vault!Format, VaultKs
    <3> QED  BY <3>1, <3>7 DEF Vault!VaultStep
  <2>5. CASE KpPair
    <3> DEFINE i == scmd.id
    <3>1. /\ i \in Ids /\ ks[i].num >= 0 /\ UNCHANGED answers /\ skey \in 0 .. MaxReq
          /\ ks' = [ks EXCEPT ![i] = PutPair(ks[i], skey)]
      BY <1>2, <2>5, ServerAt DEF IInv, TypeOK, KpPair, Served, KpStages
    <3> HIDE DEF i
    <3>2. ks[i].num \in 0 .. Len(ks[i].pairs)
      BY <2>1, <3>1 DEF NoFile, NoHeader
    <3>3. VaultOf(PutPair(ks[i], skey)) = VaultOf(ks[i])
      BY <2>1, <3>1, <3>2, PairUncounted
    <3>4. VaultKs' = [VaultKs EXCEPT ![i] = VaultOf(ks[i])]
      BY <1>2, <3>1, <3>3, OneFile DEF IInv
    <3>5. VaultKs' = VaultKs
      BY <3>1, <3>4 DEF VaultKs
    <3> QED  BY <3>1, <3>5
  <2>6. CASE KpHeader
    <3> DEFINE i == scmd.id
               f == ks[i]
    <3>1. /\ i \in Ids /\ f.num >= 0 /\ UNCHANGED answers /\ skey \in 0 .. MaxReq
          /\ ks' = [ks EXCEPT ![i] = [f EXCEPT !.num = f.num + 1]]
          /\ Len(f.pairs) = f.num + 1 /\ f.pairs[f.num + 1] = skey
      BY <1>2, <2>6, ServerAt DEF IInv, TypeOK, KpHeader, Served, KpStages, Files
    <3>2. /\ skey # 0 => skey = sconn
          /\ \A j \in Ids : \A n \in 1 .. ks[j].num : ks[j].pairs[n] < sconn
      BY <1>2, <2>6 DEF IInv, InMemory, SavedStages, PairsBelow, KpHeader
    <3>3. f \in File
      BY <2>1, <3>1
    <3> HIDE DEF i, f
    <3>4. VaultOf([f EXCEPT !.num = f.num + 1]) =
            [state |-> "ready", pairs |-> Append(SubSeq(f.pairs, 1, f.num), skey)]
      BY <3>1, <3>3, PairCounted
    <3>5. VaultKs[i] = [state |-> "ready", pairs |-> SubSeq(f.pairs, 1, f.num)]
      BY <2>1, <3>1, VaultFields DEF VaultKs, f
    <3>6. VaultKs' = [VaultKs EXCEPT ![i] =
                        [state |-> "ready", pairs |-> Append(SubSeq(f.pairs, 1, f.num), skey)]]
      BY <1>2, <3>1, <3>4, OneFile DEF IInv
    <3>7. VaultKs' = [VaultKs EXCEPT ![i].pairs = Append(@, skey)]
      <4> DEFINE old == SubSeq(f.pairs, 1, f.num)
      <4>a. VaultKs[i] = [state |-> "ready", pairs |-> old]
        BY <3>5
      <4> HIDE DEF old
      <4>1. [VaultKs[i] EXCEPT !.pairs = Append(VaultKs[i].pairs, skey)] =
              [state |-> "ready", pairs |-> Append(old, skey)]
        BY <4>a
      <4>2. [VaultKs EXCEPT ![i].pairs = Append(@, skey)] =
              [VaultKs EXCEPT ![i] = [VaultKs[i] EXCEPT !.pairs = Append(VaultKs[i].pairs, skey)]]
        OBVIOUS
      <4> QED  BY <3>6, <4>1, <4>2 DEF old
    <3>8. ASSUME skey # 0, NEW j \in Ids, NEW n \in 1 .. Len(VaultKs[j].pairs)
          PROVE  VaultKs[j].pairs[n] # skey
      <4>1. CASE ks[j].num < 0
        <5>1. VaultKs[j].pairs = <<>>
          BY <2>1, <4>1, VaultFields DEF VaultKs, NoFile, NoHeader
        <5> QED  BY <3>8, <5>1
      <4>2. CASE ~ (ks[j].num < 0)
        <5>1. ks[j].num >= 0
          BY <2>1, <4>2 DEF File
        <5>2. VaultKs[j].pairs[n] = ks[j].pairs[n] /\ n \in 1 .. ks[j].num
          BY <2>1, <3>8, <5>1, VaultFields DEF VaultKs
        <5>3. skey = sconn /\ ks[j].pairs[n] < sconn /\ sconn \in Nat
          BY <1>2, <3>2, <3>8, <5>2 DEF IInv, TypeOK
        <5>4. ks[j].pairs[n] \in Nat
          <6>1. n \in 1 .. Len(ks[j].pairs) /\ ks[j].pairs \in Seq(0 .. MaxReq)
            BY <2>1, <5>2 DEF File, NoFile, NoHeader
          <6>2. ks[j].pairs[n] \in 0 .. MaxReq
            BY <6>1, ElementOfSeq
          <6> QED  BY <6>2
        <5> QED  BY <5>2, <5>3, <5>4
      <4> QED  BY <4>1, <4>2
    <3>9. Vault!AddPair(i, skey)
      BY <3>1, <3>5, <3>7, <3>8 DEF Vault!AddPair, VaultKs
    <3> QED  BY <3>1, <3>9 DEF Vault!VaultStep
  <2>7. CASE UNCHANGED ks /\ UNCHANGED answers
    BY <2>7 DEF VaultKs
  <2> QED  BY <1>2, <2>2, <2>3, <2>4, <2>5, <2>6, <2>7, KsQuiet, AnswersQuiet
           DEF KsOpen, KsHeader, KpPair, KpHeader, CAccept
<1>3. VaultKs = [i \in Ids |-> VaultOf(ks[i])]
  BY DEF VaultKs
<1> QED
  BY <1>1, <1>2, <1>3, Invariant, PTL DEF Spec, ImplementsVault, Vault!VaultSpec, VaultKs

-----------------------------------------------------------------------------
(* Whose turn it is: as long as the client lives the server never waits    *)
(* for a client that waits or has gone, and as long as the server lives    *)
(* the client never waits on a connection the server has closed.           *)

(* The stages from which the server does not come back to its client.      *)
Past == {"close", "error", "ks_ack", "kp_save", "kp_header", "kp_ack", "kp_xpub"}

(* The stages before anything but an error is written to the client.       *)
Early == {"ks_open", "ks_header", "ks_error", "ks_ack", "kp_create", "kp_error",
          "kp_save", "kp_header", "kp_ack", "tx_get", "tx_ack"}

(* There is an error on its way to the client of connection c. *)
Refused(c) == \E j \in 1 .. Len(c.s2c) : c.s2c[j].cmd = "ee"

(* The client of connection c, at step n of its script, has said nothing,  *)
(* or the first thing it says.                                             *)
Opening(n, c) ==
  /\ Len(c.s2c) = 0
  /\ \/ n = 1 /\ Len(c.c2s) = 0
     \/ n = 2 /\ Len(c.c2s) = 1 /\ c.c2s[1].cmd = Script(c.req.kind)[1].cmd

(* The server stands at one of the client's steps from .. to: the client   *)
(* is ahead of it by what is on its way to the server.                     *)
Behind(n, c, from, to) ==
  Len(c.s2c) = 0 /\ n \in from .. to /\ Len(c.c2s) = n - from

(* The message the client waits for at step n is on its way.               *)
Awaited(n, c, at, cmd) ==
  /\ n = at /\ Len(c.c2s) = 0 /\ Len(c.s2c) = 1
  /\ c.s2c[1].cmd = cmd /\ c.s2c[1].id = c.req.id /\ c.s2c[1].index = c.req.index

(* All the client still waits for is on its way. *)
LastReads(kind) == IF kind = "sign" THEN 7 ELSE 2

Complete(n, c) ==
  /\ n \in LastReads(c.req.kind) .. Len(Script(c.req.kind))
  /\ Len(c.s2c) = Len(Script(c.req.kind)) + 1 - n

Settled(n, c) == Refused(c) \/ Complete(n, c)

(* Where the client of the served connection is, by the server's stage.    *)
Turn(stage, n, c) ==
  \/ stage \in Past /\ Refused(c)
  \/ stage = "error"
  \/ stage = "close" /\ Complete(n, c)
  \/ stage = "read" /\ Opening(n, c)
  \/ stage \in Early /\ Behind(n, c, 2, 2)
  \/ stage = "kp_xpub" /\ n \in 2 .. 3 /\ Len(c.s2c) = 3 - n
  \/ stage = "tx_cmd" /\ (Awaited(n, c, 2, "32") \/ Behind(n, c, 3, 5))
  \/ stage = "tx_data" /\ Behind(n, c, 4, 5)
  \/ stage = "tx_dack" /\ Behind(n, c, 5, 5)
  \/ stage = "tx_start" /\ (Awaited(n, c, 5, "42") \/ Behind(n, c, 6, 7))
  \/ stage \in {"tx_sign", "tx_sack"} /\ Behind(n, c, 7, 7)
  \/ stage = "tx_res" /\ (Awaited(n, c, 7, "52") \/ Behind(n, c, 8, 8))

Open == spc \notin Idle => conns[sconn].sopen

(* The connection of the request in progress: not yet accepted, served,    *)
(* closed by the server.                                                   *)
Talking ==
  (creq # 0 /\ ~ conns[creq].rst) =>
    /\ creq > sconn => Opening(cstep, conns[creq])
    /\ (creq = sconn /\ spc \notin Idle) => Turn(spc, cstep, conns[creq])
    /\ ~ conns[creq].sopen => Settled(cstep, conns[creq]) \/ crashes > 0

(* While the client lives: it leaves no connection that is not accepted,   *)
(* and no served one before the server is done with it.                    *)
Attended ==
  deaths = 0 =>
    /\ \A k \in 1 .. Len(conns) : k > sconn => conns[k].rst \/ k = creq
    /\ (spc \notin Idle /\ ~ conns[sconn].rst /\ creq # sconn) => spc \in Past

Counts == deaths \in Nat /\ crashes \in Nat

TurnInv == IInv /\ Counts /\ Open /\ Talking /\ Attended

(* What the invariant says of the kind of a request at a stage. *)
KindAt(stage, kind) ==
  /\ stage \in KsStages => kind = "keystore"
  /\ stage \in KpStages => kind = "keypair"
  /\ stage \in TxStages => kind = "sign"

-----------------------------------------------------------------------------
(* The scripts, step by step.                                              *)

LEMMA Steps ==
  ASSUME NEW kind \in Kinds, NEW n \in 1 .. 8, n <= Len(Script(kind))
  PROVE  /\ kind = "keystore" => Len(Script(kind)) = 2
         /\ kind = "keypair" => Len(Script(kind)) = 3
         /\ kind = "sign" => Len(Script(kind)) = 8
         /\ Script(kind)[n].do = "send" <=> (n = 1 \/ (kind = "sign" /\ n \in {3, 4, 6}))
         /\ Script(kind)[n].do \in {"send", "recv"}
         /\ (kind = "sign" /\ n = 2) => Script(kind)[n].cmd = "32"
         /\ (kind = "sign" /\ n = 5) => Script(kind)[n].cmd = "42"
         /\ (kind = "sign" /\ n = 7) => Script(kind)[n].cmd = "52"
<1>1. CASE kind = "keystore"
  <2>1. Len(Script(kind)) = 2
    BY <1>1, KeystoreScript
  <2>2. n = 1 \/ n = 2
    BY <2>1
  <2> QED  BY <1>1, <2>1, <2>2, KeystoreScript DEF At
<1>2. CASE kind = "keypair"
  <2>1. Len(Script(kind)) = 3
    BY <1>2, KeypairScript
  <2>2. n = 1 \/ n = 2 \/ n = 3
    BY <2>1
  <2> QED  BY <1>2, <2>1, <2>2, KeypairScript DEF At
<1>3. CASE kind = "sign"
  <2>1. Len(Script(kind)) = 8
    BY <1>3, SignScript
  <2>2. n = 1 \/ n = 2 \/ n = 3 \/ n = 4 \/ n = 5 \/ n = 6 \/ n = 7 \/ n = 8
    OBVIOUS
  <2>3. /\ n \in {1, 3, 4, 6} => Script(kind)[n].do = "send"
        /\ n \in {2, 5, 7, 8} => Script(kind)[n].do = "recv"
    BY <1>3, <2>2, SignScript DEF At
  <2>4. /\ n = 2 => Script(kind)[n].cmd = "32"
        /\ n = 5 => Script(kind)[n].cmd = "42"
        /\ n = 7 => Script(kind)[n].cmd = "52"
    BY <1>3, SignScript DEF At
  <2> QED  BY <1>3, <2>1, <2>2, <2>3, <2>4
<1> QED  BY <1>1, <1>2, <1>3 DEF Kinds

-----------------------------------------------------------------------------
(* What a message more or less makes of a turn.                            *)

LEMMA SendOpening ==
  ASSUME NEW n \in 1 .. 8, NEW c \in Conn, NEW d, NEW m \in Message,
         Opening(n, c), c.req.kind \in Kinds, n <= Len(Script(c.req.kind)),
         Script(c.req.kind)[n].do = "send", m.cmd = Script(c.req.kind)[n].cmd,
         d.req = c.req, d.s2c = c.s2c, d.c2s = Append(c.c2s, m)
  PROVE  Opening(n + 1, d)
<1>1. c.c2s \in Seq(Message)
  BY ConnTypes
<1>2. n = 1 /\ Len(c.c2s) = 0
  BY Steps DEF Opening
<1>3. Len(d.c2s) = 1 /\ d.c2s[1] = m
  BY <1>1, <1>2
<1> QED  BY <1>2, <1>3 DEF Opening

LEMMA SendTurn ==
  ASSUME NEW stage, NEW n \in 1 .. 8, NEW c \in Conn, NEW d, NEW m \in Message,
         Turn(stage, n, c), KindAt(stage, c.req.kind), c.req.kind \in Kinds,
         n <= Len(Script(c.req.kind)), Script(c.req.kind)[n].do = "send",
         m.cmd = Script(c.req.kind)[n].cmd,
         d.req = c.req, d.s2c = c.s2c, d.c2s = Append(c.c2s, m)
  PROVE  Turn(stage, n + 1, d)
<1>1. c.c2s \in Seq(Message)
  BY ConnTypes
<1>2. Len(d.c2s) = Len(c.c2s) + 1 /\ Len(c.c2s) \in Nat /\ Len(d.s2c) = Len(c.s2c)
  BY <1>1
<1>3. n = 1 \/ (c.req.kind = "sign" /\ n \in {3, 4, 6})
  BY Steps
<1>4. CASE stage \in Past /\ Refused(c)
  BY <1>4 DEF Turn, Refused
<1>5. CASE stage = "error"
  BY <1>5 DEF Turn
<1>6. CASE stage = "read" /\ Opening(n, c)
  <2>1. Opening(n + 1, d)
    BY <1>6, SendOpening
  <2> QED  BY <1>6, <2>1 DEF Turn
<1>7. CASE stage = "tx_cmd" /\ Behind(n, c, 3, 5)
  <2>1. Behind(n + 1, d, 3, 5)
    BY <1>2, <1>3, <1>7 DEF Behind
  <2> QED  BY <1>7, <2>1 DEF Turn
<1>8. CASE stage = "tx_data" /\ Behind(n, c, 4, 5)
  <2>1. Behind(n + 1, d, 4, 5)
    BY <1>2, <1>3, <1>8 DEF Behind
  <2> QED  BY <1>8, <2>1 DEF Turn
<1>9. CASE stage = "tx_start" /\ Behind(n, c, 6, 7)
  <2>1. Behind(n + 1, d, 6, 7)
    BY <1>2, <1>3, <1>9 DEF Behind
  <2> QED  BY <1>9, <2>1 DEF Turn
<1>10. ~ (stage = "close" /\ Complete(n, c))
  BY <1>3 DEF Complete, LastReads
<1>11. ~ (stage \in Early /\ Behind(n, c, 2, 2)) /\ ~ (stage = "tx_dack" /\ Behind(n, c, 5, 5))
  BY <1>3 DEF Behind
<1>12. ~ (stage = "kp_xpub" /\ n \in 2 .. 3)
  BY <1>3 DEF KindAt, KpStages
<1>13. /\ ~ (stage = "tx_cmd" /\ Awaited(n, c, 2, "32"))
       /\ ~ (stage = "tx_start" /\ Awaited(n, c, 5, "42"))
       /\ ~ (stage = "tx_res" /\ (Awaited(n, c, 7, "52") \/ Behind(n, c, 8, 8)))
       /\ ~ (stage \in {"tx_sign", "tx_sack"} /\ Behind(n, c, 7, 7))
  BY <1>3 DEF Awaited, Behind
<1> QED  BY <1>4, <1>5, <1>6, <1>7, <1>8, <1>9, <1>10, <1>11, <1>12, <1>13 DEF Turn

(* The client reads a message that is no error, and it is not its last.    *)
LEMMA RecvTurn ==
  ASSUME NEW stage, NEW n \in 1 .. 8, NEW c \in Conn, NEW d,
         Turn(stage, n, c), KindAt(stage, c.req.kind), c.req.kind \in Kinds,
         n < Len(Script(c.req.kind)), c.s2c # <<>>, c.s2c[1].cmd # "ee",
         d.req = c.req, d.c2s = c.c2s, d.s2c = Tail(c.s2c)
  PROVE  Turn(stage, n + 1, d)
<1>1. c.s2c \in Seq(Message)
  BY ConnTypes
<1>2. /\ Len(d.s2c) = Len(c.s2c) - 1 /\ Len(c.s2c) \in Nat \ {0} /\ d.c2s = c.c2s
      /\ \A j \in 1 .. Len(d.s2c) : d.s2c[j] = c.s2c[j + 1]
  BY <1>1, HeadTailProperties
<1>3. Len(Script(c.req.kind)) \in 1 .. 8
  <2>1. Len(Script(c.req.kind)) \in Nat
    BY Steps DEF Kinds
  <2>2. n <= Len(Script(c.req.kind))
    BY <2>1
  <2> QED  BY <2>2, ScriptFacts
<1>4. CASE stage \in Past /\ Refused(c)
  <2>1. PICK j \in 1 .. Len(c.s2c) : c.s2c[j].cmd = "ee"
    BY <1>4 DEF Refused
  <2>2. j # 1
    BY <2>1
  <2>3. PICK i \in 1 .. Len(d.s2c) : j = i + 1
    <3>1. PICK k, l : k = Len(c.s2c) /\ l = Len(d.s2c)
      OBVIOUS
    <3>2. k \in Nat /\ l = k - 1
      BY <1>2, <3>1
    <3>3. j \in 1 .. k
      BY <2>1, <3>1
    <3>4. j - 1 \in 1 .. l /\ j = (j - 1) + 1
      BY <2>2, <3>2, <3>3
    <3> QED  BY <3>1, <3>4
  <2>4. d.s2c[i].cmd = "ee"
    BY <1>2, <2>1, <2>3
  <2> QED  BY <1>4, <2>4 DEF Turn, Refused
<1>5. CASE stage = "error"
  BY <1>5 DEF Turn
<1>6. CASE stage = "close" /\ Complete(n, c)
  <2>1. Complete(n + 1, d)
    <3>1. PICK l, k : l = Len(Script(c.req.kind)) /\ k = LastReads(c.req.kind)
      OBVIOUS
    <3>2. k \in Nat
      BY <3>1 DEF LastReads
    <3>3. n \in k .. l /\ Len(c.s2c) = l + 1 - n /\ l \in 1 .. 8 /\ n < l
      BY <1>3, <1>6, <3>1 DEF Complete
    <3>4. n + 1 \in k .. l /\ Len(d.s2c) = l + 1 - (n + 1)
      BY <1>2, <3>2, <3>3
    <3> QED  BY <3>1, <3>4 DEF Complete
  <2> QED  BY <1>6, <2>1 DEF Turn
<1>7. CASE stage = "kp_xpub" /\ n \in 2 .. 3 /\ Len(c.s2c) = 3 - n
  BY <1>2, <1>7 DEF Turn
<1>8. CASE stage = "tx_cmd" /\ Awaited(n, c, 2, "32")
  <2>1. Behind(n + 1, d, 3, 5)
    BY <1>2, <1>8 DEF Awaited, Behind
  <2> QED  BY <1>8, <2>1 DEF Turn
<1>9. CASE stage = "tx_start" /\ Awaited(n, c, 5, "42")
  <2>1. Behind(n + 1, d, 6, 7)
    BY <1>2, <1>9 DEF Awaited, Behind
  <2> QED  BY <1>9, <2>1 DEF Turn
<1>10. CASE stage = "tx_res" /\ Awaited(n, c, 7, "52")
  <2>1. Behind(n + 1, d, 8, 8)
    BY <1>2, <1>10 DEF Awaited, Behind
  <2> QED  BY <1>10, <2>1 DEF Turn
<1>11. Len(c.s2c) # 0
  BY <1>2
<1> QED
  BY <1>4, <1>5, <1>6, <1>7, <1>8, <1>9, <1>10, <1>11 DEF Turn, Behind, Opening

(* The server reads a message of its client.                               *)
LEMMA TakeTurn ==
  ASSUME NEW n \in 1 .. 8, NEW c \in Conn, NEW d, c.c2s # <<>>,
         d.req = c.req, d.s2c = c.s2c, d.c2s = Tail(c.c2s)
  PROVE  /\ (Opening(n, c) /\ c.req.kind \in Kinds) =>
              /\ Behind(n, d, 2, 2)
              /\ c.req.kind = "keystore" => c.c2s[1].cmd = "11"
              /\ c.req.kind = "keypair" => c.c2s[1].cmd = "21"
              /\ c.req.kind = "sign" => c.c2s[1].cmd = "31"
         /\ Turn("tx_cmd", n, c) => Turn("tx_data", n, d)
         /\ Turn("tx_data", n, c) => Turn("tx_dack", n, d)
         /\ Turn("tx_start", n, c) => Turn("tx_sign", n, d)
<1>1. c.c2s \in Seq(Message)
  BY ConnTypes
<1>2. /\ Len(d.c2s) = Len(c.c2s) - 1 /\ Len(c.c2s) \in Nat \ {0} /\ d.s2c = c.s2c
  BY <1>1, HeadTailProperties
<1>3. (Opening(n, c) /\ c.req.kind \in Kinds) =>
              /\ Behind(n, d, 2, 2)
              /\ c.req.kind = "keystore" => c.c2s[1].cmd = "11"
              /\ c.req.kind = "keypair" => c.c2s[1].cmd = "21"
              /\ c.req.kind = "sign" => c.c2s[1].cmd = "31"
  <2> SUFFICES ASSUME Opening(n, c), c.req.kind \in Kinds
               PROVE  /\ Behind(n, d, 2, 2)
                      /\ c.req.kind = "keystore" => c.c2s[1].cmd = "11"
                      /\ c.req.kind = "keypair" => c.c2s[1].cmd = "21"
                      /\ c.req.kind = "sign" => c.c2s[1].cmd = "31"
    OBVIOUS
  <2>1. n = 2 /\ Len(c.c2s) = 1 /\ c.c2s[1].cmd = Script(c.req.kind)[1].cmd
    BY <1>2 DEF Opening
  <2>2. Behind(n, d, 2, 2)
    BY <1>2, <2>1 DEF Opening, Behind
  <2>3. /\ c.req.kind = "keystore" => Script(c.req.kind)[1].cmd = "11"
        /\ c.req.kind = "keypair" => Script(c.req.kind)[1].cmd = "21"
        /\ c.req.kind = "sign" => Script(c.req.kind)[1].cmd = "31"
    BY KeystoreScript, KeypairScript, SignScript DEF At
  <2> QED  BY <2>1, <2>2, <2>3
<1>4. Turn("tx_cmd", n, c) => Turn("tx_data", n, d)
  <2>1. Turn("tx_cmd", n, c) => Behind(n, c, 3, 5)
    BY <1>2 DEF Turn, Past, Early, Awaited
  <2>2. Behind(n, c, 3, 5) => Behind(n, d, 4, 5)
    BY <1>2 DEF Behind
  <2> QED  BY <2>1, <2>2 DEF Turn
<1>5. Turn("tx_data", n, c) => Turn("tx_dack", n, d)
  <2>1. Turn("tx_data", n, c) => Behind(n, c, 4, 5)
    BY DEF Turn, Past, Early
  <2>2. Behind(n, c, 4, 5) => Behind(n, d, 5, 5)
    BY <1>2 DEF Behind
  <2> QED  BY <2>1, <2>2 DEF Turn
<1>6. Turn("tx_start", n, c) => Turn("tx_sign", n, d)
  <2>1. Turn("tx_start", n, c) => Behind(n, c, 6, 7)
    BY <1>2 DEF Turn, Past, Early, Awaited
  <2>2. Behind(n, c, 6, 7) => Behind(n, d, 7, 7)
    BY <1>2 DEF Behind
  <2> QED  BY <2>1, <2>2 DEF Turn
<1> QED  BY <1>3, <1>4, <1>5, <1>6

(* The server writes what it writes at its stage.                          *)
LEMMA WriteTurn ==
  ASSUME NEW n \in 1 .. 8, NEW c \in Conn, NEW d, NEW m \in Message,
         spc \in Writing, Turn(spc, n, c), KindAt(spc, c.req.kind),
         c.req.kind \in Kinds, n <= Len(Script(c.req.kind)),
         m.cmd = Reply, m.id = c.req.id,
         spc \in TxStages => m.index = c.req.index,
         d.req = c.req, d.c2s = c.c2s, d.s2c = Append(c.s2c, m)
  PROVE  Turn(AfterWrite, n, d)
<1>1. c.s2c \in Seq(Message)
  BY ConnTypes
<1>2. /\ Len(d.s2c) = Len(c.s2c) + 1 /\ Len(c.s2c) \in Nat /\ d.c2s = c.c2s
      /\ \A j \in 1 .. Len(c.s2c) : d.s2c[j] = c.s2c[j]
      /\ d.s2c[Len(c.s2c) + 1] = m
  BY <1>1
<1>3. Refused(c) => Refused(d)
  BY <1>2 DEF Refused
<1>4. m.cmd = "ee" => Refused(d)
  <2>1. Len(c.s2c) + 1 \in 1 .. Len(d.s2c)
    BY <1>2
  <2> QED  BY <1>2, <2>1 DEF Refused
<1>5. CASE spc \in {"ks_error", "kp_error", "error"}
  <2>1. m.cmd = "ee" /\ AfterWrite \in Past
    BY <1>5 DEF Reply, AfterWrite, Past
  <2> QED  BY <1>4, <2>1 DEF Turn
<1>6. CASE spc = "ks_ack"
  <2>k. AfterWrite = "close" /\ c.req.kind = "keystore"
    BY <1>6 DEF AfterWrite, KindAt, KsStages
  <2>1. AfterWrite = "close" /\ Len(Script(c.req.kind)) = 2 /\ c.req.kind = "keystore"
    BY <2>k, Steps
  <2>2. Refused(c) \/ Behind(n, c, 2, 2)
    BY <1>6 DEF Turn
  <2>3. Behind(n, c, 2, 2) => Complete(n, d)
    BY <1>2, <2>1 DEF Behind, Complete, LastReads
  <2> QED  BY <1>3, <2>1, <2>2, <2>3 DEF Turn, Past
<1>7. CASE spc = "kp_ack"
  <2>1. AfterWrite = "kp_xpub"
    BY <1>7 DEF AfterWrite
  <2>2. Refused(c) \/ Behind(n, c, 2, 2)
    BY <1>7 DEF Turn
  <2>3. Behind(n, c, 2, 2) => n \in 2 .. 3 /\ Len(d.s2c) = 3 - n
    BY <1>2 DEF Behind
  <2> QED  BY <1>3, <2>1, <2>2, <2>3 DEF Turn, Past
<1>8. CASE spc = "kp_xpub"
  <2>k. AfterWrite = "close" /\ c.req.kind = "keypair"
    BY <1>8 DEF AfterWrite, KindAt, KpStages
  <2>1. AfterWrite = "close" /\ Len(Script(c.req.kind)) = 3 /\ c.req.kind = "keypair"
    BY <2>k, Steps
  <2>2. Refused(c) \/ (n \in 2 .. 3 /\ Len(c.s2c) = 3 - n)
    BY <1>8 DEF Turn, Early
  <2>3. (n \in 2 .. 3 /\ Len(c.s2c) = 3 - n) => Complete(n, d)
    BY <1>2, <2>1 DEF Complete, LastReads
  <2> QED  BY <1>3, <2>1, <2>2, <2>3 DEF Turn, Past
<1>9. CASE spc = "tx_ack"
  <2>1. AfterWrite = "tx_cmd" /\ m.cmd = "32" /\ m.index = c.req.index
    BY <1>9 DEF AfterWrite, Reply, TxStages
  <2>2. Behind(n, c, 2, 2)
    BY <1>9 DEF Turn, Past
  <2>3. Awaited(n, d, 2, "32")
    BY <1>2, <2>1, <2>2 DEF Behind, Awaited
  <2> QED  BY <2>1, <2>3 DEF Turn
<1>10. CASE spc = "tx_dack"
  <2>1. AfterWrite = "tx_start" /\ m.cmd = "42" /\ m.index = c.req.index
    BY <1>10 DEF AfterWrite, Reply, TxStages
  <2>2. Behind(n, c, 5, 5)
    BY <1>10 DEF Turn, Past, Early
  <2>3. Awaited(n, d, 5, "42")
    BY <1>2, <2>1, <2>2 DEF Behind, Awaited
  <2> QED  BY <2>1, <2>3 DEF Turn
<1>11. CASE spc = "tx_sack"
  <2>1. AfterWrite = "tx_res" /\ m.cmd = "52" /\ m.index = c.req.index
    BY <1>11 DEF AfterWrite, Reply, TxStages
  <2>2. Behind(n, c, 7, 7)
    BY <1>11 DEF Turn, Past, Early
  <2>3. Awaited(n, d, 7, "52")
    BY <1>2, <2>1, <2>2 DEF Behind, Awaited
  <2> QED  BY <2>1, <2>3 DEF Turn
<1>12. CASE spc = "tx_res"
  <2>k. AfterWrite = "close" /\ c.req.kind = "sign"
    BY <1>12 DEF AfterWrite, KindAt, TxStages
  <2>1. AfterWrite = "close" /\ Len(Script(c.req.kind)) = 8 /\ c.req.kind = "sign"
    BY <2>k, Steps
  <2>2. Awaited(n, c, 7, "52") \/ Behind(n, c, 8, 8)
    BY <1>12 DEF Turn, Past, Early
  <2>3. Complete(n, d)
    <3>1. LastReads(c.req.kind) = 7
      BY <2>1 DEF LastReads
    <3>2. (n = 7 /\ Len(c.s2c) = 1) \/ (n = 8 /\ Len(c.s2c) = 0)
      BY <2>2 DEF Awaited, Behind
    <3>. DEFINE sent == Len(c.s2c)
                due == Len(d.s2c)
    <3>a. sent \in Nat /\ due = sent + 1
      BY <1>2
    <3>b. (n = 7 /\ sent = 1) \/ (n = 8 /\ sent = 0)
      BY <3>2
    <3>. HIDE DEF sent, due
    <3>c. n \in 7 .. 8 /\ due = 8 + 1 - n
      BY <3>a, <3>b
    <3>3. n \in 7 .. 8 /\ Len(d.s2c) = 8 + 1 - n
      BY <3>c DEF due
    <3> QED  BY <2>1, <3>1, <3>3 DEF Complete
  <2> QED  BY <2>1, <2>3 DEF Turn
<1> QED
  BY <1>5, <1>6, <1>7, <1>8, <1>9, <1>10, <1>11, <1>12 DEF Writing

-----------------------------------------------------------------------------
(* What a step does to the connection of the request in progress.          *)

(* The request in progress begins, goes on, or waits while the server      *)
(* moves.                                                                  *)
LEMMA RequestMoves ==
  ASSUME [Next]_vars, creq' # 0
  PROVE  \/ Connect \/ CSend \/ CRecv
         \/ UNCHANGED client /\ (UNCHANGED vars \/ ServerMoves)
  BY DEF Next, ClientStep, ServerStep, Failing, ServerMoves, Keystores, Signing, CReset,
     GiveUp, Accept, SReset, SWriteFails, KsExists, KsOpen, KsHeader, KpCreate,
     KpRefused, KpPair, KpHeader, TxGet, TxSign, ServerRestart, DiskFails,
     vars, CAccept, CRecvWrong, ClientDeath, SReadCmd, TxCmd, TxData, TxStart,
     SWrite, SClose, ServerCrash

LEMMA RequestAt ==
  ASSUME IInv, creq # 0
  PROVE  /\ creq \in 1 .. Len(conns) /\ conns[creq] \in Conn /\ cstep \in 1 .. 8
         /\ CReq = conns[creq].req /\ CReq.kind \in Kinds
         /\ cstep <= Len(Script(CReq.kind))
         /\ (creq = sconn) => KindAt(spc, CReq.kind)
  BY ClientAt DEF IInv, Asking, TypeOK, CReq, Serving, KindAt

LEMMA SendEffect ==
  ASSUME IInv, CSend
  PROVE  LET c == conns[creq]  d == conns'[creq] IN
         /\ creq # 0 /\ creq' = creq /\ cstep' = cstep + 1 /\ CNext.do = "send"
         /\ UNCHANGED <<server, bounds>>
         /\ Asked \in Message /\ Asked.cmd = CNext.cmd
         /\ ~ d.rst => /\ d.req = c.req /\ d.s2c = c.s2c /\ d.c2s = Append(c.c2s, Asked)
                       /\ d.sopen /\ ~ c.rst
<1>1. /\ creq # 0 /\ creq' = creq /\ cstep' = cstep + 1 /\ CNext.do = "send"
      /\ ~ conns[creq].rst /\ UNCHANGED <<server, bounds>>
      /\ conns' = [conns EXCEPT ![creq] = Put(conns[creq], Asked)]
  BY DEF CSend, Asked
<1>2. creq \in 1 .. Len(conns) /\ conns[creq] \in Conn /\ Asked \in Message
  BY <1>1, ClientAt DEF IInv
<1>3. Asked.cmd = CNext.cmd
  BY DEF Asked, Msg
<1>4. conns'[creq] = Put(conns[creq], Asked)
  BY <1>1, <1>2 DEF IInv, TypeOK
<1> DEFINE c == conns[creq]
<1>5. c \in Conn
  BY <1>2
<1> HIDE DEF c
<1>6. CASE c.sopen
  <2>1. Put(c, Asked) = [c EXCEPT !.c2s = Append(c.c2s, Asked)]
    BY <1>6 DEF Put
  <2>2. /\ Put(c, Asked).req = c.req /\ Put(c, Asked).s2c = c.s2c
        /\ Put(c, Asked).c2s = Append(c.c2s, Asked) /\ Put(c, Asked).sopen
    BY <1>5, <1>6, <2>1 DEF Conn
  <2> QED  BY <1>1, <1>2, <1>3, <1>4, <2>2 DEF c
<1>7. CASE ~ c.sopen
  <2>1. Put(c, Asked).rst
    BY <1>5, <1>7 DEF Put, Conn
  <2> QED  BY <1>1, <1>2, <1>3, <1>4, <2>1 DEF c
<1> QED  BY <1>6, <1>7

LEMMA RecvEffect ==
  ASSUME IInv, CRecv
  PROVE  LET c == conns[creq]  d == conns'[creq] IN
         /\ creq # 0 /\ creq' = creq /\ cstep' = cstep + 1
         /\ cstep < Len(Script(CReq.kind)) /\ c.s2c # <<>> /\ c.s2c[1].cmd # "ee"
         /\ UNCHANGED <<server, bounds>>
         /\ d.req = c.req /\ d.c2s = c.c2s /\ d.s2c = Tail(c.s2c)
         /\ d.sopen = c.sopen /\ d.rst = c.rst
<1>1. /\ creq # 0 /\ creq' = creq /\ cstep' = cstep + 1 /\ ~ CLast
      /\ conns[creq].s2c # <<>> /\ UNCHANGED <<server, bounds>>
      /\ conns' = [conns EXCEPT ![creq] = Rest(conns[creq])]
  BY DEF CRecv
<1>2. creq \in 1 .. Len(conns) /\ conns[creq] \in Conn
  BY <1>1, ClientAt DEF IInv
<1>3. conns'[creq] = Rest(conns[creq])
  BY <1>1, <1>2 DEF IInv, TypeOK
<1>4. cstep < Len(Script(CReq.kind))
  <2>1. /\ CReq.kind \in Kinds /\ cstep \in 1 .. 8 /\ cstep <= Len(Script(CReq.kind))
        /\ cstep # Len(Script(CReq.kind))
    BY <1>1, RequestAt DEF CLast
  <2>2. Len(Script(CReq.kind)) \in 1 .. 8
    BY <2>1, ScriptFacts
  <2> QED  BY <2>1, <2>2
<1> QED  BY <1>1, <1>2, <1>3, <1>4, ReadOn, RestEffect

LEMMA TakenEffect ==
  ASSUME IInv, CanRead, Taken
  PROVE  LET c == conns[sconn]  d == conns'[sconn] IN
         /\ sconn \in 1 .. Len(conns) /\ c.c2s # <<>> /\ Incoming = c.c2s[1]
         /\ d.req = c.req /\ d.s2c = c.s2c /\ d.c2s = Tail(c.c2s)
         /\ d.sopen = c.sopen /\ d.rst = c.rst
         /\ \A k \in 1 .. Len(conns) : k # sconn => conns'[k] = conns[k]
<1>1. /\ sconn \in 1 .. Len(conns) /\ conns[sconn] \in Conn
      /\ conns[sconn].c2s # <<>> /\ Incoming = conns[sconn].c2s[1]
  <2>1. spc \notin {"accept", "down"} /\ conns[sconn].c2s # <<>>
    BY DEF CanRead, Waiting
  <2> QED  BY <2>1, ServerAt, ReadMessage DEF IInv
<1>2. conns' = [conns EXCEPT ![sconn] =
                  [conns[sconn] EXCEPT !.c2s = Tail(conns[sconn].c2s)]]
  BY DEF Taken
<1>a. PICK e \in Conn : e = [conns[sconn] EXCEPT !.c2s = Tail(conns[sconn].c2s)]
  BY <1>1, TakeEffect
<1>3. /\ conns'[sconn] = [conns[sconn] EXCEPT !.c2s = Tail(conns[sconn].c2s)]
      /\ \A k \in 1 .. Len(conns) : k # sconn => conns'[k] = conns[k]
  <2>1. conns \in Seq(Conn)
    BY DEF IInv, TypeOK
  <2>2. conns' = [conns EXCEPT ![sconn] = e]
    BY <1>2, <1>a
  <2>3. conns'[sconn] = e /\ \A k \in 1 .. Len(conns) : k # sconn => conns'[k] = conns[k]
    BY <1>1, <2>1, <2>2, OneConn
  <2> QED  BY <1>a, <2>3
<1> QED  BY <1>1, <1>3, TakeEffect

LEMMA WriteEffect ==
  ASSUME IInv, SWrite
  PROVE  LET c == conns[sconn]  d == conns'[sconn] IN
         /\ sconn \in 1 .. Len(conns) /\ c \in Conn
         /\ spc \in Writing /\ spc' = AfterWrite /\ sconn' = sconn
         /\ Written \in Message /\ Written.cmd = Reply /\ Written.id = c.req.id
         /\ spc \in TxStages => Written.index = c.req.index
         /\ d.req = c.req /\ d.c2s = c.c2s /\ d.sopen = c.sopen
         /\ ~ d.rst => d.s2c = Append(c.s2c, Written) /\ ~ c.rst
         /\ \A k \in 1 .. Len(conns) : k # sconn => conns'[k] = conns[k]
<1>1. /\ spc \in Writing /\ spc \notin {"accept", "down"} /\ spc' = AfterWrite
      /\ sconn' = sconn /\ ~ conns[sconn].rst
      /\ conns' = [conns EXCEPT ![sconn] = SPut(conns[sconn], Written)]
  BY DEF SWrite, Writing, Written, Goto
<1>2. /\ sconn \in 1 .. Len(conns) /\ conns[sconn] \in Conn /\ Written \in Message
      /\ spc \in Served /\ scmd.id = conns[sconn].req.id
  BY <1>1, ServerAt DEF IInv
<1>3. /\ Written.cmd = Reply /\ Written.id = scmd.id /\ Written.index = scmd.index
  BY DEF Written, Msg
<1>4. spc \in TxStages => scmd.index = conns[sconn].req.index
  BY DEF IInv, Serving
<1>5. /\ conns'[sconn] = SPut(conns[sconn], Written)
      /\ \A k \in 1 .. Len(conns) : k # sconn => conns'[k] = conns[k]
  BY <1>1, <1>2 DEF IInv, TypeOK
<1> DEFINE c == conns[sconn]
<1>6. c \in Conn
  BY <1>2
<1> HIDE DEF c
<1>7. LET d == SPut(c, Written) IN
        /\ d.req = c.req /\ d.c2s = c.c2s /\ d.sopen = c.sopen
        /\ ~ d.rst => d.s2c = Append(c.s2c, Written)
  BY <1>2, <1>6, SPutEffect
<1>8. /\ conns'[sconn].req = conns[sconn].req /\ conns'[sconn].c2s = conns[sconn].c2s
      /\ conns'[sconn].sopen = conns[sconn].sopen
      /\ ~ conns'[sconn].rst => conns'[sconn].s2c = Append(conns[sconn].s2c, Written)
  BY <1>5, <1>7 DEF c
<1> QED  BY <1>1, <1>2, <1>3, <1>4, <1>5, <1>8

LEMMA OthersQuiet ==
  ASSUME IInv, ServerMoves, ~ ServerCrash, NEW k \in 1 .. Len(conns), k # sconn
  PROVE  conns'[k] = conns[k]
<1>1. CASE SReadCmd \/ TxCmd \/ TxData \/ TxStart
  <2>1. CanRead /\ Taken
    BY <1>1 DEF SReadCmd, TxCmd, TxData, TxStart
  <2> QED  BY <2>1, TakenEffect
<1>2. CASE SWrite
  BY <1>2, WriteEffect
<1>3. CASE SClose
  <2>1. sconn \in 1 .. Len(conns)
    BY <1>3, ServerAt DEF SClose, IInv
  <2> QED  BY <1>3, <2>1 DEF SClose, IInv, TypeOK
<1>4. CASE UNCHANGED conns
  BY <1>4
<1> QED
  BY <1>1, <1>2, <1>3, <1>4
     DEF ServerMoves, Keystores, Signing, Accept, SReset, SWriteFails, KsExists, KsOpen,
     KsHeader, KpCreate, KpRefused, KpPair, KpHeader, TxGet, TxSign, ServerRestart,
     DiskFails

(* Only the server closes its end.                                         *)
LEMMA OpenStays ==
  ASSUME IInv, [Next]_vars, ~ SClose, ~ ServerCrash, NEW k \in 1 .. Len(conns)
  PROVE  conns'[k].sopen = conns[k].sopen
<1>a. conns[k] \in Conn /\ conns \in Seq(Conn)
  BY DEF IInv, TypeOK
<1>1. CASE UNCHANGED conns
  BY <1>1
<1>2. CASE Connect
  BY <1>2, ConnectEffect DEF IInv
<1>3. CASE CSend
  <2>1. /\ creq # 0 /\ conns' = [conns EXCEPT ![creq] = Put(conns[creq], Asked)]
    BY <1>3 DEF CSend, Asked
  <2> QED  BY <1>a, <2>1, ClientAt, PutEffect, OneConn DEF IInv
<1>4. CASE CRecv
  <2>1. creq # 0 /\ conns' = [conns EXCEPT ![creq] = Rest(conns[creq])] /\ conns[creq].s2c # <<>>
    BY <1>4 DEF CRecv
  <2> QED  BY <1>a, <2>1, ClientAt, RestEffect, OneConn DEF IInv
<1>5. CASE CAccept
  <2>1. /\ creq # 0 /\ conns[creq].s2c # <<>>
        /\ conns' = [conns EXCEPT ![creq] = CloseClient(Rest(conns[creq]))]
    BY <1>5 DEF CAccept
  <2> QED  BY <1>a, <2>1, ClientAt, RestEffect, CloseEffect, OneConn DEF IInv
<1>6. CASE CRecvWrong
  <2>1. /\ creq # 0 /\ conns[creq].s2c # <<>>
        /\ conns' = [conns EXCEPT ![creq] = Finish(Rest(conns[creq]))]
    BY <1>6 DEF CRecvWrong
  <2>2. Rest(conns[creq]).req = CReq
    BY <2>1, ClientAt, RestEffect DEF CReq, IInv
  <2>3. \/ Finish(Rest(conns[creq])) = Rest(conns[creq])
        \/ Finish(Rest(conns[creq])) = Put(Rest(conns[creq]), GivenUp)
    BY <2>2 DEF Finish, GivenUp
  <2> QED  BY <1>a, <2>1, <2>3, ClientAt, RestEffect, PutEffect, OneConn DEF IInv
<1>7. CASE ClientDeath
  <2>1. conns'[k] = IF conns[k].copen THEN CloseClient(conns[k]) ELSE conns[k]
    BY <1>7, <1>a DEF ClientDeath
  <2> QED  BY <1>a, <2>1, CloseEffect
<1>8. CASE SReadCmd \/ TxCmd \/ TxData \/ TxStart
  <2>1. CanRead /\ Taken
    BY <1>8 DEF SReadCmd, TxCmd, TxData, TxStart
  <2> QED  BY <2>1, TakenEffect
<1>9. CASE SWrite
  BY <1>9, WriteEffect
<1> QED
  BY <1>1, <1>2, <1>3, <1>4, <1>5, <1>6, <1>7, <1>8, <1>9, ConnsQuiet

LEMMA OpenNext ==
  ASSUME TurnInv, [Next]_vars
  PROVE  Open'
<1> SUFFICES ASSUME spc' \notin Idle
             PROVE  conns'[sconn'].sopen
  BY DEF Open
<1>1. IInv
  BY DEF TurnInv
<1>2. ~ SClose /\ ~ ServerCrash /\ ~ ServerRestart
  BY DEF SClose, ServerCrash, ServerRestart, Goto, Idle
<1>3. CASE Accept
  <2>1. sconn' \in 1 .. Len(conns) /\ conns[sconn'].sopen /\ UNCHANGED conns
    BY <1>1, <1>3 DEF Accept, IInv, TypeOK
  <2> QED  BY <2>1
<1>4. CASE sconn' = sconn /\ spc \notin Idle
  <2>1. sconn \in 1 .. Len(conns) /\ conns[sconn].sopen
    BY <1>1, <1>4, ServerAt DEF TurnInv, Open, IInv, Idle
  <2> QED  BY <1>1, <1>2, <1>4, <2>1, OpenStays
<1> QED  BY <1>1, <1>2, <1>3, <1>4, ServerPlace

-----------------------------------------------------------------------------
(* The turn at each step of the server.                                    *)

LEMMA ServeTurn ==
  ASSUME TurnInv, ServerMoves, creq # 0, creq = sconn, creq' = creq, cstep' = cstep,
         sconn' = sconn, spc \notin Idle, spc' \notin Idle, ~ conns'[creq].rst,
         ~ conns[creq].rst
  PROVE  Turn(spc', cstep, conns'[creq])
<1> DEFINE c == conns[creq]
           d == conns'[creq]
<1>1. /\ Turn(spc, cstep, c) /\ IInv
  BY DEF TurnInv, Talking
<1>2. /\ creq \in 1 .. Len(conns) /\ c \in Conn /\ cstep \in 1 .. 8
      /\ CReq = c.req /\ c.req.kind \in Kinds
      /\ cstep <= Len(Script(c.req.kind)) /\ KindAt(spc, c.req.kind)
  BY <1>1, RequestAt
<1>3. CASE SReadCmd
  <2>1. CanRead /\ Taken /\ spc = "read"
    BY <1>3 DEF SReadCmd
  <2>2. /\ c.c2s # <<>> /\ Incoming = c.c2s[1]
        /\ d.req = c.req /\ d.s2c = c.s2c /\ d.c2s = Tail(c.c2s)
    BY <1>1, <2>1, TakenEffect
  <2>3. Opening(cstep, c)
    BY <1>1, <2>1 DEF Turn, Past, Early
  <2>4. /\ Behind(cstep, d, 2, 2)
        /\ c.req.kind = "keystore" => Incoming.cmd = "11"
        /\ c.req.kind = "keypair" => Incoming.cmd = "21"
        /\ c.req.kind = "sign" => Incoming.cmd = "31"
    BY <1>2, <2>2, <2>3, TakeTurn
  <2>5. spc' \in {"ks_open", "kp_create", "tx_get"}
    BY <1>2, <1>3, <2>4 DEF SReadCmd, Kinds
  <2> HIDE DEF c, d
  <2>6. Turn(spc', cstep, d)
    BY <2>4, <2>5 DEF Turn, Early
  <2> QED  BY <2>6 DEF d
<1>4. CASE TxCmd \/ TxData \/ TxStart
  <2>1. CanRead /\ Taken
    BY <1>4 DEF TxCmd, TxData, TxStart
  <2>2. /\ c.c2s # <<>>
        /\ d.req = c.req /\ d.s2c = c.s2c /\ d.c2s = Tail(c.c2s)
    BY <1>1, <2>1, TakenEffect
  <2>3. \/ spc = "tx_cmd" /\ spc' \in {"tx_data", "error"}
        \/ spc = "tx_data" /\ spc' = "tx_dack"
        \/ spc = "tx_start" /\ spc' \in {"tx_sign", "error"}
    BY <1>4 DEF TxCmd, TxData, TxStart, Goto
  <2> HIDE DEF c, d
  <2>4. /\ Turn("tx_cmd", cstep, c) => Turn("tx_data", cstep, d)
        /\ Turn("tx_data", cstep, c) => Turn("tx_dack", cstep, d)
        /\ Turn("tx_start", cstep, c) => Turn("tx_sign", cstep, d)
    BY <1>2, <2>2, TakeTurn
  <2>5. Turn("error", cstep, d)
    BY DEF Turn
  <2> QED  BY <1>1, <2>3, <2>4, <2>5 DEF c, d
<1>5. CASE SWrite
  <2>1. /\ spc \in Writing /\ spc' = AfterWrite
        /\ Written \in Message /\ Written.cmd = Reply /\ Written.id = c.req.id
        /\ spc \in TxStages => Written.index = c.req.index
        /\ d.req = c.req /\ d.c2s = c.c2s
        /\ d.s2c = Append(c.s2c, Written)
    BY <1>1, <1>5, WriteEffect
  <2> HIDE DEF c, d
  <2>2. Turn(AfterWrite, cstep, d)
    BY <1>1, <1>2, <2>1, WriteTurn
  <2> QED  BY <2>1, <2>2 DEF d
<1>6. CASE SReset \/ SWriteFails
  BY <1>6 DEF SReset, SWriteFails
<1>7. CASE SClose \/ ServerCrash \/ Accept \/ ServerRestart
  BY <1>7 DEF SClose, ServerCrash, Accept, ServerRestart, Goto, Idle
<1>8. CASE UNCHANGED conns
  <2>1. d = c
    BY <1>8
  <2>2. \/ spc' = "error"
        \/ spc = "ks_open" /\ spc' \in {"ks_error", "ks_header"}
        \/ spc = "ks_header" /\ spc' \in {"ks_ack", "ks_error"}
        \/ spc = "kp_create" /\ spc' \in {"kp_save", "kp_error"}
        \/ spc = "kp_save" /\ spc' = "kp_header"
        \/ spc = "kp_header" /\ spc' = "kp_ack"
        \/ spc = "tx_get" /\ spc' = "tx_ack"
        \/ spc = "tx_sign" /\ spc' = "tx_sack"
        \/ SReset \/ SWriteFails \/ SClose \/ ServerCrash \/ Accept \/ ServerRestart
        \/ SReadCmd \/ TxCmd \/ TxData \/ TxStart \/ SWrite
    <3>1. CASE KsExists \/ KsOpen \/ KsHeader \/ KpCreate \/ KpRefused \/ KpPair \/ KpHeader
      BY <3>1 DEF KsExists, KsOpen, KsHeader, KpCreate, KpRefused, KpPair, KpHeader, Goto
    <3>2. CASE TxGet \/ TxSign \/ DiskFails
      BY <3>2 DEF TxGet, TxSign, DiskFails, Goto
    <3> QED  BY <3>1, <3>2 DEF ServerMoves, Keystores, Signing
  <2> HIDE DEF c, d
  <2>3. CASE spc' = "error"
    BY <2>3 DEF Turn, d
  <2>4. CASE \/ spc = "ks_open" /\ spc' \in {"ks_error", "ks_header"}
             \/ spc = "ks_header" /\ spc' \in {"ks_ack", "ks_error"}
             \/ spc = "kp_create" /\ spc' \in {"kp_save", "kp_error"}
             \/ spc = "tx_get" /\ spc' = "tx_ack"
    <3>1. Behind(cstep, c, 2, 2) /\ spc' \in Early
      BY <1>1, <2>4 DEF Turn, Past, Early
    <3>2. Turn(spc', cstep, c)
      BY <3>1 DEF Turn
    <3> QED  BY <2>1, <3>2 DEF d
  <2>5. CASE \/ spc = "kp_save" /\ spc' = "kp_header"
             \/ spc = "kp_header" /\ spc' = "kp_ack"
    <3>1. (Refused(c) \/ Behind(cstep, c, 2, 2)) /\ spc' \in Early /\ spc' \in Past
      BY <1>1, <2>5 DEF Turn, Past, Early
    <3>2. Turn(spc', cstep, c)
      BY <3>1 DEF Turn
    <3> QED  BY <2>1, <3>2 DEF d
  <2>6. CASE spc = "tx_sign" /\ spc' = "tx_sack"
    <3>1. Behind(cstep, c, 7, 7)
      BY <1>1, <2>6 DEF Turn, Past, Early
    <3>2. Turn(spc', cstep, c)
      BY <2>6, <3>1 DEF Turn
    <3> QED  BY <2>1, <3>2 DEF d
  <2> QED
    BY <1>3, <1>4, <1>5, <1>6, <1>7, <2>2, <2>3, <2>4, <2>5, <2>6 DEF d
<1> QED
  BY <1>3, <1>4, <1>5, <1>6, <1>7, <1>8
     DEF ServerMoves, Keystores, Signing, KsExists, KsOpen,
     KsHeader, KpCreate, KpRefused, KpPair, KpHeader, TxGet, TxSign, DiskFails

LEMMA RecvSettled ==
  ASSUME NEW n \in 1 .. 8, NEW c \in Conn, NEW d, Settled(n, c),
         c.req.kind \in Kinds, n < Len(Script(c.req.kind)),
         c.s2c # <<>>, c.s2c[1].cmd # "ee",
         d.req = c.req, d.c2s = c.c2s, d.s2c = Tail(c.s2c)
  PROVE  Settled(n + 1, d)
<1>1. Turn("close", n, c) /\ KindAt("close", c.req.kind)
  BY DEF Settled, Turn, KindAt, Past, KsStages, KpStages, TxStages
<1>2. Turn("close", n + 1, d)
  BY <1>1, RecvTurn
<1> QED  BY <1>2 DEF Turn, Settled, Early

LEMMA TalkingNext ==
  ASSUME TurnInv, [Next]_vars
  PROVE  Talking'
<1> SUFFICES ASSUME creq' # 0, ~ conns'[creq'].rst
             PROVE  /\ creq' > sconn' => Opening(cstep', conns'[creq'])
                    /\ (creq' = sconn' /\ spc' \notin Idle) =>
                         Turn(spc', cstep', conns'[creq'])
                    /\ ~ conns'[creq'].sopen =>
                         Settled(cstep', conns'[creq']) \/ crashes' > 0
  BY DEF Talking, Turn, Opening, Settled, Behind, Awaited, Complete, Refused
<1>1. IInv /\ Framed
  BY Frame DEF TurnInv
<1>2. CASE Connect
  <2>1. PICK r \in Request : conns'[creq'] = Fresh(r)
    BY <1>1, <1>2, ConnectEffect DEF IInv
  <2>2. cstep' = 1 /\ creq' > sconn' /\ creq' # sconn'
    BY <1>1, <1>2, ConnectEffect DEF IInv, Framed
  <2>3. Opening(cstep', conns'[creq']) /\ conns'[creq'].sopen
    BY <2>1, <2>2, FreshType DEF Opening
  <2> QED  BY <1>1, <2>2, <2>3 DEF Framed
<1>3. CASE creq' = creq /\ ~ Connect
  <2> DEFINE c == conns[creq]
             d == conns'[creq]
  <2>1. /\ creq # 0 /\ creq \in 1 .. Len(conns) /\ c \in Conn /\ cstep \in 1 .. 8
        /\ CReq = c.req /\ c.req.kind \in Kinds
        /\ cstep <= Len(Script(c.req.kind))
        /\ creq = sconn => KindAt(spc, c.req.kind)
    BY <1>1, <1>3, RequestAt
  <2>2. ~ c.rst /\ ~ d.rst
    BY <1>1, <1>3, <2>1 DEF Framed, Kept
  <2>3. /\ creq > sconn => Opening(cstep, c)
        /\ (creq = sconn /\ spc \notin Idle) => Turn(spc, cstep, c)
        /\ ~ c.sopen => Settled(cstep, c) \/ crashes > 0
    BY <2>1, <2>2 DEF TurnInv, Talking
  <2>4. CASE CSend
    <3>1. /\ cstep' = cstep + 1 /\ CNext.do = "send" /\ UNCHANGED <<server, bounds>>
          /\ Asked \in Message /\ Asked.cmd = CNext.cmd
          /\ d.req = c.req /\ d.s2c = c.s2c /\ d.c2s = Append(c.c2s, Asked)
          /\ d.sopen
      BY <1>1, <2>2, <2>4, SendEffect
    <3>2. CNext = Script(c.req.kind)[cstep]
      BY <2>1 DEF CNext
    <3> HIDE DEF c, d
    <3>3. Opening(cstep, c) => Opening(cstep + 1, d)
      BY <2>1, <3>1, <3>2, SendOpening
    <3>4. (creq = sconn /\ Turn(spc, cstep, c)) => Turn(spc, cstep + 1, d)
      BY <2>1, <3>1, <3>2, SendTurn
    <3>5. spc' = spc /\ sconn' = sconn
      BY <3>1 DEF server
    <3> QED  BY <1>3, <2>3, <3>1, <3>3, <3>4, <3>5 DEF d
  <2>5. CASE CRecv
    <3>1. /\ cstep' = cstep + 1 /\ UNCHANGED <<server, bounds>>
          /\ cstep < Len(Script(c.req.kind)) /\ c.s2c # <<>> /\ c.s2c[1].cmd # "ee"
          /\ d.req = c.req /\ d.s2c = Tail(c.s2c) /\ d.c2s = c.c2s
          /\ d.sopen = c.sopen
      BY <1>1, <2>1, <2>5, RecvEffect
    <3> HIDE DEF c, d
    <3>2. ~ Opening(cstep, c)
      BY <2>1, <3>1, ConnTypes DEF Opening
    <3>3. (creq = sconn /\ Turn(spc, cstep, c)) => Turn(spc, cstep + 1, d)
      BY <2>1, <3>1, RecvTurn
    <3>4. Settled(cstep, c) => Settled(cstep + 1, d)
      BY <2>1, <3>1, RecvSettled
    <3>5. spc' = spc /\ sconn' = sconn /\ crashes' = crashes
      BY <3>1 DEF server, bounds
    <3> QED  BY <1>3, <2>3, <3>1, <3>2, <3>3, <3>4, <3>5 DEF d
  <2>6. CASE UNCHANGED vars
    <3>1. UNCHANGED <<conns, cstep, spc, sconn, crashes>>
      BY <2>6 DEF vars, client, server, bounds
    <3> QED  BY <1>3, <2>3, <3>1
  <2>7. CASE ServerMoves /\ UNCHANGED client
    <3>1. cstep' = cstep
      BY <2>7 DEF client
    <3>2. CASE ServerCrash
      <4>a. crashes' = crashes + 1 /\ spc' = "down" /\ sconn' = sconn
        BY <3>2, Zenon DEF ServerCrash
      <4>1. crashes' > 0 /\ spc' \in Idle /\ sconn' = sconn
        BY <4>a DEF Idle, TurnInv, Counts
      <4>b. creq \in DOMAIN conns
        BY <1>1, <2>1 DEF IInv, TypeOK
      <4>2. d = IF c.sopen THEN [c EXCEPT !.sopen = FALSE,
                                    !.rst = @ \/ creq > sconn \/ c.c2s # <<>>]
                           ELSE c
        BY <3>2, <4>b, Zenon DEF ServerCrash
      <4>3. creq > sconn => d = c
        BY <2>1, <2>2, <4>2 DEF Conn
      <4> QED  BY <1>3, <2>3, <3>1, <4>1, <4>3
    <3>3. CASE SClose
      <4>1. /\ spc = "close" /\ spc' = "accept" /\ sconn' = sconn /\ sconn \in 1 .. Len(conns)
            /\ crashes' = crashes
        BY <1>1, <3>3, ServerAt DEF SClose, IInv, bounds
      <4>2. CASE creq # sconn
        <5>1. d = c
          BY <1>1, <2>1, <2>7, <3>3, <4>1, <4>2, OthersQuiet DEF SClose, ServerCrash
        <5> QED  BY <1>3, <2>3, <3>1, <4>1, <4>2, <5>1 DEF Idle
      <4>3. CASE creq = sconn
        <5>1. Settled(cstep, c)
          BY <2>3, <4>1, <4>3 DEF Turn, Settled, Idle, Early
        <5>2. d.req = c.req /\ d.s2c = c.s2c
          BY <1>1, <2>1, <3>3, <4>3 DEF SClose, IInv, TypeOK, Conn
        <5>3. Settled(cstep, d)
          BY <5>1, <5>2 DEF Settled, Refused, Complete
        <5> QED  BY <1>1, <1>3, <3>1, <4>1, <4>3, <5>3 DEF Framed, Idle
      <4> QED  BY <4>2, <4>3
    <3>4. CASE Accept
      <4>1. sconn' > sconn /\ spc' = "read" /\ crashes' = crashes /\ d = c
        BY <3>4 DEF Accept, bounds
      <4>2. sconn' \in 1 .. Len(conns)
        BY <1>1, <3>4 DEF Accept, IInv, TypeOK
      <4>3. creq >= sconn' => Opening(cstep, c)
        BY <1>1, <2>3, <4>1, <4>2 DEF Framed
      <4>4. creq = sconn' => Turn(spc', cstep, c)
        BY <4>1, <4>2, <4>3 DEF Turn
      <4> QED  BY <1>1, <1>3, <2>3, <3>1, <4>1, <4>2, <4>3, <4>4 DEF Framed
    <3>5. CASE ~ ServerCrash /\ ~ SClose /\ ~ Accept
      <4>1. /\ sconn' = sconn /\ (spc' \in Idle <=> spc \in Idle)
        <5>1. CASE ServerRestart
          BY <5>1 DEF ServerRestart, Goto, Idle
        <5> QED  BY <1>1, <3>5, <5>1, ServerPlace
      <4>2. crashes' = crashes
        BY <2>7, <3>5
           DEF ServerMoves, Keystores, Signing, SReset, SWriteFails, KsExists, KsOpen,
           KsHeader, KpCreate, KpRefused, KpPair, KpHeader, TxGet, TxSign, ServerRestart,
           DiskFails, SReadCmd, TxCmd, TxData, TxStart, SWrite, bounds
      <4>3. CASE creq # sconn
        <5>1. d = c
          BY <1>1, <2>1, <2>7, <3>5, <4>3, OthersQuiet
        <5> QED  BY <1>3, <2>3, <3>1, <4>1, <4>2, <4>3, <5>1
      <4>4. CASE creq = sconn /\ spc \notin Idle
        <5>1. Turn(spc', cstep, d)
          BY <1>3, <2>1, <2>2, <2>7, <3>1, <4>1, <4>4, ServeTurn
        <5>2. d.sopen
          BY <4>1, <4>4, OpenNext DEF Open
        <5> QED  BY <1>1, <1>3, <3>1, <4>1, <4>4, <5>1, <5>2 DEF Framed
      <4>5. CASE creq = sconn /\ spc \in Idle
        <5>1. ServerRestart
          BY <2>7, <3>5, <4>5
             DEF ServerMoves, Keystores, Signing, SReset, SWriteFails, KsExists, KsOpen,
             KsHeader, KpCreate, KpRefused, KpPair, KpHeader, TxGet, TxSign,
             DiskFails, SReadCmd, TxCmd, TxData, TxStart, SWrite, Idle, Waiting, Writing
        <5>2. d = c
          BY <5>1 DEF ServerRestart
        <5> QED  BY <1>1, <1>3, <2>3, <3>1, <4>1, <4>2, <4>5, <5>2 DEF Framed
      <4> QED  BY <4>3, <4>4, <4>5
    <3> QED  BY <3>2, <3>3, <3>4, <3>5
  <2> QED  BY <1>3, <2>1, <2>4, <2>5, <2>6, <2>7, RequestMoves
<1> QED
  <2>1. (UNCHANGED client \/ CSend \/ CRecv) => creq' = creq
    BY DEF client, CSend, CRecv
  <2> QED  BY <1>2, <1>3, <2>1, RequestMoves

-----------------------------------------------------------------------------
(* The client leaves.                                                      *)

LEMMA Leaves ==
  ASSUME [Next]_vars, creq # 0, creq' = 0
  PROVE  (CAccept \/ CRecvWrong \/ CReset \/ ClientDeath) /\ UNCHANGED server
  BY DEF Next, ClientStep, ServerStep, Failing, Keystores, Signing, Connect, CSend, CRecv,
     Accept, SReset, SWriteFails, KsExists, KsOpen, KsHeader, KpCreate,
     KpRefused, KpPair, KpHeader, TxGet, TxSign, ServerRestart, DiskFails,
     vars, client, CAccept, CRecvWrong, CReset, ClientDeath, SReadCmd, TxCmd, TxData,
     TxStart, SWrite, SClose, ServerCrash

(* A client that reads its last message, or a wrong one, is one the server *)
(* is done with.                                                           *)
LEMMA LeaveTurn ==
  ASSUME IInv, creq # 0, creq = sconn, Turn(spc, cstep, conns[creq]),
         CAccept \/ CRecvWrong
  PROVE  spc \in Past
<1> DEFINE c == conns[creq]
<1>1. /\ c \in Conn /\ cstep \in 1 .. 8 /\ CReq = c.req /\ CReq.kind \in Kinds
      /\ cstep <= Len(Script(CReq.kind)) /\ KindAt(spc, CReq.kind)
  BY RequestAt
<1>2. c.s2c # <<>> /\ (CLast \/ ~ Fits(Head(c.s2c)))
  BY DEF CAccept, CRecvWrong
<1>3. Len(c.s2c) # 0 /\ Head(c.s2c) = c.s2c[1]
  <2>1. c.s2c \in Seq(Message)
    BY <1>1, ConnTypes
  <2> QED  BY <1>1, <1>2, <2>1, ConnTypes
<1>4. /\ CReq.kind = "sign" => Len(Script(CReq.kind)) = 8
      /\ (CReq.kind = "sign" /\ cstep = 2) => CNext.cmd = "32"
      /\ (CReq.kind = "sign" /\ cstep = 5) => CNext.cmd = "42"
      /\ (CReq.kind = "sign" /\ cstep = 7) => CNext.cmd = "52"
  BY <1>1, Steps DEF CNext
<1> SUFFICES ASSUME spc \notin Past
             PROVE  FALSE
  OBVIOUS
<1>5. spc \in TxStages => CReq.kind = "sign"
  BY <1>1 DEF KindAt
<1> HIDE DEF c
<1>6. \/ spc = "tx_cmd" /\ Awaited(cstep, c, 2, "32")
      \/ spc = "tx_start" /\ Awaited(cstep, c, 5, "42")
      \/ spc = "tx_res" /\ Awaited(cstep, c, 7, "52")
  <2>1. Turn(spc, cstep, c)
    BY DEF c
  <2> QED  BY <1>3, <2>1 DEF Turn, Past, Opening, Behind
<1>7. /\ CReq.kind = "sign" /\ ~ CLast
      /\ c.s2c[1].cmd = CNext.cmd /\ c.s2c[1].cmd # "data"
      /\ c.s2c[1].id = CReq.id /\ c.s2c[1].index = CReq.index
  <2>1. CReq.kind = "sign"
    BY <1>5, <1>6 DEF TxStages
  <2>2. cstep \in {2, 5, 7} /\ Len(Script(CReq.kind)) = 8
    BY <1>4, <1>6, <2>1 DEF Awaited
  <2>3. ~ CLast
    BY <2>2 DEF CLast
  <2>4. /\ c.s2c[1].cmd = CNext.cmd /\ c.s2c[1].cmd # "data"
        /\ c.s2c[1].id = c.req.id /\ c.s2c[1].index = c.req.index
    BY <1>4, <1>6, <2>1 DEF Awaited
  <2> QED  BY <1>1, <2>1, <2>3, <2>4
<1> QED  BY <1>2, <1>3, <1>7 DEF Fits, c

LEMMA PastStays ==
  ASSUME [Next]_vars, spc \in Past, spc' \notin Idle
  PROVE  spc' \in Past
<1>1. CASE UNCHANGED server
  BY <1>1 DEF server
<1>2. CASE Accept \/ SClose \/ ServerCrash \/ ServerRestart
  BY <1>2 DEF Accept, SClose, ServerCrash, ServerRestart, Goto, Past, Idle
<1>3. CASE SReadCmd \/ SReset \/ Signing
  BY <1>3 DEF SReadCmd, SReset, Signing, TxGet, TxCmd, TxData, TxStart, TxSign, Goto, Past,
     Waiting
<1>4. CASE SWrite \/ SWriteFails
  BY <1>4 DEF SWrite, SWriteFails, Goto, Past, AfterWrite, AfterFailedWrite, Writing
<1>5. CASE Keystores \/ DiskFails
  BY <1>5 DEF Keystores, KsExists, KsOpen, KsHeader, KpCreate, KpRefused, KpPair, KpHeader,
     DiskFails, Goto, Past
<1> QED  BY <1>1, <1>2, <1>3, <1>4, <1>5, ServerQuiet DEF ServerMoves

LEMMA SconnMoves ==
  ASSUME IInv, [Next]_vars
  PROVE  Accept \/ sconn' = sconn
<1>1. (SClose \/ ServerCrash \/ ServerRestart) => sconn' = sconn
  BY DEF SClose, ServerCrash, ServerRestart, Goto
<1> QED  BY <1>1, ServerPlace

LEMMA CountsNext ==
  ASSUME Counts, [Next]_vars
  PROVE  Counts' /\ (deaths' = 0 => deaths = 0 /\ ~ ClientDeath)
<1>1. CASE ClientDeath
  <2>1. deaths' = deaths + 1 /\ crashes' = crashes
    BY <1>1 DEF ClientDeath
  <2> QED  BY <2>1 DEF Counts
<1>2. CASE ServerCrash
  <2>1. deaths' = deaths /\ crashes' = crashes + 1
    BY <1>2, Zenon DEF ServerCrash
  <2>2. ~ ClientDeath
    BY <2>1 DEF ClientDeath, Counts
  <2> QED  BY <2>1, <2>2 DEF Counts
<1>3. CASE ~ ClientDeath /\ ~ ServerCrash
  <2>1. deaths' = deaths /\ crashes' = crashes
    BY <1>3 DEF Next, ClientStep, ServerStep, Failing, Keystores, Signing, Connect, CSend,
       CRecv, Accept, SReset, SWriteFails, KsExists, KsOpen, KsHeader, KpCreate,
       KpRefused, KpPair, KpHeader, TxGet, TxSign, ServerRestart, DiskFails,
       vars, bounds, CAccept, CRecvWrong, CReset, SReadCmd, TxCmd, TxData,
       TxStart, SWrite, SClose
  <2> QED  BY <1>3, <2>1 DEF Counts
<1> QED  BY <1>1, <1>2, <1>3

LEMMA AttendedNext ==
  ASSUME TurnInv, [Next]_vars
  PROVE  Attended'
<1>1. IInv /\ Framed /\ Counts
  BY Frame DEF TurnInv
<1> SUFFICES ASSUME deaths' = 0
             PROVE  /\ \A k \in 1 .. Len(conns') : k > sconn' => conns'[k].rst \/ k = creq'
                    /\ (spc' \notin Idle /\ ~ conns'[sconn'].rst /\ creq' # sconn') =>
                         spc' \in Past
  BY DEF Attended
<1>2. deaths = 0 /\ ~ ClientDeath
  BY <1>1, CountsNext
<1>3. /\ \A k \in 1 .. Len(conns) : k > sconn => conns[k].rst \/ k = creq
      /\ (spc \notin Idle /\ ~ conns[sconn].rst /\ creq # sconn) => spc \in Past
  BY <1>2 DEF TurnInv, Attended
<1>4. ASSUME NEW k \in 1 .. Len(conns'), k > sconn'
      PROVE  conns'[k].rst \/ k = creq'
  <2>1. CASE Connect
    BY <1>1, <1>3, <1>4, <2>1, ConnectEffect DEF IInv, Framed
  <2>2. CASE ~ Connect
    <3>1. k \in 1 .. Len(conns) /\ k > sconn
      <4>1. Len(conns') = Len(conns)
        BY <1>1, <2>2, ConnsNext DEF IInv, ConnsKept
      <4>2. sconn' >= sconn
        BY <1>1, SconnMoves DEF Accept, IInv, TypeOK
      <4>3. sconn' \in Int /\ sconn \in Int
        BY <1>1, TypeNext DEF TypeOK, IInv
      <4> QED  BY <1>4, <4>1, <4>2, <4>3
    <3>2. CASE conns[k].rst
      BY <1>1, <3>1, <3>2 DEF Framed, Kept
    <3>3. CASE ~ conns[k].rst
      <4>1. k = creq /\ creq # 0 /\ Opening(cstep, conns[creq])
        BY <1>3, <3>1, <3>3 DEF TurnInv, Talking
      <4>2. conns[creq].s2c = <<>>
        BY <1>1, <4>1, RequestAt, ConnTypes DEF Opening
      <4>3. ~ CAccept /\ ~ CRecvWrong /\ ~ CReset
        BY <3>3, <4>1, <4>2 DEF CAccept, CRecvWrong, CReset
      <4>4. creq' # 0
        BY <1>2, <4>1, <4>3, Leaves
      <4>5. creq' = creq
        BY <2>2, <4>4, RequestMoves DEF client, CSend, CRecv
      <4> QED  BY <4>1, <4>5
    <3> QED  BY <3>2, <3>3
  <2> QED  BY <2>1, <2>2
<1>5. ASSUME spc' \notin Idle, ~ conns'[sconn'].rst, creq' # sconn'
      PROVE  spc' \in Past
  <2>1. CASE Accept
    <3>1. /\ sconn' \in 1 .. Len(conns) /\ sconn' > sconn /\ UNCHANGED <<conns, creq>>
      BY <1>1, <2>1 DEF Accept, IInv, TypeOK, client
    <3> QED  BY <1>3, <1>5, <3>1
  <2>2. CASE sconn' = sconn /\ spc \notin Idle
    <3>1. sconn \in 1 .. Len(conns)
      BY <1>1, <2>2, ServerAt DEF IInv, Idle
    <3>2. ~ conns[sconn].rst
      BY <1>1, <1>5, <2>2, <3>1 DEF Framed, Kept
    <3>3. spc \in Past
      <4>1. CASE creq # sconn
        BY <1>3, <2>2, <3>2, <4>1
      <4>2. CASE creq = sconn
        <5>1. creq # 0 /\ ~ Connect
          BY <1>1, <3>1, <4>2 DEF Connect
        <5>2. creq' = 0
          BY <1>5, <2>2, <4>2, <5>1, RequestMoves DEF client, CSend, CRecv
        <5>3. CAccept \/ CRecvWrong
          BY <1>2, <3>2, <4>2, <5>1, <5>2, Leaves DEF CReset
        <5>4. Turn(spc, cstep, conns[creq])
          BY <2>2, <3>2, <4>2, <5>1 DEF TurnInv, Talking
        <5> QED  BY <1>1, <4>2, <5>1, <5>3, <5>4, LeaveTurn
      <4> QED  BY <4>1, <4>2
    <3> QED  BY <1>5, <3>3, PastStays
  <2>3. (SClose \/ ServerCrash \/ ServerRestart) => spc' \in Idle
    BY DEF SClose, ServerCrash, ServerRestart, Goto, Idle
  <2> QED  BY <1>1, <1>5, <2>1, <2>2, <2>3, ServerPlace
<1> QED  BY <1>4, <1>5

-----------------------------------------------------------------------------
(* The theorems.                                                           *)

LEMMA TurnInit ==
  ASSUME Init
  PROVE  TurnInv
<1>1. Counts /\ Open /\ Talking
  BY DEF Init, Counts, Open, Talking, Idle
<1>2. Attended
  BY DEF Init, Attended, Idle
<1> QED  BY <1>1, <1>2, InvInit DEF TurnInv

LEMMA TurnNext ==
  ASSUME TurnInv, [Next]_vars
  PROVE  TurnInv'
<1>1. IInv' /\ Counts'
  BY InvNext, CountsNext DEF TurnInv
<1> QED  BY <1>1, OpenNext, TalkingNext, AttendedNext DEF TurnInv

LEMMA TurnInvariant == Spec => []TurnInv
BY TurnInit, TurnNext, PTL DEF Spec

(* While the client process lives, the server never waits for a client     *)
(* that has given up or that waits for it.                                 *)
THEOREM ServerAttended == Spec => []ServerNotStranded
<1>1. TurnInv => ServerNotStranded
  <2> SUFFICES ASSUME TurnInv, spc \in Waiting, ~ conns[sconn].rst,
                      conns[sconn].c2s = <<>>, ~ deaths > 0
               PROVE  creq = sconn /\ (CNext.do = "send" \/ conns[sconn].s2c # <<>>)
    BY DEF ServerNotStranded
  <2>1. spc \notin Past /\ spc \notin Idle /\ deaths = 0 /\ IInv
    BY DEF TurnInv, Counts, Waiting, Past, Idle
  <2>2. creq = sconn
    BY <2>1 DEF TurnInv, Attended
  <2>3. creq # 0 /\ Turn(spc, cstep, conns[creq])
    BY <2>1, <2>2, ServerAt DEF TurnInv, Talking, IInv, Idle
  <2>4. /\ conns[creq] \in Conn /\ cstep \in 1 .. 8 /\ CReq = conns[creq].req
        /\ CReq.kind \in Kinds
        /\ cstep <= Len(Script(CReq.kind)) /\ KindAt(spc, CReq.kind)
    BY <2>1, <2>2, <2>3, RequestAt
  <2> DEFINE c == conns[creq]
  <2>5. Len(c.c2s) = 0 /\ (Len(c.s2c) = 1 => c.s2c # <<>>)
    <3>1. c.c2s = <<>>
      BY <2>2
    <3> HIDE DEF c
    <3>2. \A l : l = <<>> => Len(l) = 0
      OBVIOUS
    <3> QED  BY <3>1, <3>2
  <2>6. CNext.do = "send" <=> (cstep = 1 \/ (CReq.kind = "sign" /\ cstep \in {3, 4, 6}))
    BY <2>4, Steps DEF CNext
  <2>7. spc \in {"tx_cmd", "tx_data", "tx_start"} => CReq.kind = "sign"
    BY <2>4 DEF KindAt, TxStages
  <2> HIDE DEF c
  <2>8. Turn(spc, cstep, c)
    BY <2>3 DEF c
  <2>9. CNext.do = "send" \/ c.s2c # <<>>
    BY <2>1, <2>4, <2>5, <2>6, <2>7, <2>8 DEF Turn, Waiting, Early, Opening, Behind, Awaited
  <2> QED  BY <2>2, <2>9 DEF c
<1> QED  BY <1>1, TurnInvariant, PTL

(* While the server process lives, the client never waits on a connection  *)
(* that the server has closed: every refusal is answered first.            *)
THEOREM ClientAnswered == Spec => []ClientNotStranded
<1>1. TurnInv => ClientNotStranded
  <2> SUFFICES ASSUME TurnInv, creq # 0, conns[creq].s2c = <<>>,
                      ~ conns[creq].sopen, ~ conns[creq].rst
               PROVE  crashes > 0
    BY DEF ClientNotStranded
  <2>1. Settled(cstep, conns[creq]) \/ crashes > 0
    BY DEF TurnInv, Talking
  <2>2. /\ cstep \in 1 .. 8 /\ conns[creq].req.kind \in Kinds
        /\ cstep <= Len(Script(conns[creq].req.kind))
    BY RequestAt DEF TurnInv
  <2>3. Len(Script(conns[creq].req.kind)) \in 1 .. 8
    BY <2>2, ScriptFacts
  <2>4. Len(conns[creq].s2c) = 0
    OBVIOUS
  <2>5. ~ Settled(cstep, conns[creq])
    BY <2>2, <2>3, <2>4 DEF Settled, Refused, Complete
  <2> QED  BY <2>1, <2>5
<1> QED  BY <1>1, TurnInvariant, PTL
====
