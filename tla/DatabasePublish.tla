--------------------------- MODULE DatabasePublish ---------------------------
(***************************************************************************)
(* Zones copied from the NicTool database into the one a nameserver answers *)
(* from: lib/source/mysql.js reads them in three queries that no            *)
(* transaction joins, and lib/publisher/powerdns-db.js writes each in a     *)
(* transaction of MySQL, or lib/publisher/coredns-redis.js in a MULTI sent  *)
(* through lib/resp.js.                                                     *)
(*                                                                         *)
(* Cycle 1 is the transport's, in interval mode; the others are reload()'s. *)
(* The rows of a zone are the number of the last edit they reflect, and in  *)
(* the nameserver's database they are in two parts: the records and         *)
(* notified_serial in PowerDNS, two chunks of labels in Redis.              *)
(*                                                                         *)
(* MySQL undoes what was not committed when a connection is lost, and Redis *)
(* what is queued by a MULTI; both keep the order of a connection.          *)
(***************************************************************************)
EXTENDS Integers, Sequences, FiniteSets

CONSTANTS
  NumZones,      \* the zones there can be
  Kinds,         \* the publishers: "powerdns", "redis"
  NumCycles,     \* publish cycles that can run at a time
  PoolSize,      \* connectionLimit
  MaxEdits,      \* bounds the edits of the zones
  MaxFailures    \* bounds what the databases and the network do wrong

ASSUME DatabasePublishAssumption ==
  /\ NumZones \in Nat
  /\ Kinds \subseteq {"powerdns", "redis"}
  /\ NumCycles \in Nat \ {0}
  /\ PoolSize \in Nat \ {0}
  /\ MaxEdits \in Nat
  /\ MaxFailures \in Nat

Zones  == 1 .. NumZones
Cycles == 1 .. NumCycles
Rows   == LET n == -1 .. MaxEdits IN [serial : n, records : n, ns : n]
None   == [serial |-> -1, records |-> -1, ns |-> -1]

VARIABLES
  kind,
  version,    \* the last edit of each zone, which is also its serial
  active,     \* the zones that are not deleted
  edits, failures,
  cycle,      \* each cycle: where it is, what it has read, the zones to write
  db,         \* both parts of each zone in the nameserver's database
  tx,         \* PowerDNS: the parts as the cycle's transaction has them
  client,     \* Redis: this.client and its socket
  selected,   \* the server has run the connection's SELECT
  pending,    \* _pending
  commands,   \* sent, and not run yet
  multi       \* at the server: what EXEC will make of the zones

storeVars == <<version, active, edits>>
respVars  == <<client, selected, pending, commands, multi>>
vars      == <<kind, storeVars, failures, cycle, db, tx, respVars>>

Waiting  == {"connect", "select", "reply"}
Writing  == {"find", "replace", "insert", "update", "commit"}
Stages   == {"idle", "zones", "records", "ns", "publish"} \cup Waiting \cup Writing
Ops      == {"SELECT", "MULTI", "DEL", "HSET1", "HSET2", "EXEC", "QUIT"}
Idle     == [stage |-> "idle", read |-> [z \in Zones |-> None], todo |-> {}]
Absent   == <<None, None>>
NoTx     == [zone |-> 0, found |-> FALSE, parts |-> Absent]
NoMulti  == [on |-> FALSE, aborted |-> FALSE, zones |-> [z \in Zones |-> Absent]]
NoCycle  == \A c \in Cycles : cycle[c] = Idle

TypeOK ==
  /\ kind \in Kinds
  /\ version \in [Zones -> 0 .. MaxEdits]
  /\ active \in SUBSET Zones
  /\ edits \in 0 .. MaxEdits
  /\ failures \in 0 .. MaxFailures
  /\ cycle \in [Cycles -> [stage : Stages, read : [Zones -> Rows], todo : SUBSET Zones]]
  /\ db \in [Zones -> Rows \X Rows]
  /\ tx \in [Cycles -> [zone : {0} \cup Zones, found : BOOLEAN, parts : Rows \X Rows]]
  /\ \A c \in Cycles :
       /\ cycle[c].stage \in Writing \cup {"reply"} => cycle[c].todo # {}
       /\ (tx[c] # NoTx) <=> cycle[c].stage \in Writing
  /\ client \in {"none", "connecting", "open", "dead", "closed", "quitting", "stuck"}
  /\ selected \in BOOLEAN
  /\ pending \in Seq([op : Ops, by : 0 .. NumCycles, live : BOOLEAN])
  /\ commands \in Seq([op : Ops, by : 0 .. NumCycles, zone : {0} \cup Zones, rows : Rows])
  /\ multi \in [on : BOOLEAN, aborted : BOOLEAN, zones : [Zones -> Rows \X Rows]]
  /\ kind = "powerdns" => client = "none" /\ pending = <<>>

Init ==
  /\ kind \in Kinds
  /\ version = [z \in Zones |-> 0]
  /\ active \in {{}, Zones}
  /\ edits = 0
  /\ failures = 0
  /\ cycle = [c \in Cycles |-> Idle]
  /\ db = [z \in Zones |-> Absent]
  /\ tx = [c \in Cycles |-> NoTx]
  /\ client = "none"
  /\ selected = FALSE
  /\ pending = <<>>
  /\ commands = <<>>
  /\ multi = NoMulti

-----------------------------------------------------------------------------
(* Mutants of the definitions below, for the runs of PROJECT.json.          *)
Column_RecordsFirst(s) ==
  CASE s = "zones" -> "records" [] s = "records" -> "serial" [] s = "ns" -> "ns"

Commands_NoMulti(c, z) ==
  [i \in 1 .. 3 |-> [op |-> <<"DEL", "HSET1", "HSET2">>[i], by |-> c, zone |-> z,
                     rows |-> cycle[c].read[z]]]

Release_Omitted(c) == UNCHANGED tx

Waiters_OfRejected(c) == SelectSeq(Tail(pending), LAMBDA w : w.by # c)

Goto(c, stage) == cycle' = [cycle EXCEPT ![c].stage = stage]

(* The cycle ends, in whatever state its writes are.                        *)
End(c) == cycle' = [cycle EXCEPT ![c] = Idle]

(* The zones are written in an order of their own, one at a time.           *)
Zone(c) == CHOOSE z \in cycle[c].todo : TRUE

(* A zone is written: publish() goes on with the next.                      *)
NextZone(c) ==
  cycle' = [cycle EXCEPT ![c] = [stage |-> "publish", todo |-> @.todo \ {Zone(c)},
                                 read  |-> [@.read EXCEPT ![Zone(c)] = None]]]

Failure ==
  /\ failures < MaxFailures
  /\ failures' = failures + 1

-----------------------------------------------------------------------------
(* The source.                                                              *)
Begin(c) ==
  /\ cycle[c].stage = "idle"
  /\ client \notin {"quitting", "stuck"}
  /\ Goto(c, "zones")
  /\ UNCHANGED <<kind, storeVars, failures, db, tx, respVars>>

(* What each of the three queries reads, for the zones that the first found.*)
Column(s) ==
  CASE s = "zones" -> "serial" [] s = "records" -> "records" [] s = "ns" -> "ns"

NextQuery(s) ==
  CASE s = "zones" -> "records" [] s = "records" -> "ns" [] s = "ns" -> "publish"

QueryDone(c) ==
  /\ cycle[c].stage \in {"zones", "records", "ns"}
  /\ LET s     == cycle[c].stage
         found == IF s = "zones" THEN active ELSE cycle[c].todo
     IN  cycle' = [cycle EXCEPT ![c] =
           [stage |-> IF found = {} THEN "publish" ELSE NextQuery(s),
            read  |-> [z \in Zones |->
                         IF z \in found THEN [@.read[z] EXCEPT ![Column(s)] = version[z]]
                         ELSE None],
            todo  |-> found]]
  /\ UNCHANGED <<kind, storeVars, failures, db, tx, respVars>>

QueryFailed(c) ==
  /\ cycle[c].stage \in {"zones", "records", "ns"}
  /\ Failure
  /\ End(c)
  /\ UNCHANGED <<kind, storeVars, db, tx, respVars>>

-----------------------------------------------------------------------------
(* What a statement or a command makes of the two parts of a zone.          *)
Applied(op, parts, rows) ==
  CASE op = "delete" -> <<None, parts[2]>>
    [] op \in {"insert", "HSET1"} -> <<rows, parts[2]>>
    [] op \in {"update", "HSET2"} -> <<parts[1], rows>>
    [] op = "DEL" -> Absent

(* publish() has written every zone, after connect().                       *)
Published(c) ==
  /\ cycle[c].stage = "publish"
  /\ cycle[c].todo = {}
  /\ kind = "powerdns" \/ client # "none"
  /\ End(c)
  /\ UNCHANGED <<kind, storeVars, failures, db, tx, respVars>>

(* PowerDNS. A connection of the pool, waited for in turn; BEGIN.           *)
InUse   == {c \in Cycles : tx[c] # NoTx}

GetConnection(c) ==
  /\ kind = "powerdns"
  /\ cycle[c].stage = "publish"
  /\ cycle[c].todo # {}
  /\ Cardinality(InUse) < PoolSize
  /\ tx' = [tx EXCEPT ![c] = [NoTx EXCEPT !.zone = Zone(c)]]
  /\ Goto(c, "find")
  /\ UNCHANGED <<kind, storeVars, failures, db, respVars>>

(* A new connection cannot be made: publish() rejects, and the cycle ends.   *)
GetConnectionFailed(c) ==
  /\ kind = "powerdns"
  /\ cycle[c].stage = "publish"
  /\ cycle[c].todo # {}
  /\ Cardinality(InUse) < PoolSize
  /\ Failure
  /\ End(c)
  /\ UNCHANGED <<kind, storeVars, db, tx, respVars>>

(* SELECT id FROM domains                                                   *)
Found(z) == db[z] # Absent

FindDomain(c) ==
  /\ cycle[c].stage = "find"
  /\ tx' = [tx EXCEPT ![c].found = Found(Zone(c))]
  /\ Goto(c, "replace")
  /\ UNCHANGED <<kind, storeVars, failures, db, respVars>>

Locked(c) ==
  \E d \in Cycles \ {c} :
    tx[d].zone = Zone(c) /\ cycle[d].stage \in {"insert", "update", "commit"}

(* INSERT INTO domains, unless it was found, and DELETE FROM records: both  *)
(* wait for a transaction that writes the same rows.                        *)
ReplaceDomain(c) ==
  /\ cycle[c].stage = "replace"
  /\ ~Locked(c)
  /\ tx[c].found \/ db[Zone(c)] = Absent
  /\ tx' = [tx EXCEPT ![c].parts = Applied("delete", db[Zone(c)], None)]
  /\ Goto(c, "insert")
  /\ UNCHANGED <<kind, storeVars, failures, db, respVars>>

(* INSERT INTO records, and UPDATE domains SET notified_serial              *)
Write(c) ==
  /\ cycle[c].stage \in {"insert", "update"}
  /\ tx' = [tx EXCEPT ![c].parts = Applied(cycle[c].stage, @, cycle[c].read[Zone(c)])]
  /\ Goto(c, IF cycle[c].stage = "insert" THEN "update" ELSE "commit")
  /\ UNCHANGED <<kind, storeVars, failures, db, respVars>>

(* conn.release()                                                           *)
Release(c) == tx' = [tx EXCEPT ![c] = NoTx]

Commit(c) ==
  /\ cycle[c].stage = "commit"
  /\ db' = [db EXCEPT ![Zone(c)] = tx[c].parts]
  /\ Release(c)
  /\ NextZone(c)
  /\ UNCHANGED <<kind, storeVars, failures, respVars>>

(* A statement fails: rollback, release, and the cycle ends. A COMMIT that  *)
(* fails may have been done. The domain that FindDomain did not find and a  *)
(* transaction has inserted since is a duplicate.                           *)
WriteFailed(c) ==
  /\ cycle[c].stage \in Writing
  /\ \/ Failure
     \/ /\ cycle[c].stage = "replace" /\ ~Locked(c)
        /\ ~tx[c].found /\ db[Zone(c)] # Absent
        /\ UNCHANGED failures
  /\ db' \in {db} \cup (IF cycle[c].stage = "commit"
                        THEN {[db EXCEPT ![Zone(c)] = tx[c].parts]} ELSE {})
  /\ Release(c)
  /\ End(c)
  /\ UNCHANGED <<kind, storeVars, respVars>>

-----------------------------------------------------------------------------
(* Redis. The commands that write a zone, in one pipeline.                  *)
Command(op, c, z) == [op |-> op, by |-> c, zone |-> z, rows |-> cycle[c].read[z]]

Commands(c, z) ==
  <<Command("MULTI", c, z), Command("DEL", c, z), Command("HSET1", c, z),
    Command("HSET2", c, z), Command("EXEC", c, z)>>

Control(op, c) == [op |-> op, by |-> c, zone |-> 0, rows |-> None]
Waiter(cmd)    == [op |-> cmd.op, by |-> cmd.by, live |-> TRUE]

(* pipeline(): a waiter for each command, and one write to the socket,      *)
(* which does nothing when the socket has been closed.                      *)
Pipeline(cmds) ==
  /\ pending' = pending \o [i \in DOMAIN cmds |-> Waiter(cmds[i])]
  /\ commands' = IF client = "open" THEN commands \o cmds ELSE commands

(* connect() of the publisher makes the client, and the client its socket.  *)
Connect(c) ==
  /\ kind = "redis"
  /\ cycle[c].stage = "publish"
  /\ client = "none"
  /\ client' = "connecting"
  /\ Goto(c, "connect")
  /\ UNCHANGED <<kind, storeVars, failures, db, tx, selected, pending, commands, multi>>

(* The socket is there, and SELECT is sent on it.                           *)
Connected(c) ==
  /\ cycle[c].stage = "connect"
  /\ client' = "open"
  /\ pending' = <<Waiter(Control("SELECT", c))>>
  /\ commands' = <<Control("SELECT", c)>>
  /\ Goto(c, "select")
  /\ UNCHANGED <<kind, storeVars, failures, db, tx, selected, multi>>

(* It is not: the client stays, without a socket.                           *)
ConnectFailed(c) ==
  /\ cycle[c].stage = "connect"
  /\ Failure
  /\ client' = "dead"
  /\ End(c)
  /\ UNCHANGED <<kind, storeVars, db, tx, selected, pending, commands, multi>>

WriteZone(c) ==
  /\ kind = "redis"
  /\ cycle[c].stage = "publish"
  /\ cycle[c].todo # {}
  /\ client \in {"open", "closed"}
  /\ Pipeline(Commands(c, Zone(c)))
  /\ Goto(c, "reply")
  /\ UNCHANGED <<kind, storeVars, failures, db, tx, client, selected, multi>>

(* pipeline() without a socket throws "not connected".                      *)
NotConnected(c) ==
  /\ cycle[c].stage = "publish"
  /\ cycle[c].todo # {}
  /\ client \in {"connecting", "dead"}
  /\ End(c)
  /\ UNCHANGED <<kind, storeVars, failures, db, tx, respVars>>

(* The server has run a command. Between MULTI and EXEC what it writes is   *)
(* put aside, and no other connection writes. Before SELECT it writes to    *)
(* another database than the configured one.                                *)
IsWrite(cmd) == cmd.op \in {"DEL", "HSET1", "HSET2"}
Server       == [db |-> db, multi |-> multi, selected |-> selected]

Written(zones, cmd) ==
  [zones EXCEPT ![cmd.zone] = Applied(cmd.op, @, cmd.rows)]

Executed(s, cmd) ==
  [db |-> CASE s.multi.on /\ cmd.op = "EXEC" /\ ~s.multi.aborted -> s.multi.zones
            [] ~s.multi.on /\ IsWrite(cmd) /\ s.selected -> Written(s.db, cmd)
            [] OTHER -> s.db,
   multi |-> CASE cmd.op = "MULTI" -> [on |-> TRUE, aborted |-> FALSE, zones |-> s.db]
               [] cmd.op = "EXEC"  -> NoMulti
               [] s.multi.on /\ IsWrite(cmd) /\ s.selected ->
                    [s.multi EXCEPT !.zones = Written(@, cmd)]
               [] OTHER -> s.multi,
   selected |-> s.selected \/ cmd.op = "SELECT"]

(* The waiters that are left when a command of c is rejected: its pipeline  *)
(* has failed, and nobody looks at the replies to the rest of it.           *)
Waiters(c) ==
  [i \in DOMAIN Tail(pending) |->
     LET w == Tail(pending)[i] IN [w EXCEPT !.live = @ /\ w.by # c]]

(* A reply settles the first waiter, and with the last reply, or a          *)
(* rejection, the call that made the pipeline goes on.                      *)
OnReply(ok) ==
  LET w    == Head(pending)
      last == ~\E i \in 2 .. Len(pending) : pending[i].live /\ pending[i].by = w.by
  IN  /\ pending' = IF w.live /\ ~ok THEN Waiters(w.by) ELSE Tail(pending)
      /\ client' = IF w.op = "QUIT" THEN "none" ELSE client
      /\ \/ (w.op = "QUIT" \/ ~w.live \/ (ok /\ ~last)) /\ UNCHANGED cycle
         \/ /\ w.op # "QUIT" /\ w.live
            /\ \/ ~ok /\ End(w.by)
               \/ ok /\ last /\ w.op = "SELECT" /\ Goto(w.by, "publish")
               \/ ok /\ last /\ w.op # "SELECT" /\ NextZone(w.by)

(* A command is run and its reply is read. What is between the two matters  *)
(* only to a connection that is lost there.                                 *)
RunCommand ==
  /\ commands # <<>>
  /\ commands' = Tail(commands)
  /\ LET s == Executed(Server, Head(commands))
     IN  /\ db' = s.db
         /\ multi' = s.multi
         /\ selected' = (s.selected /\ Head(commands).op # "QUIT")
  /\ OnReply(~(Head(commands).op = "EXEC" /\ multi.aborted))
  /\ UNCHANGED <<kind, storeVars, failures, tx>>

(* The server refuses it, and the EXEC that follows.                        *)
RefuseCommand ==
  /\ commands # <<>>
  /\ Head(commands).op = "SELECT" \/ IsWrite(Head(commands))
  /\ Failure
  /\ commands' = Tail(commands)
  /\ multi' = [multi EXCEPT !.aborted = multi.on]
  /\ OnReply(FALSE)
  /\ UNCHANGED <<kind, storeVars, db, tx, selected>>

(* The server when it has run the first n of the commands.                  *)
After[n \in 0 .. Len(commands)] ==
  IF n = 0 THEN Server ELSE Executed(After[n - 1], commands[n])

(* The connection is lost, when the server has run some of what it was      *)
(* sent: _failAll() rejects every waiter, and the socket stays in its place.*)
ConnectionLost ==
  /\ client \in {"open", "quitting"}
  /\ Failure
  /\ \E n \in 0 .. Len(commands) : db' = After[n].db
  /\ client' = IF client = "open" THEN "closed" ELSE "none"
  /\ cycle' = [c \in Cycles |-> IF cycle[c].stage \in {"select", "reply"} THEN Idle ELSE cycle[c]]
  /\ pending' = <<>>
  /\ commands' = <<>>
  /\ multi' = NoMulti
  /\ selected' = FALSE
  /\ UNCHANGED <<kind, storeVars, tx>>

(* The nameserver stops between two cycles, to start again: disconnect()    *)
(* awaits the reply to QUIT.                                                *)
Disconnect ==
  /\ NoCycle
  /\ client \in {"open", "closed", "dead"}
  /\ client' = CASE client = "dead" -> "none" [] client = "open" -> "quitting"
                 [] client = "closed" -> "stuck"
  /\ IF client = "dead" THEN UNCHANGED <<pending, commands>>
     ELSE Pipeline(<<Control("QUIT", 0)>>)
  /\ UNCHANGED <<kind, storeVars, failures, cycle, db, tx, selected, multi>>

-----------------------------------------------------------------------------
(* A zone is made or changed, its serial with it, or deleted.               *)
Edit(z) ==
  /\ edits < MaxEdits
  /\ edits' = edits + 1
  /\ \/ version' = [version EXCEPT ![z] = edits + 1] /\ active' = active \cup {z}
     \/ z \in active /\ active' = active \ {z} /\ UNCHANGED version
  /\ UNCHANGED <<kind, failures, cycle, db, tx, respVars>>

Queue(c) == GetConnection(c) \/ ReplaceDomain(c)

Step(c) ==
  \/ QueryDone(c) \/ Published(c)
  \/ FindDomain(c) \/ Write(c) \/ Commit(c) \/ WriteFailed(c)
  \/ Connect(c) \/ Connected(c) \/ WriteZone(c) \/ NotConnected(c)

Next ==
  \/ \E z \in Zones : Edit(z)
  \/ \E c \in Cycles :
       \/ Begin(c) \/ Queue(c) \/ Step(c)
       \/ QueryFailed(c) \/ GetConnectionFailed(c) \/ ConnectFailed(c)
  \/ RunCommand \/ RefuseCommand \/ ConnectionLost \/ Disconnect

(* The interval begins cycles and each step of a cycle ends; the pool and   *)
(* the lock of a row are queues; Redis runs what it is sent, and answers.   *)
Spec ==
  /\ Init /\ [][Next]_vars
  /\ WF_vars(Begin(1))
  /\ \A c \in Cycles : WF_vars(Step(c)) /\ SF_vars(GetConnection(c)) /\ SF_vars(ReplaceDomain(c))
  /\ WF_vars(RunCommand)

-----------------------------------------------------------------------------
(* The nameserver answers from one publication of a zone or from none,      *)
(* whatever statement or command failed: "a failure part-way leaves         *)
(* PowerDNS serving the previous contents rather than a half-written zone"  *)
(* (powerdns-db.js:30-31), "a query landing mid-publish sees the old        *)
(* contents" (coredns-redis.js:21-22).                                      *)
WholeZone == \A z \in Zones : db[z][1] = db[z][2]

(* Whoever has the zone at a serial has all edits up to it: the three       *)
(* queries may see different states, but never records or nameservers older *)
(* than the serial they are published with (mysql.js:72-133).               *)
SerialCovered ==
  \A z \in Zones : LET d == db[z][1] IN d.records >= d.serial /\ d.ns >= d.serial

(* Each reply will reach the waiter of its command, after any rejection     *)
(* (resp.js:83-85, "ordering is the only correlation available").           *)
InStep ==
  client \in {"open", "quitting"} =>
    /\ Len(pending) = Len(commands)
    /\ \A i \in 1 .. Len(commands) :
         pending[i].op = commands[i].op /\ pending[i].by = commands[i].by

(* The client is of no use any more: nothing makes another one.             *)
Broken ==
  \/ client \in {"dead", "closed", "stuck"}
  \/ client = "open" /\ ~selected /\ ~\E i \in DOMAIN pending : pending[i].op = "SELECT"

(* When edits and failures have ended, what is served becomes and stays     *)
(* what the store has of each zone, after any failure of PowerDNS's         *)
(* database, and for Redis unless the client is broken.                     *)
Converges ==
  <>[](\A z \in active :
         db[z] = [i \in 1 .. 2 |-> [serial |-> version[z], records |-> version[z],
                                    ns |-> version[z]]])
  \/ <>[]Broken
==============================================================================
