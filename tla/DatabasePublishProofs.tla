------------------------- MODULE DatabasePublishProofs -------------------------
(***************************************************************************)
(* Proofs about DatabasePublish, for any number of zones, cycles,           *)
(* connections, edits and failures, for both publishers.                    *)
(*                                                                         *)
(* The parts of the invariant are, of a cycle,                              *)
(*   ReadCovers        what it has read so far has the edits its serial     *)
(*                     claims, or will have them with the queries to come;  *)
(*   TransactionWhole  how much of the zone its transaction has written;    *)
(* of the connection to Redis,                                              *)
(*   WaitersCalled     whose cycle each waiter holds up, and at which stage;*)
(*   SentWhole         commands are whole pipelines, one after the other;   *)
(*   OnlyWhenOpen      nothing is on its way on a connection that is lost;  *)
(*   MultiFits         the next command finds the server in the middle of   *)
(*                     the pipeline that it belongs to.                     *)
(***************************************************************************)
EXTENDS DatabasePublish, WellFoundedInduction, TLAPS

Whole(parts) == parts[1] = parts[2]
Covered(r)   == r.records >= r.serial /\ r.ns >= r.serial

VersionsCounted == \A z \in Zones : version[z] <= edits

ReadCovers(c) ==
  \A z \in Zones :
    LET r == cycle[c].read[z]
    IN  /\ cycle[c].stage = "records" => r.serial <= version[z]
        /\ cycle[c].stage = "ns" => r.serial <= version[z] /\ r.records >= r.serial
        /\ cycle[c].stage \notin {"zones", "records", "ns"} => Covered(r)

TransactionWhole(c) ==
  /\ cycle[c].stage \in Writing => tx[c].zone # 0
  /\ Covered(tx[c].parts[1])
  /\ cycle[c].stage = "update" => tx[c].parts[1] = cycle[c].read[Zone(c)]
  /\ cycle[c].stage = "commit" => Whole(tx[c].parts)

CycleFits(c) ==
  /\ cycle[c].stage \in Writing \cup {"reply"} => cycle[c].todo # {}
  /\ (tx[c] # NoTx) <=> cycle[c].stage \in Writing
  /\ ReadCovers(c)
  /\ TransactionWhole(c)
  /\ kind = "redis" => tx[c] = NoTx

WaitersCalled ==
  \A i \in 1 .. Len(pending) :
    /\ pending[i].op # "QUIT" => pending[i].by # 0
    /\ pending[i].op = "SELECT" => i = 1
    /\ pending[i].live /\ pending[i].op # "QUIT" =>
         cycle[pending[i].by].stage = IF pending[i].op = "SELECT" THEN "select" ELSE "reply"

Follower(op) ==
  CASE op = "MULTI" -> "DEL" [] op = "DEL" -> "HSET1" [] op = "HSET1" -> "HSET2"
    [] op = "HSET2" -> "EXEC"

PipelinesIn(cmds) ==
  \A i \in 1 .. Len(cmds) :
    /\ Covered(cmds[i].rows)
    /\ cmds[i].op \in {"MULTI", "DEL", "HSET1", "HSET2"} =>
         /\ i < Len(cmds) /\ cmds[i].zone \in Zones
         /\ cmds[i + 1].op = Follower(cmds[i].op)
         /\ cmds[i + 1].zone = cmds[i].zone
         /\ cmds[i + 1].rows = cmds[i].rows
    /\ cmds[i].op \in {"SELECT", "EXEC"} /\ i < Len(cmds) =>
         cmds[i + 1].op \in {"MULTI", "QUIT"}
    /\ cmds[i].op = "QUIT" => i = Len(cmds)

SentWhole ==
  /\ PipelinesIn(commands)
  /\ \A i \in 1 .. Len(commands) : commands[i].op = "QUIT" => client = "quitting"

OnlyWhenOpen == client \notin {"open", "quitting"} => commands = <<>>

(* The server s, when it has run the first k of the commands.               *)
DbFits(s)   == \A z \in Zones : Whole(s.db[z]) /\ Covered(s.db[z][1])

MultiFits(s, k) ==
  /\ \A z \in Zones : Covered(s.multi.zones[z][1])
  /\ s.multi.on <=> /\ k < Len(commands)
                    /\ commands[k + 1].op \in {"DEL", "HSET1", "HSET2", "EXEC"}
  /\ s.multi.on /\ ~s.multi.aborted =>
       \A z \in Zones :
         IF commands[k + 1].op = "HSET2" /\ commands[k + 1].zone = z /\ s.selected
         THEN s.multi.zones[z][1] = commands[k + 1].rows
         ELSE Whole(s.multi.zones[z])

(* One cycle at a time makes the connection.                                *)
ConnectOnce ==
  \A c \in Cycles : cycle[c].stage = "connect" =>
    /\ client = "connecting"
    /\ \A d \in Cycles : cycle[d].stage = "connect" => d = c

Connection ==
  /\ ConnectOnce
  /\ WaitersCalled
  /\ SentWhole
  /\ OnlyWhenOpen
  /\ InStep
  /\ MultiFits(Server, 0)

IInv ==
  /\ TypeOK
  /\ VersionsCounted
  /\ \A c \in Cycles : CycleFits(c)
  /\ DbFits(Server)
  /\ Connection

-----------------------------------------------------------------------------
CycleRecords == [stage : Stages, read : [Zones -> Rows], todo : SUBSET Zones]
TxRecords    == [zone : {0} \cup Zones, found : BOOLEAN, parts : Rows \X Rows]
States       == [db : [Zones -> Rows \X Rows], selected : BOOLEAN,
                 multi : [on : BOOLEAN, aborted : BOOLEAN, zones : [Zones -> Rows \X Rows]]]

(* What is not there claims no edit.                                        *)
LEMMA NoneCovers == None \in Rows /\ Covered(None)
<1>1. -1 \in -1 .. MaxEdits
  BY DatabasePublishAssumption DEF DatabasePublishAssumption
<1> QED
  BY <1>1 DEF None, Rows, Covered

LEMMA Zeros == 0 \notin Zones /\ 0 \notin Cycles /\ NoTx \in TxRecords /\ Idle \in CycleRecords
<1>1. 0 \notin Zones /\ 0 \notin Cycles
  BY DatabasePublishAssumption DEF DatabasePublishAssumption, Zones, Cycles
<1>2. NoTx \in TxRecords
  BY NoneCovers DEF NoTx, TxRecords, Absent
<1>3. Idle \in CycleRecords
  BY NoneCovers DEF Idle, CycleRecords, Stages
<1> QED
  BY <1>1, <1>2, <1>3

(* The next zone is one that is left to write.                              *)
LEMMA ZoneIsLeft ==
  ASSUME NEW c \in Cycles, cycle \in [Cycles -> CycleRecords], cycle[c].todo # {}
  PROVE  Zone(c) \in Zones /\ Zone(c) \in cycle[c].todo
<1>1. Zone(c) \in cycle[c].todo
  BY DEF Zone
<1>2. cycle[c].todo \subseteq Zones
  BY DEF CycleRecords
<1> QED
  BY <1>1, <1>2

(* What the three ways to go on do to the cycle.                            *)
LEMMA GotoFacts ==
  ASSUME cycle \in [Cycles -> CycleRecords], NEW c \in Cycles, NEW s \in Stages, Goto(c, s)
  PROVE  /\ cycle' \in [Cycles -> CycleRecords]
         /\ cycle'[c].stage = s
         /\ cycle'[c].read = cycle[c].read
         /\ cycle'[c].todo = cycle[c].todo
         /\ \A d \in Cycles \ {c} : cycle'[d] = cycle[d]
BY DEF Goto, CycleRecords

LEMMA EndFacts ==
  ASSUME cycle \in [Cycles -> CycleRecords], NEW c \in Cycles, End(c)
  PROVE  /\ cycle' \in [Cycles -> CycleRecords]
         /\ cycle'[c] = Idle
         /\ \A d \in Cycles \ {c} : cycle'[d] = cycle[d]
BY Zeros DEF End

LEMMA NextZoneFacts ==
  ASSUME cycle \in [Cycles -> CycleRecords], NEW c \in Cycles, NextZone(c)
  PROVE  /\ cycle' \in [Cycles -> CycleRecords]
         /\ cycle'[c].stage = "publish"
         /\ \A z \in Zones : cycle'[c].read[z] \in {cycle[c].read[z], None}
         /\ \A d \in Cycles \ {c} : cycle'[d] = cycle[d]
<1> DEFINE r == [stage |-> "publish", todo |-> cycle[c].todo \ {Zone(c)},
                 read  |-> [cycle[c].read EXCEPT ![Zone(c)] = None]]
<1>1. cycle[c].read \in [Zones -> Rows] /\ cycle[c].todo \subseteq Zones
  BY DEF CycleRecords
<1>2. [cycle[c].read EXCEPT ![Zone(c)] = None] \in [Zones -> Rows]
  BY <1>1, NoneCovers
<1>3. \A z \in Zones : [cycle[c].read EXCEPT ![Zone(c)] = None][z] \in {cycle[c].read[z], None}
  BY <1>1
<1>4. "publish" \in Stages
  BY DEF Stages
<1>5. r \in CycleRecords
  BY <1>1, <1>2, <1>4 DEF CycleRecords
<1>6. cycle' = [cycle EXCEPT ![c] = r]
  BY DEF NextZone
<1>7. r.stage = "publish" /\ r.read = [cycle[c].read EXCEPT ![Zone(c)] = None]
  OBVIOUS
<1> HIDE DEF r
<1>8. cycle' \in [Cycles -> CycleRecords] /\ cycle'[c] = r
  BY <1>5, <1>6
<1>9. \A d \in Cycles \ {c} : cycle'[d] = cycle[d]
  BY <1>6
<1> QED
  BY <1>3, <1>7, <1>8, <1>9

-----------------------------------------------------------------------------
(* A cycle that did not move fits as it did.                                *)
LEMMA CycleKept ==
  ASSUME NEW d \in Cycles, CycleFits(d), cycle'[d] = cycle[d], tx'[d] = tx[d],
         UNCHANGED <<kind, version>>
  PROVE  CycleFits(d)'
<1>1. Zone(d)' = Zone(d)
  BY DEF Zone
<1>2. ReadCovers(d)'
  BY DEF CycleFits, ReadCovers, Covered
<1>3. TransactionWhole(d)'
  BY <1>1 DEF CycleFits, TransactionWhole, Covered, Whole
<1> QED
  BY <1>2, <1>3 DEF CycleFits

(* A step of one cycle, that leaves the zones of the store alone, keeps the *)
(* invariant if that cycle, the served zones and the connection fit again.  *)
LEMMA OneCycleMoves ==
  ASSUME IInv, NEW c \in Cycles, UNCHANGED <<kind, storeVars>>,
         failures' \in 0 .. MaxFailures,
         cycle' \in [Cycles -> CycleRecords],
         \A d \in Cycles \ {c} : cycle'[d] = cycle[d],
         tx' \in [Cycles -> TxRecords],
         \A d \in Cycles \ {c} : tx'[d] = tx[d],
         CycleFits(c)'
  PROVE  /\ VersionsCounted'
         /\ kind' \in Kinds
         /\ version' \in [Zones -> 0 .. MaxEdits]
         /\ active' \in SUBSET Zones
         /\ edits' \in 0 .. MaxEdits
         /\ \A d \in Cycles : CycleFits(d)'
<1>1. \A d \in Cycles : CycleFits(d)'
  <2> TAKE d \in Cycles
  <2>1. CASE d = c
    BY <2>1
  <2>2. CASE d # c
    BY <2>2, CycleKept DEF IInv, storeVars
  <2> QED
    BY <2>1, <2>2
<1> QED
  BY <1>1, Zenon DEF IInv, TypeOK, VersionsCounted, storeVars

(* What is in the two queues of the connection.                             *)
WaiterRecords  == [op : Ops, by : 0 .. NumCycles, live : BOOLEAN]
CommandRecords == [op : Ops, by : 0 .. NumCycles, zone : {0} \cup Zones, rows : Rows]

LEMMA WaiterTypes ==
  ASSUME IInv
  PROVE  /\ pending \in Seq(WaiterRecords) /\ commands \in Seq(CommandRecords)
         /\ \A i \in 1 .. Len(pending) :
              /\ pending[i] \in WaiterRecords
              /\ pending[i].by \in 0 .. NumCycles
              /\ pending[i].by # 0 => pending[i].by \in Cycles
         /\ \A i \in 1 .. Len(commands) : commands[i] \in CommandRecords
<1>1. pending \in Seq(WaiterRecords) /\ commands \in Seq(CommandRecords)
  BY DEF IInv, TypeOK, WaiterRecords, CommandRecords
<1>2. \A i \in 1 .. Len(pending) : pending[i] \in WaiterRecords
  BY <1>1
<1>3. \A i \in 1 .. Len(commands) : commands[i] \in CommandRecords
  BY <1>1
<1>4. \A w \in WaiterRecords : w.by \in 0 .. NumCycles
  BY DEF WaiterRecords
<1>5. \A b \in 0 .. NumCycles : b # 0 => b \in Cycles
  BY DatabasePublishAssumption DEF DatabasePublishAssumption, Cycles
<1> QED
  BY <1>1, <1>2, <1>3, <1>4, <1>5

(* The waiters are left alone by a cycle that has none.                     *)
LEMMA WaitersKept ==
  ASSUME IInv, NEW c \in Cycles, cycle[c].stage \notin {"select", "reply"},
         \A d \in Cycles \ {c} : cycle'[d] = cycle[d],
         UNCHANGED pending
  PROVE  WaitersCalled'
<1> SUFFICES ASSUME NEW i \in 1 .. Len(pending)
             PROVE  /\ pending[i].op # "QUIT" => pending[i].by # 0
                    /\ pending[i].op = "SELECT" => i = 1
                    /\ pending[i].live /\ pending[i].op # "QUIT" =>
                         cycle'[pending[i].by].stage =
                           IF pending[i].op = "SELECT" THEN "select" ELSE "reply"
  BY DEF WaitersCalled
<1>1. /\ pending[i].op # "QUIT" => pending[i].by # 0
      /\ pending[i].op = "SELECT" => i = 1
      /\ pending[i].live /\ pending[i].op # "QUIT" =>
           cycle[pending[i].by].stage =
             IF pending[i].op = "SELECT" THEN "select" ELSE "reply"
  BY DEF IInv, Connection, WaitersCalled
<1>2. pending[i].by # 0 => pending[i].by \in Cycles
  BY WaiterTypes
<1> QED
  BY <1>1, <1>2

(* While the connection is left alone it fits, if the cycle that moves is   *)
(* none that awaits a reply.                                                *)
LEMMA ConnectionKept ==
  ASSUME IInv, NEW c \in Cycles, cycle[c].stage \notin {"select", "reply"},
         cycle'[c].stage # "connect",
         \A d \in Cycles \ {c} : cycle'[d] = cycle[d],
         UNCHANGED respVars
  PROVE  Connection'
<1>1. UNCHANGED <<client, selected, pending, commands, multi>>
  BY DEF respVars
<1>2. WaitersCalled'
  BY <1>1, WaitersKept
<1>3. SentWhole' /\ OnlyWhenOpen' /\ InStep'
  BY <1>1 DEF IInv, Connection, SentWhole, PipelinesIn, Covered, OnlyWhenOpen, InStep
<1>4. MultiFits(Server, 0)'
  BY <1>1 DEF IInv, Connection, MultiFits, Server, Covered, Whole
<1>5. ConnectOnce'
  BY <1>1 DEF IInv, Connection, ConnectOnce
<1> QED
  BY <1>2, <1>3, <1>4, <1>5 DEF Connection

(* So for the steps of a cycle outside Redis it is enough to look at the    *)
(* cycle and at what is served.                                             *)
LEMMA CycleStep ==
  ASSUME IInv, NEW c \in Cycles, cycle[c].stage \notin {"select", "reply"},
         cycle'[c].stage # "connect",
         UNCHANGED <<kind, storeVars, respVars>>,
         failures' \in 0 .. MaxFailures,
         cycle' \in [Cycles -> CycleRecords],
         \A d \in Cycles \ {c} : cycle'[d] = cycle[d],
         tx' \in [Cycles -> TxRecords],
         \A d \in Cycles \ {c} : tx'[d] = tx[d],
         db' \in [Zones -> Rows \X Rows],
         CycleFits(c)', DbFits(Server)'
  PROVE  IInv'
<1>1. Connection'
  BY ConnectionKept
<1>2. /\ VersionsCounted'
      /\ kind' \in Kinds
      /\ version' \in [Zones -> 0 .. MaxEdits]
      /\ active' \in SUBSET Zones
      /\ edits' \in 0 .. MaxEdits
      /\ \A d \in Cycles : CycleFits(d)'
  BY OneCycleMoves
<1>3. UNCHANGED <<client, selected, pending, commands, multi, kind>>
  BY DEF respVars
<1>4. TypeOK'
  BY <1>2, <1>3, Zenon DEF IInv, TypeOK, CycleFits, CycleRecords, TxRecords
<1> QED
  BY <1>1, <1>2, <1>4 DEF IInv

(* A failure is counted.                                                    *)
LEMMA FailureCounted ==
  failures \in 0 .. MaxFailures /\ (Failure \/ UNCHANGED failures)
    => failures' \in 0 .. MaxFailures
BY DatabasePublishAssumption DEF DatabasePublishAssumption, Failure

(* A cycle that has ended has nothing to do.                                *)
LEMMA IdleFits ==
  ASSUME IInv, NEW c \in Cycles, cycle'[c] = Idle, tx'[c] = NoTx
  PROVE  CycleFits(c)'
<1>1. \A z \in Zones : Idle.read[z] = None
  BY DEF Idle
<1>2. Idle.stage = "idle"
  BY DEF Idle
<1>3. NoTx.parts[1] = None
  BY DEF NoTx, Absent
<1> QED
  BY <1>1, <1>2, <1>3, NoneCovers
     DEF CycleFits, ReadCovers, TransactionWhole, Writing, Covered

(* The facts about a cycle that the steps below start from.                 *)
LEMMA CycleTypes ==
  ASSUME IInv, NEW c \in Cycles
  PROVE  /\ cycle \in [Cycles -> CycleRecords]
         /\ tx \in [Cycles -> TxRecords]
         /\ db \in [Zones -> Rows \X Rows]
         /\ version \in [Zones -> 0 .. MaxEdits]
         /\ failures \in 0 .. MaxFailures
         /\ CycleFits(c)
         /\ DbFits(Server)
         /\ cycle[c].stage \notin Writing => tx[c] = NoTx
BY DEF IInv, TypeOK, CycleRecords, TxRecords, CycleFits

-----------------------------------------------------------------------------
(* The steps of a cycle that leave the connection to Redis alone.           *)
LEMMA BeginKeeps == ASSUME IInv, NEW c \in Cycles, Begin(c) PROVE IInv'
<1>1. /\ cycle[c].stage = "idle" /\ Goto(c, "zones")
      /\ UNCHANGED <<kind, storeVars, failures, db, tx, respVars>>
  BY DEF Begin
<1>2. "zones" \in Stages /\ "idle" \notin Writing
  BY DEF Stages, Writing
<1>3. /\ cycle' \in [Cycles -> CycleRecords]
      /\ cycle'[c].stage = "zones" /\ cycle'[c].read = cycle[c].read
      /\ \A d \in Cycles \ {c} : cycle'[d] = cycle[d]
  BY <1>1, <1>2, CycleTypes, GotoFacts
<1>4. tx[c] = NoTx
  BY <1>1, <1>2, CycleTypes
<1>5. CycleFits(c)'
  <2>1. NoTx.parts[1] = None
    BY DEF NoTx, Absent
  <2> QED
    BY <1>1, <1>3, <1>4, <2>1, NoneCovers
       DEF CycleFits, ReadCovers, TransactionWhole, Covered, Writing
<1>6. DbFits(Server)'
  BY <1>1, CycleTypes DEF DbFits, Server, Whole, Covered
<1> QED
  BY <1>1, <1>3, <1>5, <1>6, CycleTypes, CycleStep

LEMMA QueryDoneKeeps == ASSUME IInv, NEW c \in Cycles, QueryDone(c) PROVE IInv'
<1> DEFINE s     == cycle[c].stage
           found == IF s = "zones" THEN active ELSE cycle[c].todo
           r     == [stage |-> IF found = {} THEN "publish" ELSE NextQuery(s),
                     read  |-> [z \in Zones |->
                         IF z \in found
                         THEN [cycle[c].read[z] EXCEPT ![Column(s)] = version[z]] ELSE None],
                     todo  |-> found]
<1>1. /\ s \in {"zones", "records", "ns"}
      /\ cycle' = [cycle EXCEPT ![c] = r]
      /\ UNCHANGED <<kind, storeVars, failures, db, tx, respVars>>
  BY DEF QueryDone
<1>2. cycle[c].read \in [Zones -> Rows] /\ cycle[c].todo \subseteq Zones /\ active \subseteq Zones
  BY CycleTypes DEF CycleRecords, IInv, TypeOK
<1>3. \A z \in Zones : version[z] \in 0 .. MaxEdits /\ cycle[c].read[z] \in Rows
  BY <1>2, CycleTypes
<1>4. r.stage \in {"records", "ns", "publish"}
  BY <1>1 DEF NextQuery
<1>5. \A z \in Zones : r.read[z] \in Rows
  <2> SUFFICES ASSUME NEW z \in Zones PROVE r.read[z] \in Rows
    OBVIOUS
  <2>1. version[z] \in -1 .. MaxEdits
    BY <1>3
  <2>2. [cycle[c].read[z] EXCEPT ![Column(s)] = version[z]] \in Rows
    BY <1>1, <1>3, <2>1 DEF Column, Rows
  <2> QED
    BY <2>2, NoneCovers
<1>6. r \in CycleRecords
  BY <1>2, <1>4, <1>5 DEF CycleRecords, Stages
<1>7. tx[c] = NoTx /\ tx'[c] = NoTx
  BY <1>1, CycleTypes DEF Writing
<1>8. cycle'[c] = r /\ cycle' \in [Cycles -> CycleRecords]
      /\ \A d \in Cycles \ {c} : cycle'[d] = cycle[d]
  BY <1>1, <1>6, CycleTypes
<1>9. \A z \in Zones :
        /\ r.stage = "records" => r.read[z].serial <= version[z]
        /\ r.stage = "ns" => /\ r.read[z].serial <= version[z]
                             /\ r.read[z].records >= r.read[z].serial
        /\ r.stage = "publish" => Covered(r.read[z])
  <2> SUFFICES ASSUME NEW z \in Zones
               PROVE  /\ r.stage = "records" => r.read[z].serial <= version[z]
                      /\ r.stage = "ns" => /\ r.read[z].serial <= version[z]
                                           /\ r.read[z].records >= r.read[z].serial
                      /\ r.stage = "publish" => Covered(r.read[z])
    BY Zenon
  <2>1. CASE z \notin found
    <3>1. r.read[z] = None
      BY <2>1
    <3> QED
      BY <1>3, <3>1 DEF None, Covered
  <2>2. CASE z \in found
    <3>1. found # {}
      BY <2>2
    <3>2. r.read[z] = [cycle[c].read[z] EXCEPT ![Column(s)] = version[z]]
      BY <2>2
    <3>3. r.stage = NextQuery(s)
      BY <3>1
    <3> HIDE DEF r, found
    <3>4. /\ s = "records" => cycle[c].read[z].serial <= version[z]
          /\ s = "ns" => /\ cycle[c].read[z].serial <= version[z]
                         /\ cycle[c].read[z].records >= cycle[c].read[z].serial
      BY CycleTypes DEF CycleFits, ReadCovers
    <3>5. CASE s = "zones"
      BY <1>3, <3>2, <3>3, <3>5 DEF NextQuery, Column, Rows
    <3>6. CASE s = "records"
      BY <1>3, <3>2, <3>3, <3>4, <3>6 DEF NextQuery, Column, Rows
    <3>7. CASE s = "ns"
      BY <1>3, <3>2, <3>3, <3>4, <3>7 DEF NextQuery, Column, Rows, Covered
    <3> QED
      BY <1>1, <3>5, <3>6, <3>7
  <2> QED
    BY <2>1, <2>2
<1> HIDE DEF r, found
<1>10. UNCHANGED version
  BY <1>1 DEF storeVars
<1>11. CycleFits(c)'
  <2>1. NoTx.parts[1] = None
    BY DEF NoTx, Absent
  <2>2. r.stage \notin Writing \cup {"reply"}
    BY <1>4 DEF Writing
  <2>3. ReadCovers(c)'
    BY <1>4, <1>8, <1>9, <1>10 DEF ReadCovers, Covered
  <2> QED
    BY <1>4, <1>7, <1>8, <2>1, <2>2, <2>3, NoneCovers DEF CycleFits, TransactionWhole, Covered
<1>12. DbFits(Server)'
  BY <1>1, CycleTypes DEF DbFits, Server, Whole, Covered
<1> QED
  BY <1>1, <1>4, <1>8, <1>11, <1>12, CycleTypes, CycleStep

(* A cycle that ends outside a transaction.                                 *)
LEMMA EndKeeps ==
  ASSUME IInv, NEW c \in Cycles, End(c),
         cycle[c].stage \in {"zones", "records", "ns", "publish"},
         Failure \/ UNCHANGED failures,
         UNCHANGED <<kind, storeVars, db, tx, respVars>>
  PROVE  IInv'
<1>1. /\ cycle' \in [Cycles -> CycleRecords] /\ cycle'[c] = Idle
      /\ \A d \in Cycles \ {c} : cycle'[d] = cycle[d]
  BY CycleTypes, EndFacts
<1>2. tx'[c] = NoTx
  BY CycleTypes DEF Writing
<1>3. CycleFits(c)'
  BY <1>1, <1>2, IdleFits
<1>4. DbFits(Server)'
  BY CycleTypes DEF DbFits, Server, Whole, Covered
<1>5. failures' \in 0 .. MaxFailures
  BY CycleTypes, FailureCounted
<1>6. cycle'[c].stage # "connect"
  BY <1>1 DEF Idle
<1> QED
  BY <1>1, <1>3, <1>4, <1>5, <1>6, CycleTypes, CycleStep

LEMMA EndingsKeep ==
  ASSUME IInv, NEW c \in Cycles,
         QueryFailed(c) \/ Published(c) \/ NotConnected(c) \/ GetConnectionFailed(c)
  PROVE  IInv'
<1>1. CASE QueryFailed(c)
  BY <1>1, EndKeeps DEF QueryFailed
<1>2. CASE Published(c)
  BY <1>2, EndKeeps DEF Published
<1>3. CASE NotConnected(c)
  BY <1>3, EndKeeps DEF NotConnected
<1>4. CASE GetConnectionFailed(c)
  BY <1>4, EndKeeps DEF GetConnectionFailed
<1> QED
  BY <1>1, <1>2, <1>3, <1>4

(* A statement of a transaction, that leaves it with t.                     *)
LEMMA TxStep ==
  ASSUME IInv, NEW c \in Cycles, NEW s \in Writing, NEW t \in TxRecords,
         kind # "redis",
         cycle[c].todo # {}, cycle[c].stage \in Writing \cup {"publish"}, Goto(c, s),
         tx' = [tx EXCEPT ![c] = t],
         t.zone # 0,
         Covered(t.parts[1]),
         s = "update" => t.parts[1] = cycle[c].read[Zone(c)],
         s = "commit" => Whole(t.parts),
         UNCHANGED <<kind, storeVars, failures, db, respVars>>
  PROVE  IInv'
<1>1. s \in Stages /\ s \notin {"connect", "reply", "zones", "records", "ns"}
  BY DEF Stages, Writing
<1>2. cycle[c].stage \notin {"select", "reply", "zones", "records", "ns"}
  BY DEF Writing
<1>3. /\ cycle' \in [Cycles -> CycleRecords]
      /\ cycle'[c].stage = s /\ cycle'[c].read = cycle[c].read /\ cycle'[c].todo = cycle[c].todo
      /\ \A d \in Cycles \ {c} : cycle'[d] = cycle[d]
  BY <1>1, CycleTypes, GotoFacts
<1>4. /\ tx' \in [Cycles -> TxRecords] /\ tx'[c] = t
      /\ \A d \in Cycles \ {c} : tx'[d] = tx[d]
  BY CycleTypes
<1>5. t # NoTx
  BY DEF NoTx
<1>6. Zone(c)' = Zone(c)
  BY <1>3 DEF Zone
<1>7. ReadCovers(c)'
  BY <1>1, <1>2, <1>3, CycleTypes DEF CycleFits, ReadCovers, Covered
<1>8. TransactionWhole(c)'
  BY <1>3, <1>4, <1>6 DEF TransactionWhole, Covered, Whole
<1>9. CycleFits(c)'
  BY <1>1, <1>3, <1>4, <1>5, <1>7, <1>8, Zenon DEF CycleFits
<1>10. DbFits(Server)'
  BY CycleTypes DEF DbFits, Server, Whole, Covered
<1> QED
  BY <1>1, <1>2, <1>3, <1>4, <1>9, <1>10, CycleTypes, CycleStep

(* What is known of a transaction that is open.                             *)
LEMMA InTransaction ==
  ASSUME IInv, NEW c \in Cycles, cycle[c].stage \in Writing
  PROVE  /\ kind # "redis" /\ cycle[c].todo # {}
         /\ tx[c] \in TxRecords /\ tx[c].zone # 0 /\ Covered(tx[c].parts[1])
         /\ tx[c].parts \in Rows \X Rows
         /\ Zone(c) \in Zones /\ cycle[c].read[Zone(c)] \in Rows
         /\ Covered(cycle[c].read[Zone(c)])
<1>1. CycleFits(c)
  BY CycleTypes
<1>2. kind # "redis" /\ cycle[c].todo # {}
  BY <1>1 DEF CycleFits
<1>3. tx[c] \in TxRecords /\ tx[c].parts \in Rows \X Rows
  BY CycleTypes DEF TxRecords
<1>4. tx[c].zone # 0 /\ Covered(tx[c].parts[1])
  BY <1>1 DEF CycleFits, TransactionWhole
<1>5. Zone(c) \in Zones
  BY <1>2, CycleTypes, ZoneIsLeft
<1>6. cycle[c].read[Zone(c)] \in Rows
  BY <1>5, CycleTypes DEF CycleRecords
<1>7. Covered(cycle[c].read[Zone(c)])
  BY <1>1, <1>5 DEF CycleFits, ReadCovers, Writing
<1> QED
  BY <1>2, <1>3, <1>4, <1>5, <1>6, <1>7

LEMMA GetConnectionKeeps == ASSUME IInv, NEW c \in Cycles, GetConnection(c) PROVE IInv'
<1> DEFINE t == [NoTx EXCEPT !.zone = Zone(c)]
<1>1. /\ kind = "powerdns" /\ cycle[c].stage = "publish" /\ cycle[c].todo # {}
      /\ tx' = [tx EXCEPT ![c] = t] /\ Goto(c, "find")
      /\ UNCHANGED <<kind, storeVars, failures, db, respVars>>
  BY DEF GetConnection
<1>2. Zone(c) \in Zones /\ Zone(c) # 0
  BY <1>1, CycleTypes, ZoneIsLeft, Zeros
<1>3. t \in TxRecords
  BY <1>2, Zeros DEF TxRecords
<1>4. t.zone # 0 /\ t.parts[1] = None
  BY <1>2 DEF NoTx, Absent
<1> HIDE DEF t
<1>5. "find" \in Writing
  BY DEF Writing
<1> QED
  BY <1>1, <1>3, <1>4, <1>5, NoneCovers, TxStep

LEMMA FindDomainKeeps == ASSUME IInv, NEW c \in Cycles, FindDomain(c) PROVE IInv'
<1> DEFINE t == [tx[c] EXCEPT !.found = Found(Zone(c))]
<1>1. /\ cycle[c].stage = "find"
      /\ tx' = [tx EXCEPT ![c].found = Found(Zone(c))] /\ Goto(c, "replace")
      /\ UNCHANGED <<kind, storeVars, failures, db, respVars>>
  BY DEF FindDomain
<1>2. "find" \in Writing /\ "replace" \in Writing
  BY DEF Writing
<1>3. Found(Zone(c)) \in BOOLEAN
  BY DEF Found
<1>4. t \in TxRecords /\ t.zone # 0 /\ Covered(t.parts[1])
  BY <1>1, <1>2, <1>3, InTransaction DEF TxRecords
<1>5. tx' = [tx EXCEPT ![c] = t]
  BY <1>1
<1> HIDE DEF t
<1> QED
  BY <1>1, <1>2, <1>4, <1>5, InTransaction, TxStep

LEMMA ReplaceDomainKeeps == ASSUME IInv, NEW c \in Cycles, ReplaceDomain(c) PROVE IInv'
<1> DEFINE t == [tx[c] EXCEPT !.parts = Applied("delete", db[Zone(c)], None)]
<1>1. /\ cycle[c].stage = "replace"
      /\ tx' = [tx EXCEPT ![c].parts = Applied("delete", db[Zone(c)], None)]
      /\ Goto(c, "insert")
      /\ UNCHANGED <<kind, storeVars, failures, db, respVars>>
  BY DEF ReplaceDomain
<1>2. "replace" \in Writing /\ "insert" \in Writing
  BY DEF Writing
<1>3. Applied("delete", db[Zone(c)], None) = <<None, db[Zone(c)][2]>>
  BY DEF Applied
<1>4. db[Zone(c)][2] \in Rows
  BY <1>1, <1>2, InTransaction, CycleTypes
<1>5. t \in TxRecords /\ t.zone # 0 /\ Covered(t.parts[1])
  BY <1>1, <1>2, <1>3, <1>4, NoneCovers, InTransaction DEF TxRecords
<1>6. tx' = [tx EXCEPT ![c] = t]
  BY <1>1
<1> HIDE DEF t
<1> QED
  BY <1>1, <1>2, <1>5, <1>6, InTransaction, TxStep

LEMMA WriteKeeps == ASSUME IInv, NEW c \in Cycles, Write(c) PROVE IInv'
<1> DEFINE rows == cycle[c].read[Zone(c)]
           t    == [tx[c] EXCEPT !.parts = Applied(cycle[c].stage, tx[c].parts, rows)]
<1>1. /\ cycle[c].stage \in {"insert", "update"}
      /\ tx' = [tx EXCEPT ![c].parts = Applied(cycle[c].stage, @, rows)]
      /\ Goto(c, IF cycle[c].stage = "insert" THEN "update" ELSE "commit")
      /\ UNCHANGED <<kind, storeVars, failures, db, respVars>>
  BY DEF Write
<1>2. cycle[c].stage \in Writing
  BY <1>1 DEF Writing
<1>3. tx' = [tx EXCEPT ![c] = t]
  BY <1>1
<1>4. /\ kind # "redis" /\ cycle[c].todo # {} /\ rows \in Rows /\ Covered(rows)
      /\ tx[c] \in TxRecords /\ tx[c].parts \in Rows \X Rows
      /\ tx[c].zone # 0 /\ Covered(tx[c].parts[1])
  BY <1>2, InTransaction
<1> HIDE DEF rows
<1>5. CASE cycle[c].stage = "insert"
  <2>1. t = [tx[c] EXCEPT !.parts = <<rows, tx[c].parts[2]>>]
    BY <1>5 DEF Applied
  <2>2. t \in TxRecords /\ t.zone # 0 /\ t.parts[1] = rows
    BY <1>4, <2>1 DEF TxRecords
  <2> HIDE DEF t
  <2>3. Goto(c, "update") /\ "update" \in Writing
    BY <1>1, <1>5 DEF Writing
  <2> QED
    BY <1>1, <1>2, <1>3, <1>4, <2>2, <2>3, TxStep DEF rows
<1>6. CASE cycle[c].stage = "update"
  <2>1. t = [tx[c] EXCEPT !.parts = <<tx[c].parts[1], rows>>]
    BY <1>6 DEF Applied
  <2>2. tx[c].parts[1] = rows
    BY <1>6, CycleTypes DEF CycleFits, TransactionWhole, rows
  <2>3. t \in TxRecords /\ t.zone # 0 /\ t.parts[1] = rows /\ t.parts[2] = rows
    BY <1>4, <2>1, <2>2 DEF TxRecords
  <2> HIDE DEF t
  <2>4. Goto(c, "commit") /\ "commit" \in Writing
    BY <1>1, <1>6 DEF Writing
  <2>5. Whole(t.parts) /\ Covered(t.parts[1])
    BY <1>4, <2>3 DEF Whole
  <2> QED
    BY <1>1, <1>2, <1>3, <1>4, <2>4, <2>3, <2>5, TxStep
<1> QED
  BY <1>1, <1>5, <1>6

(* What a COMMIT that is done makes of the database.                        *)
LEMMA CommitFits ==
  ASSUME IInv, NEW c \in Cycles, cycle[c].stage = "commit",
         db' = [db EXCEPT ![Zone(c)] = tx[c].parts]
  PROVE  db' \in [Zones -> Rows \X Rows] /\ DbFits(Server)'
<1>1. cycle[c].stage \in Writing
  BY DEF Writing
<1>2. tx[c].parts \in Rows \X Rows /\ Covered(tx[c].parts[1]) /\ Whole(tx[c].parts)
  BY <1>1, InTransaction, CycleTypes DEF CycleFits, TransactionWhole
<1>3. db' \in [Zones -> Rows \X Rows]
  BY <1>2, CycleTypes
<1>4. \A z \in Zones : db'[z] \in {db[z], tx[c].parts}
  BY CycleTypes
<1>5. \A z \in Zones : Whole(db[z]) /\ Covered(db[z][1])
  BY CycleTypes DEF DbFits, Server
<1>6. \A z \in Zones : Whole(db'[z]) /\ Covered(db'[z][1])
  BY <1>2, <1>4, <1>5
<1> QED
  BY <1>3, <1>6 DEF DbFits, Server, Whole, Covered

(* A cycle that goes on with the next zone, outside a transaction.          *)
LEMMA NextZoneFits ==
  ASSUME IInv, NEW c \in Cycles, cycle[c].stage \notin {"zones", "records", "ns"},
         NextZone(c), tx'[c] = NoTx
  PROVE  CycleFits(c)'
<1>1. /\ cycle' \in [Cycles -> CycleRecords] /\ cycle'[c].stage = "publish"
      /\ \A z \in Zones : cycle'[c].read[z] \in {cycle[c].read[z], None}
  BY CycleTypes, NextZoneFacts
<1>2. \A z \in Zones : Covered(cycle[c].read[z])
  BY CycleTypes DEF CycleFits, ReadCovers
<1>3. \A z \in Zones : Covered(cycle'[c].read[z])
  BY <1>1, <1>2, NoneCovers
<1>4. ReadCovers(c)'
  BY <1>1, <1>3 DEF ReadCovers, Covered
<1>5. NoTx.parts[1] = None
  BY DEF NoTx, Absent
<1>6. "publish" \notin Writing \cup {"reply", "update", "commit"}
  BY DEF Writing
<1>7. TransactionWhole(c)'
  BY <1>1, <1>5, <1>6, NoneCovers DEF TransactionWhole, Covered
<1> QED
  BY <1>1, <1>4, <1>6, <1>7, Zenon DEF CycleFits

LEMMA CommitKeeps == ASSUME IInv, NEW c \in Cycles, Commit(c) PROVE IInv'
<1>1. /\ cycle[c].stage = "commit"
      /\ db' = [db EXCEPT ![Zone(c)] = tx[c].parts]
      /\ tx' = [tx EXCEPT ![c] = NoTx] /\ NextZone(c)
      /\ UNCHANGED <<kind, storeVars, failures, respVars>>
  BY DEF Commit, Release
<1>2. db' \in [Zones -> Rows \X Rows] /\ DbFits(Server)'
  BY <1>1, CommitFits
<1>3. /\ cycle' \in [Cycles -> CycleRecords] /\ cycle'[c].stage = "publish"
      /\ \A z \in Zones : cycle'[c].read[z] \in {cycle[c].read[z], None}
      /\ \A d \in Cycles \ {c} : cycle'[d] = cycle[d]
  BY <1>1, CycleTypes, NextZoneFacts
<1>4. /\ tx' \in [Cycles -> TxRecords] /\ tx'[c] = NoTx
      /\ \A d \in Cycles \ {c} : tx'[d] = tx[d]
  BY <1>1, CycleTypes, Zeros
<1>5. CycleFits(c)'
  BY <1>1, <1>4, NextZoneFits
<1> QED
  BY <1>1, <1>2, <1>3, <1>4, <1>5, CycleTypes, CycleStep

LEMMA WriteFailedKeeps == ASSUME IInv, NEW c \in Cycles, WriteFailed(c) PROVE IInv'
<1>1. /\ cycle[c].stage \in Writing
      /\ Failure \/ UNCHANGED failures
      /\ db' \in {db} \cup (IF cycle[c].stage = "commit"
                            THEN {[db EXCEPT ![Zone(c)] = tx[c].parts]} ELSE {})
      /\ tx' = [tx EXCEPT ![c] = NoTx] /\ End(c)
      /\ UNCHANGED <<kind, storeVars, respVars>>
  BY DEF WriteFailed, Release
<1>2. db' \in [Zones -> Rows \X Rows] /\ DbFits(Server)'
  <2>1. CASE db' = db
    BY <2>1, CycleTypes DEF DbFits, Server, Whole, Covered
  <2>2. CASE db' # db
    BY <1>1, <2>2, CommitFits
  <2> QED
    BY <2>1, <2>2
<1>3. /\ cycle' \in [Cycles -> CycleRecords] /\ cycle'[c] = Idle
      /\ \A d \in Cycles \ {c} : cycle'[d] = cycle[d]
  BY <1>1, CycleTypes, EndFacts
<1>4. /\ tx' \in [Cycles -> TxRecords] /\ tx'[c] = NoTx
      /\ \A d \in Cycles \ {c} : tx'[d] = tx[d]
  BY <1>1, CycleTypes, Zeros
<1>5. CycleFits(c)' /\ failures' \in 0 .. MaxFailures
  BY <1>1, <1>3, <1>4, IdleFits, CycleTypes, FailureCounted
<1>6. cycle'[c].stage # "connect" /\ cycle[c].stage \notin {"select", "reply"}
  BY <1>1, <1>3 DEF Idle, Writing
<1> QED
  BY <1>1, <1>2, <1>3, <1>4, <1>5, <1>6, CycleStep

(* An edit makes what has been read older than it was, and claims nothing.  *)
LEMMA EditKeeps == ASSUME IInv, NEW z \in Zones, Edit(z) PROVE IInv'
<1>1. /\ edits < MaxEdits /\ edits' = edits + 1
      /\ \/ version' = [version EXCEPT ![z] = edits + 1] /\ active' = active \cup {z}
         \/ active' = active \ {z} /\ UNCHANGED version
  BY DEF Edit
<1>2. UNCHANGED <<kind, failures, cycle, db, tx, respVars>>
  BY DEF Edit
<1>3. UNCHANGED <<client, selected, pending, commands, multi>>
  BY <1>2 DEF respVars
<1>4. /\ edits \in 0 .. MaxEdits /\ version \in [Zones -> 0 .. MaxEdits]
      /\ active \subseteq Zones /\ MaxEdits \in Nat
      /\ \A y \in Zones : version[y] <= edits
  BY DatabasePublishAssumption DEF DatabasePublishAssumption, IInv, TypeOK, VersionsCounted
<1>5. /\ edits' \in 0 .. MaxEdits /\ active' \in SUBSET Zones
      /\ version' \in [Zones -> 0 .. MaxEdits]
  <2>1. edits + 1 \in 0 .. MaxEdits
    BY <1>1, <1>4
  <2> QED
    BY <1>1, <1>4, <2>1
<1>6. \A y \in Zones : version[y] <= version'[y] /\ version'[y] <= edits'
  <2> TAKE y \in Zones
  <2>1. version[y] \in 0 .. MaxEdits /\ version'[y] \in {version[y], edits + 1}
    BY <1>1, <1>4
  <2> QED
    BY <1>1, <1>4, <2>1
<1>7. \A d \in Cycles : CycleFits(d)'
  <2> TAKE d \in Cycles
  <2>1. Zone(d)' = Zone(d)
    BY <1>2 DEF Zone
  <2>2. ReadCovers(d)'
    <3> SUFFICES ASSUME NEW y \in Zones
                 PROVE  /\ cycle[d].stage = "records" => cycle[d].read[y].serial <= version'[y]
                        /\ cycle[d].stage = "ns" =>
                             /\ cycle[d].read[y].serial <= version'[y]
                             /\ cycle[d].read[y].records >= cycle[d].read[y].serial
                        /\ cycle[d].stage \notin {"zones", "records", "ns"} =>
                             Covered(cycle[d].read[y])
      BY <1>2, Zenon DEF ReadCovers, Covered
    <3>1. /\ cycle[d].stage = "records" => cycle[d].read[y].serial <= version[y]
          /\ cycle[d].stage = "ns" =>
               /\ cycle[d].read[y].serial <= version[y]
               /\ cycle[d].read[y].records >= cycle[d].read[y].serial
          /\ cycle[d].stage \notin {"zones", "records", "ns"} => Covered(cycle[d].read[y])
      BY CycleTypes, Zenon DEF CycleFits, ReadCovers
    <3>2. cycle[d].read[y].serial \in Int
      BY CycleTypes, DatabasePublishAssumption DEF DatabasePublishAssumption, CycleRecords, Rows
    <3>3. version[y] \in Int /\ version'[y] \in Int
      BY <1>4, <1>5
    <3> QED
      BY <1>6, <3>1, <3>2, <3>3
  <2>3. TransactionWhole(d)'
    BY <1>2, <2>1, CycleTypes DEF CycleFits, TransactionWhole, Covered, Whole
  <2> QED
    BY <1>2, <2>2, <2>3, CycleTypes, Zenon DEF CycleFits
<1>8. Connection'
  <2>1. ConnectOnce' /\ WaitersCalled'
    BY <1>2, <1>3 DEF IInv, Connection, ConnectOnce, WaitersCalled
  <2>2. SentWhole' /\ OnlyWhenOpen' /\ InStep'
    BY <1>3 DEF IInv, Connection, SentWhole, PipelinesIn, Covered, OnlyWhenOpen, InStep
  <2>3. MultiFits(Server, 0)'
    BY <1>3 DEF IInv, Connection, MultiFits, Server, Covered, Whole
  <2> QED
    BY <2>1, <2>2, <2>3 DEF Connection
<1>9. DbFits(Server)'
  BY <1>2 DEF IInv, DbFits, Server, Whole, Covered
<1>10. TypeOK'
  BY <1>2, <1>3, <1>5, Zenon DEF IInv, TypeOK
<1>11. VersionsCounted'
  BY <1>6 DEF VersionsCounted
<1> QED
  BY <1>7, <1>8, <1>9, <1>10, <1>11 DEF IInv

-----------------------------------------------------------------------------
(* The connection to Redis.                                                 *)
MultiRecords == [on : BOOLEAN, aborted : BOOLEAN, zones : [Zones -> Rows \X Rows]]
Clients      == {"none", "connecting", "open", "dead", "closed", "quitting", "stuck"}

(* A step that is none of PowerDNS, and leaves the store alone.             *)
LEMMA RedisStep ==
  ASSUME IInv, kind # "powerdns", UNCHANGED <<kind, storeVars, tx>>,
         failures' \in 0 .. MaxFailures,
         cycle' \in [Cycles -> CycleRecords],
         \A d \in Cycles : CycleFits(d)',
         db' \in [Zones -> Rows \X Rows], DbFits(Server)',
         client' \in Clients, selected' \in BOOLEAN, multi' \in MultiRecords,
         pending' \in Seq(WaiterRecords), commands' \in Seq(CommandRecords),
         Connection'
  PROVE  IInv'
<1>1. UNCHANGED <<version, active, edits>>
  BY DEF storeVars
<1>2. TypeOK'
  BY <1>1, Zenon
     DEF IInv, TypeOK, CycleFits, CycleRecords, Clients, MultiRecords, WaiterRecords,
         CommandRecords
<1>3. VersionsCounted'
  BY <1>1, Zenon DEF IInv, VersionsCounted
<1> QED
  BY <1>2, <1>3 DEF IInv

LEMMA RedisTypes ==
  ASSUME IInv
  PROVE  /\ client \in Clients /\ selected \in BOOLEAN /\ multi \in MultiRecords
         /\ kind = "powerdns" => client = "none" /\ pending = <<>>
         /\ client \notin {"open", "quitting"} => commands = <<>>
BY DEF IInv, TypeOK, Clients, MultiRecords, Connection, OnlyWhenOpen

(* Nothing is on its way to the server, which is outside MULTI.             *)
LEMMA NothingSent ==
  ASSUME commands' = <<>>, client' \notin {"open", "quitting"}, ~multi'.on,
         \A z \in Zones : Covered(multi'.zones[z][1])
  PROVE  SentWhole' /\ OnlyWhenOpen' /\ InStep' /\ MultiFits(Server, 0)'
<1>1. SentWhole' /\ OnlyWhenOpen' /\ InStep'
  BY DEF SentWhole, PipelinesIn, OnlyWhenOpen, InStep
<1>2. MultiFits(Server, 0)'
  BY DEF MultiFits, Server, Covered
<1> QED
  BY <1>1, <1>2

LEMMA OutsideMulti ==
  ASSUME IInv
  PROVE  /\ commands = <<>> => ~multi.on
         /\ \A z \in Zones : Covered(multi.zones[z][1])
<1>1. MultiFits(Server, 0)
  BY DEF IInv, Connection
<1> QED
  BY <1>1 DEF MultiFits, Server

(* Two sequences, one after the other.                                      *)
LEMMA ConcatFacts ==
  ASSUME NEW S, NEW a \in Seq(S), NEW b \in Seq(S)
  PROVE  /\ a \o b \in Seq(S) /\ Len(a \o b) = Len(a) + Len(b)
         /\ Len(a) \in Nat /\ Len(b) \in Nat
         /\ \A i \in 1 .. Len(a) : (a \o b)[i] = a[i]
         /\ \A i \in 1 .. Len(b) : (a \o b)[Len(a) + i] = b[i]
OBVIOUS

(* A pipeline after others, and what is left when a command has been run.   *)
LEMMA PipelinesAppend ==
  ASSUME NEW a \in Seq(CommandRecords), NEW b \in Seq(CommandRecords),
         PipelinesIn(a), PipelinesIn(b), Len(b) > 0, b[1].op \in {"MULTI", "QUIT"},
         \A i \in 1 .. Len(a) : a[i].op # "QUIT"
  PROVE  /\ PipelinesIn(a \o b) /\ a \o b \in Seq(CommandRecords)
         /\ Len(a \o b) = Len(a) + Len(b)
         /\ \A i \in 1 .. Len(a) : (a \o b)[i] = a[i]
         /\ \A i \in 1 .. Len(b) : (a \o b)[Len(a) + i] = b[i]
<1> DEFINE s == a \o b
<1>1. /\ s \in Seq(CommandRecords) /\ Len(s) = Len(a) + Len(b)
      /\ \A i \in 1 .. Len(a) : s[i] = a[i]
      /\ \A i \in 1 .. Len(b) : s[Len(a) + i] = b[i]
      /\ Len(a) \in Nat /\ Len(b) \in Nat
  BY ConcatFacts
<1> HIDE DEF s
<1>2. ASSUME NEW i \in 1 .. Len(s)
      PROVE  /\ Covered(s[i].rows)
             /\ s[i].op \in {"MULTI", "DEL", "HSET1", "HSET2"} =>
                  /\ i < Len(s) /\ s[i].zone \in Zones
                  /\ s[i + 1].op = Follower(s[i].op)
                  /\ s[i + 1].zone = s[i].zone
                  /\ s[i + 1].rows = s[i].rows
             /\ s[i].op \in {"SELECT", "EXEC"} /\ i < Len(s) => s[i + 1].op \in {"MULTI", "QUIT"}
             /\ s[i].op = "QUIT" => i = Len(s)
  <2>1. CASE i < Len(a)
    <3>1. i \in 1 .. Len(a) /\ i + 1 \in 1 .. Len(a)
      BY <1>1, <2>1
    <3>2. s[i] = a[i] /\ s[i + 1] = a[i + 1]
      BY <1>1, <3>1
    <3> QED
      BY <1>1, <2>1, <3>1, <3>2 DEF PipelinesIn
  <2>2. CASE i = Len(a)
    <3>1. i \in 1 .. Len(a) /\ 1 \in 1 .. Len(b)
      BY <1>1, <2>2
    <3>2. s[i] = a[i] /\ s[i + 1] = b[1]
      BY <1>1, <2>2, <3>1
    <3>3. a[i].op \notin {"MULTI", "DEL", "HSET1", "HSET2"} /\ Covered(a[i].rows)
      BY <1>1, <2>2, <3>1 DEF PipelinesIn
    <3> QED
      BY <3>1, <3>2, <3>3
  <2>3. CASE i > Len(a)
    <3> DEFINE j == i - Len(a)
    <3>1. j \in 1 .. Len(b) /\ i = Len(a) + j /\ i + 1 = Len(a) + (j + 1)
          /\ (i < Len(s) <=> j < Len(b)) /\ (i = Len(s) <=> j = Len(b))
          /\ (j < Len(b) => j + 1 \in 1 .. Len(b))
      BY <1>1, <2>3
    <3> HIDE DEF j
    <3>2. s[i] = b[j] /\ (j < Len(b) => s[i + 1] = b[j + 1])
      BY <1>1, <3>1
    <3>3. /\ Covered(b[j].rows)
          /\ b[j].op \in {"MULTI", "DEL", "HSET1", "HSET2"} =>
               /\ j < Len(b) /\ b[j].zone \in Zones
               /\ b[j + 1].op = Follower(b[j].op)
               /\ b[j + 1].zone = b[j].zone
               /\ b[j + 1].rows = b[j].rows
          /\ b[j].op \in {"SELECT", "EXEC"} /\ j < Len(b) => b[j + 1].op \in {"MULTI", "QUIT"}
          /\ b[j].op = "QUIT" => j = Len(b)
      BY <3>1, Zenon DEF PipelinesIn
    <3> QED
      BY <3>1, <3>2, <3>3
  <2> QED
    BY <1>1, <2>1, <2>2, <2>3
<1>3. PipelinesIn(s)
  BY <1>2 DEF PipelinesIn
<1> QED
  BY <1>1, <1>3 DEF s

LEMMA PipelinesTail ==
  ASSUME NEW a \in Seq(CommandRecords), PipelinesIn(a), a # <<>>
  PROVE  /\ PipelinesIn(Tail(a)) /\ Tail(a) \in Seq(CommandRecords)
         /\ Len(Tail(a)) = Len(a) - 1 /\ Len(a) \in Nat \ {0}
         /\ \A i \in 1 .. Len(a) - 1 : Tail(a)[i] = a[i + 1]
<1> DEFINE t == Tail(a)
<1>1. /\ t \in Seq(CommandRecords) /\ Len(t) = Len(a) - 1 /\ Len(a) \in Nat \ {0}
      /\ \A i \in 1 .. Len(a) - 1 : t[i] = a[i + 1]
  OBVIOUS
<1> HIDE DEF t
<1>2. ASSUME NEW i \in 1 .. Len(t)
      PROVE  /\ Covered(t[i].rows)
             /\ t[i].op \in {"MULTI", "DEL", "HSET1", "HSET2"} =>
                  /\ i < Len(t) /\ t[i].zone \in Zones
                  /\ t[i + 1].op = Follower(t[i].op)
                  /\ t[i + 1].zone = t[i].zone
                  /\ t[i + 1].rows = t[i].rows
             /\ t[i].op \in {"SELECT", "EXEC"} /\ i < Len(t) => t[i + 1].op \in {"MULTI", "QUIT"}
             /\ t[i].op = "QUIT" => i = Len(t)
  <2> DEFINE j == i + 1
  <2>1. j \in 1 .. Len(a) /\ i \in 1 .. Len(a) - 1
        /\ (i < Len(t) <=> j < Len(a)) /\ (i = Len(t) <=> j = Len(a))
        /\ (i < Len(t) => i + 1 \in 1 .. Len(a) - 1)
    BY <1>1
  <2>2. t[i] = a[j] /\ (j < Len(a) => t[i + 1] = a[j + 1])
    BY <1>1, <2>1
  <2> HIDE DEF j
  <2> QED
    BY <2>1, <2>2, Zenon DEF PipelinesIn
<1>3. PipelinesIn(t)
  BY <1>2 DEF PipelinesIn
<1> QED
  BY <1>1, <1>3 DEF t

(* A cycle outside PowerDNS goes on, in the zone that it is at.             *)
LEMMA RedisGoto ==
  ASSUME IInv, NEW c \in Cycles, NEW s \in {"connect", "select", "publish", "reply"},
         cycle[c].stage \in {"connect", "select", "publish", "reply"},
         s = "reply" => cycle[c].todo # {}, Goto(c, s), UNCHANGED <<kind, version, tx>>
  PROVE  /\ cycle' \in [Cycles -> CycleRecords]
         /\ cycle'[c].stage = s
         /\ \A d \in Cycles \ {c} : cycle'[d] = cycle[d]
         /\ \A d \in Cycles : CycleFits(d)'
<1>1. s \in Stages
  BY DEF Stages, Waiting
<1>2. /\ cycle' \in [Cycles -> CycleRecords]
      /\ cycle'[c].stage = s /\ cycle'[c].read = cycle[c].read /\ cycle'[c].todo = cycle[c].todo
      /\ \A d \in Cycles \ {c} : cycle'[d] = cycle[d]
  BY <1>1, CycleTypes, GotoFacts
<1>3. s \notin Writing /\ tx[c] = NoTx
  BY CycleTypes DEF Writing
<1>4. NoTx.parts[1] = None
  BY DEF NoTx, Absent
<1>5. ReadCovers(c)'
  BY <1>2, CycleTypes DEF CycleFits, ReadCovers, Covered
<1>6. TransactionWhole(c)'
  BY <1>2, <1>3, <1>4, NoneCovers DEF TransactionWhole, Covered, Writing
<1>7. CycleFits(c)'
  BY <1>2, <1>3, <1>5, <1>6, Zenon DEF CycleFits
<1>8. \A d \in Cycles \ {c} : CycleFits(d)'
  BY <1>2, CycleTypes, CycleKept
<1> QED
  BY <1>2, <1>7, <1>8

LEMMA ConnectKeeps == ASSUME IInv, NEW c \in Cycles, Connect(c) PROVE IInv'
<1>1. /\ kind = "redis" /\ cycle[c].stage = "publish" /\ client = "none"
      /\ client' = "connecting" /\ Goto(c, "connect")
      /\ UNCHANGED <<kind, storeVars, failures, db, tx, selected, pending, commands, multi>>
  BY DEF Connect
<1>2. version' = version
  BY <1>1 DEF storeVars
<1>3. /\ cycle' \in [Cycles -> CycleRecords] /\ cycle'[c].stage = "connect"
      /\ \A d \in Cycles \ {c} : cycle'[d] = cycle[d]
      /\ \A d \in Cycles : CycleFits(d)'
  BY <1>1, <1>2, RedisGoto
<1>4. commands = <<>> /\ ~multi.on /\ \A z \in Zones : Covered(multi.zones[z][1])
  BY <1>1, RedisTypes, OutsideMulti
<1>5. SentWhole' /\ OnlyWhenOpen' /\ InStep' /\ MultiFits(Server, 0)'
  BY <1>1, <1>4, NothingSent
<1>6. WaitersCalled'
  BY <1>1, <1>3, WaitersKept
<1>7. ConnectOnce'
  <2>1. \A d \in Cycles : cycle[d].stage # "connect"
    BY <1>1 DEF IInv, Connection, ConnectOnce
  <2> QED
    BY <1>1, <1>3, <2>1 DEF ConnectOnce
<1>8. DbFits(Server)'
  BY <1>1, CycleTypes DEF DbFits, Server, Whole, Covered
<1>9. Connection'
  BY <1>5, <1>6, <1>7 DEF Connection
<1>10. client' \in Clients
  BY <1>1 DEF Clients
<1> QED
  BY <1>1, <1>3, <1>8, <1>9, <1>10, CycleTypes, RedisTypes, WaiterTypes, RedisStep

LEMMA ConnectFailedKeeps == ASSUME IInv, NEW c \in Cycles, ConnectFailed(c) PROVE IInv'
<1>1. /\ cycle[c].stage = "connect" /\ client' = "dead" /\ End(c) /\ Failure
      /\ UNCHANGED <<kind, storeVars, db, tx, selected, pending, commands, multi>>
  BY DEF ConnectFailed
<1>2. version' = version
  BY <1>1 DEF storeVars
<1>3. client = "connecting" /\ kind # "powerdns"
      /\ \A d \in Cycles \ {c} : cycle[d].stage # "connect"
  BY <1>1, RedisTypes DEF IInv, Connection, ConnectOnce
<1>4. /\ cycle' \in [Cycles -> CycleRecords] /\ cycle'[c] = Idle
      /\ \A d \in Cycles \ {c} : cycle'[d] = cycle[d]
  BY <1>1, CycleTypes, EndFacts
<1>5. \A d \in Cycles : CycleFits(d)'
  <2>1. tx'[c] = NoTx
    BY <1>1, CycleTypes DEF Writing
  <2>2. CycleFits(c)'
    BY <1>4, <2>1, IdleFits
  <2>3. \A d \in Cycles \ {c} : CycleFits(d)'
    BY <1>1, <1>2, <1>4, CycleTypes, CycleKept
  <2> QED
    BY <2>2, <2>3
<1>6. commands = <<>> /\ ~multi.on /\ \A z \in Zones : Covered(multi.zones[z][1])
  BY <1>3, RedisTypes, OutsideMulti
<1>7. SentWhole' /\ OnlyWhenOpen' /\ InStep' /\ MultiFits(Server, 0)'
  BY <1>1, <1>6, NothingSent
<1>8. WaitersCalled'
  BY <1>1, <1>4, WaitersKept
<1>9. ConnectOnce'
  BY <1>3, <1>4 DEF ConnectOnce, Idle
<1>10. DbFits(Server)'
  BY <1>1, CycleTypes DEF DbFits, Server, Whole, Covered
<1>11. Connection'
  BY <1>7, <1>8, <1>9 DEF Connection
<1>12. client' \in Clients /\ failures' \in 0 .. MaxFailures
  BY <1>1, CycleTypes, FailureCounted DEF Clients
<1> QED
  BY <1>1, <1>3, <1>4, <1>5, <1>10, <1>11, <1>12, CycleTypes, RedisTypes, WaiterTypes, RedisStep

LEMMA ConnectedKeeps == ASSUME IInv, NEW c \in Cycles, Connected(c) PROVE IInv'
<1> DEFINE cmd == Control("SELECT", c)
<1>1. /\ cycle[c].stage = "connect" /\ client' = "open" /\ Goto(c, "select")
      /\ pending' = <<Waiter(cmd)>> /\ commands' = <<cmd>>
      /\ UNCHANGED <<kind, storeVars, failures, db, tx, selected, multi>>
  BY DEF Connected
<1>2. version' = version
  BY <1>1 DEF storeVars
<1>3. client = "connecting" /\ kind # "powerdns"
      /\ \A d \in Cycles \ {c} : cycle[d].stage # "connect"
  BY <1>1, RedisTypes DEF IInv, Connection, ConnectOnce
<1>4. /\ cycle' \in [Cycles -> CycleRecords] /\ cycle'[c].stage = "select"
      /\ \A d \in Cycles \ {c} : cycle'[d] = cycle[d]
      /\ \A d \in Cycles : CycleFits(d)'
  BY <1>1, <1>2, RedisGoto
<1>5. commands = <<>> /\ ~multi.on /\ \A z \in Zones : Covered(multi.zones[z][1])
  BY <1>3, RedisTypes, OutsideMulti
<1>6. cmd.op = "SELECT" /\ cmd.by = c /\ cmd.zone = 0 /\ cmd.rows = None
  BY DEF Control
<1>7. Waiter(cmd).op = "SELECT" /\ Waiter(cmd).by = c /\ Waiter(cmd).live
  BY <1>6 DEF Waiter
<1>8. c \in 0 .. NumCycles /\ c # 0
  BY DEF Cycles
<1>9. cmd \in CommandRecords /\ Waiter(cmd) \in WaiterRecords
  BY <1>8, NoneCovers DEF CommandRecords, WaiterRecords, Control, Waiter, Ops
<1> HIDE DEF cmd
<1> DEFINE w == Waiter(cmd)
<1> HIDE DEF w
<1>10. /\ pending' \in Seq(WaiterRecords) /\ commands' \in Seq(CommandRecords)
       /\ Len(pending') = 1 /\ Len(commands') = 1
       /\ pending'[1] = w /\ commands'[1] = cmd
  <2>1. pending' = <<w>> /\ w \in WaiterRecords
    BY <1>1, <1>9 DEF w
  <2> QED
    BY <1>1, <1>9, <2>1
<1>11. w.op = "SELECT" /\ w.by = c /\ w.live
  BY <1>7 DEF w
<1>12. WaitersCalled'
  <2>1. \A i \in 1 .. Len(pending') : i = 1
    BY <1>10
  <2> QED
    BY <1>4, <1>8, <1>10, <1>11, <2>1 DEF WaitersCalled
<1>13. SentWhole' /\ InStep'
  <2>1. \A i \in 1 .. Len(commands') : i = 1
    BY <1>10
  <2>2. Covered(commands'[1].rows) /\ commands'[1].op = "SELECT" /\ commands'[1].by = c
    BY <1>6, <1>10, NoneCovers
  <2>3. PipelinesIn(commands')
    BY <1>10, <2>1, <2>2 DEF PipelinesIn
  <2>4. SentWhole'
    BY <2>1, <2>2, <2>3 DEF SentWhole, PipelinesIn, Covered, Follower
  <2>5. InStep'
    BY <1>10, <1>11, <2>1, <2>2 DEF InStep
  <2> QED
    BY <2>4, <2>5
<1>14. OnlyWhenOpen'
  BY <1>1 DEF OnlyWhenOpen
<1>15. MultiFits(Server, 0)'
  BY <1>1, <1>5, <1>6, <1>10 DEF MultiFits, Server, Covered, Whole
<1>16. ConnectOnce'
  BY <1>3, <1>4 DEF ConnectOnce
<1>17. Connection'
  BY <1>12, <1>13, <1>14, <1>15, <1>16 DEF Connection
<1>18. DbFits(Server)' /\ client' \in Clients
  BY <1>1, CycleTypes DEF DbFits, Server, Whole, Covered, Clients
<1> QED
  BY <1>1, <1>3, <1>4, <1>10, <1>17, <1>18, CycleTypes, RedisTypes, WaiterTypes, RedisStep

(* A pipeline is sent by a cycle, or by disconnect() for none: what is on   *)
(* the connection, and the server, fit with it.                             *)
LEMMA PipelineFits ==
  ASSUME IInv, NEW cmds \in Seq(CommandRecords), PipelinesIn(cmds), Len(cmds) > 0,
         cmds[1].op \in {"MULTI", "QUIT"}, Pipeline(cmds),
         client = "open",
         client' = "open" \/ client' = "quitting",
         \A i \in 1 .. Len(cmds) : cmds[i].op = "QUIT" => client' = "quitting",
         UNCHANGED <<multi, selected, db>>
  PROVE  /\ pending' \in Seq(WaiterRecords) /\ commands' \in Seq(CommandRecords)
         /\ SentWhole' /\ OnlyWhenOpen' /\ InStep' /\ MultiFits(Server, 0)'
<1> DEFINE ws == [i \in DOMAIN cmds |-> Waiter(cmds[i])]
<1>1. pending' = pending \o ws /\ commands' = commands \o cmds
  BY DEF Pipeline
<1>2. /\ pending \in Seq(WaiterRecords) /\ commands \in Seq(CommandRecords)
      /\ Len(pending) \in Nat /\ Len(commands) \in Nat /\ Len(cmds) \in Nat
  BY WaiterTypes
<1>3. \A x \in CommandRecords : Waiter(x) \in WaiterRecords
  BY DEF Waiter, WaiterRecords, CommandRecords
<1>4. /\ ws \in Seq(WaiterRecords) /\ Len(ws) = Len(cmds)
      /\ \A i \in 1 .. Len(cmds) : ws[i] = Waiter(cmds[i])
  <2>1. DOMAIN cmds = 1 .. Len(cmds) /\ Len(cmds) \in Nat
    OBVIOUS
  <2>2. \A i \in 1 .. Len(cmds) : Waiter(cmds[i]) \in WaiterRecords
    BY <1>3, <2>1
  <2> QED
    BY <2>1, <2>2
<1> HIDE DEF ws
<1>5. /\ PipelinesIn(commands)
      /\ \A i \in 1 .. Len(commands) : commands[i].op # "QUIT"
      /\ Len(pending) = Len(commands)
      /\ \A i \in 1 .. Len(commands) :
           pending[i].op = commands[i].op /\ pending[i].by = commands[i].by
  BY DEF IInv, Connection, SentWhole, InStep
<1>6. /\ PipelinesIn(commands') /\ commands' \in Seq(CommandRecords)
      /\ Len(commands') = Len(commands) + Len(cmds)
      /\ \A i \in 1 .. Len(commands) : commands'[i] = commands[i]
      /\ \A i \in 1 .. Len(cmds) : commands'[Len(commands) + i] = cmds[i]
  BY <1>1, <1>2, <1>5, PipelinesAppend
<1>7. /\ pending' \in Seq(WaiterRecords)
      /\ Len(pending') = Len(pending) + Len(cmds)
      /\ \A i \in 1 .. Len(pending) : pending'[i] = pending[i]
      /\ \A i \in 1 .. Len(cmds) : pending'[Len(pending) + i] = Waiter(cmds[i])
  <2>1. /\ pending \o ws \in Seq(WaiterRecords) /\ Len(pending \o ws) = Len(pending) + Len(ws)
        /\ \A i \in 1 .. Len(pending) : (pending \o ws)[i] = pending[i]
        /\ \A i \in 1 .. Len(ws) : (pending \o ws)[Len(pending) + i] = ws[i]
    <3>1. pending \in Seq(WaiterRecords) /\ ws \in Seq(WaiterRecords)
      BY <1>2, <1>4
    <3> QED
      BY ONLY <3>1
  <2> QED
    BY <1>1, <1>4, <2>1
<1>8. \A i \in 1 .. Len(commands') :
        \/ i \in 1 .. Len(commands)
        \/ i - Len(commands) \in 1 .. Len(cmds) /\ Len(commands) + (i - Len(commands)) = i
  BY <1>2, <1>6
<1>9. SentWhole'
  <2>1. \A i \in 1 .. Len(commands') : commands'[i].op = "QUIT" => client' = "quitting"
    <3> TAKE i \in 1 .. Len(commands')
    <3>1. CASE i \in 1 .. Len(commands)
      BY <1>5, <1>6, <3>1
    <3>2. CASE i - Len(commands) \in 1 .. Len(cmds) /\ Len(commands) + (i - Len(commands)) = i
      <4> DEFINE j == i - Len(commands)
      <4>1. j \in 1 .. Len(cmds) /\ Len(commands) + j = i
        BY <3>2
      <4> HIDE DEF j
      <4>2. commands'[i] = cmds[j]
        BY <1>6, <4>1
      <4> QED
        BY <4>1, <4>2
    <3> QED
      BY <1>8, <3>1, <3>2
  <2>2. PipelinesIn(commands)'
    BY <1>6 DEF PipelinesIn, Covered, Follower
  <2> QED
    BY <2>1, <2>2 DEF SentWhole
<1>10. InStep'
  <2>1. \A i \in 1 .. Len(cmds) :
          Waiter(cmds[i]).op = cmds[i].op /\ Waiter(cmds[i]).by = cmds[i].by
    BY DEF Waiter
  <2>2. \A i \in 1 .. Len(commands') :
          pending'[i].op = commands'[i].op /\ pending'[i].by = commands'[i].by
    <3> TAKE i \in 1 .. Len(commands')
    <3>1. CASE i \in 1 .. Len(commands)
      BY <1>5, <1>6, <1>7, <3>1
    <3>2. CASE i - Len(commands) \in 1 .. Len(cmds) /\ Len(commands) + (i - Len(commands)) = i
      <4> DEFINE j == i - Len(commands)
      <4>1. j \in 1 .. Len(cmds) /\ Len(commands) + j = i /\ Len(pending) + j = i
        BY <1>5, <3>2
      <4> HIDE DEF j
      <4>2. commands'[i] = cmds[j] /\ pending'[i] = Waiter(cmds[j])
        BY <1>6, <1>7, <4>1
      <4> QED
        BY <2>1, <4>1, <4>2
    <3> QED
      BY <1>8, <3>1, <3>2
  <2>3. Len(pending') = Len(commands')
    BY <1>5, <1>6, <1>7
  <2> QED
    BY <2>2, <2>3 DEF InStep
<1>11. OnlyWhenOpen'
  BY DEF OnlyWhenOpen
<1>12. MultiFits(Server, 0)'
  <2>1. MultiFits(Server, 0)
    BY DEF IInv, Connection
  <2>2. CASE Len(commands) > 0
    <3>1. commands'[1] = commands[1] /\ Len(commands') > 0
      BY <1>2, <1>6, <2>2
    <3> QED
      BY <2>1, <2>2, <3>1 DEF MultiFits, Server, Covered, Whole
  <2>3. CASE Len(commands) = 0
    <3>1. commands'[1] = cmds[1]
      BY <1>2, <1>6, <2>3
    <3>2. ~multi.on /\ \A z \in Zones : Covered(multi.zones[z][1])
      BY <2>1, <2>3 DEF MultiFits, Server
    <3> QED
      BY <3>1, <3>2 DEF MultiFits, Server, Covered, Whole
  <2> QED
    BY <1>2, <2>2, <2>3
<1> QED
  BY <1>6, <1>7, <1>9, <1>10, <1>11, <1>12

(* The pipeline of a zone, as WriteZone sends it.                           *)
LEMMA CommandsFit ==
  ASSUME IInv, NEW c \in Cycles, NEW z \in Zones, cycle[c].stage = "publish"
  PROVE  /\ Commands(c, z) \in Seq(CommandRecords)
         /\ PipelinesIn(Commands(c, z))
         /\ Len(Commands(c, z)) = 5
         /\ Commands(c, z)[1].op = "MULTI"
         /\ \A i \in 1 .. 5 : Commands(c, z)[i].op # "QUIT" /\ Commands(c, z)[i].by = c
         /\ \A i \in 1 .. 5 : Commands(c, z)[i].op # "SELECT"
<1> DEFINE cmds == Commands(c, z)
           ops  == <<"MULTI", "DEL", "HSET1", "HSET2", "EXEC">>
           rows == cycle[c].read[z]
<1>1. rows \in Rows /\ Covered(rows)
  BY CycleTypes DEF CycleFits, ReadCovers, CycleRecords
<1>2. c \in 0 .. NumCycles
  BY DEF Cycles
<1> HIDE DEF rows
<1>3. \A op \in Ops : Command(op, c, z) = [op |-> op, by |-> c, zone |-> z, rows |-> rows]
  BY DEF Command, rows
<1>4. \A op \in Ops : Command(op, c, z) \in CommandRecords
  BY <1>1, <1>2, <1>3 DEF CommandRecords
<1>5. {"MULTI", "DEL", "HSET1", "HSET2", "EXEC"} \subseteq Ops
  BY DEF Ops
<1>6. cmds = <<Command("MULTI", c, z), Command("DEL", c, z), Command("HSET1", c, z),
               Command("HSET2", c, z), Command("EXEC", c, z)>>
  BY DEF Commands
<1> HIDE DEF cmds
<1>7. cmds \in Seq(CommandRecords) /\ Len(cmds) = 5
  BY <1>4, <1>5, <1>6
<1>8. /\ cmds[1] = Command("MULTI", c, z) /\ cmds[2] = Command("DEL", c, z)
      /\ cmds[3] = Command("HSET1", c, z) /\ cmds[4] = Command("HSET2", c, z)
      /\ cmds[5] = Command("EXEC", c, z)
  BY <1>6
<1>9. /\ cmds[1].op = "MULTI" /\ cmds[2].op = "DEL" /\ cmds[3].op = "HSET1"
      /\ cmds[4].op = "HSET2" /\ cmds[5].op = "EXEC"
  BY <1>3, <1>5, <1>8
<1>10. \A i \in 1 .. 5 : i = 1 \/ i = 2 \/ i = 3 \/ i = 4 \/ i = 5
  OBVIOUS
<1>11. \A i \in 1 .. 5 : cmds[i].by = c /\ cmds[i].zone = z /\ cmds[i].rows = rows
  BY <1>3, <1>5, <1>8, <1>10
<1>12. PipelinesIn(cmds)
  <2> SUFFICES ASSUME NEW i \in 1 .. 5
               PROVE  /\ Covered(cmds[i].rows)
                      /\ cmds[i].op \in {"MULTI", "DEL", "HSET1", "HSET2"} =>
                           /\ i < 5 /\ cmds[i].zone \in Zones
                           /\ cmds[i + 1].op = Follower(cmds[i].op)
                           /\ cmds[i + 1].zone = cmds[i].zone
                           /\ cmds[i + 1].rows = cmds[i].rows
                      /\ cmds[i].op \in {"SELECT", "EXEC"} /\ i < 5 =>
                           cmds[i + 1].op \in {"MULTI", "QUIT"}
                      /\ cmds[i].op = "QUIT" => i = 5
    BY <1>7 DEF PipelinesIn
  <2>1. CASE i < 5
    <3>1. i + 1 \in 1 .. 5
      BY <2>1
    <3>2. cmds[i].op \in {"MULTI", "DEL", "HSET1", "HSET2"}
          /\ cmds[i + 1].op = Follower(cmds[i].op)
      BY <1>9, <1>10, <2>1 DEF Follower
    <3> QED
      BY <1>1, <1>11, <2>1, <3>1, <3>2
  <2>2. CASE i = 5
    BY <1>1, <1>9, <1>11, <2>2
  <2> QED
    BY <2>1, <2>2
<1>13. \A i \in 1 .. 5 : cmds[i].op # "QUIT" /\ cmds[i].op # "SELECT"
  BY <1>9, <1>10
<1> QED
  BY <1>7, <1>9, <1>11, <1>12, <1>13 DEF cmds

(* The waiters of a pipeline that c has sent, after those that were there.  *)
LEMMA NewWaiters ==
  ASSUME IInv, NEW c \in 0 .. NumCycles, NEW cmds \in Seq(CommandRecords), Pipeline(cmds),
         \A i \in 1 .. Len(cmds) : cmds[i].by = c /\ cmds[i].op # "SELECT",
         \A i \in 1 .. Len(cmds) : cmds[i].op # "QUIT" => c # 0 /\ cycle'[c].stage = "reply",
         c = 0 => UNCHANGED cycle,
         c # 0 => cycle[c].stage \notin {"select", "reply"},
         \A d \in Cycles \ {c} : cycle'[d] = cycle[d]
  PROVE  WaitersCalled' /\ pending' \in Seq(WaiterRecords)
<1> DEFINE ws == [i \in DOMAIN cmds |-> Waiter(cmds[i])]
<1>1. pending' = pending \o ws
  BY DEF Pipeline
<1>2. pending \in Seq(WaiterRecords) /\ Len(pending) \in Nat /\ Len(cmds) \in Nat
  BY WaiterTypes
<1>3. /\ ws \in Seq(WaiterRecords) /\ Len(ws) = Len(cmds)
      /\ \A i \in 1 .. Len(cmds) : ws[i] = Waiter(cmds[i])
  <2>1. DOMAIN cmds = 1 .. Len(cmds) /\ Len(cmds) \in Nat
    OBVIOUS
  <2>2. \A x \in CommandRecords : Waiter(x) \in WaiterRecords
    BY DEF Waiter, WaiterRecords, CommandRecords
  <2>3. \A i \in 1 .. Len(cmds) : Waiter(cmds[i]) \in WaiterRecords
    BY <2>1, <2>2
  <2> QED
    BY <2>1, <2>3
<1> HIDE DEF ws
<1>4. /\ pending \o ws \in Seq(WaiterRecords) /\ Len(pending \o ws) = Len(pending) + Len(ws)
      /\ \A i \in 1 .. Len(pending) : (pending \o ws)[i] = pending[i]
      /\ \A i \in 1 .. Len(ws) : (pending \o ws)[Len(pending) + i] = ws[i]
  <2>1. pending \in Seq(WaiterRecords) /\ ws \in Seq(WaiterRecords)
    BY <1>2, <1>3
  <2> QED
    BY ONLY <2>1
<1>5. ASSUME NEW i \in 1 .. Len(pending')
      PROVE  /\ pending'[i].op # "QUIT" => pending'[i].by # 0
             /\ pending'[i].op = "SELECT" => i = 1
             /\ pending'[i].live /\ pending'[i].op # "QUIT" =>
                  cycle'[pending'[i].by].stage =
                    IF pending'[i].op = "SELECT" THEN "select" ELSE "reply"
  <2>1. CASE i \in 1 .. Len(pending)
    <3>1. pending'[i] = pending[i]
      BY <1>1, <1>4, <2>1
    <3>2. /\ pending[i].op # "QUIT" => pending[i].by # 0
          /\ pending[i].op = "SELECT" => i = 1
          /\ pending[i].live /\ pending[i].op # "QUIT" =>
               cycle[pending[i].by].stage =
                 IF pending[i].op = "SELECT" THEN "select" ELSE "reply"
      BY <2>1 DEF IInv, Connection, WaitersCalled
    <3>3. pending[i].by # 0 => pending[i].by \in Cycles
      BY <2>1, WaiterTypes
    <3> QED
      BY <3>1, <3>2, <3>3
  <2>2. CASE i \notin 1 .. Len(pending)
    <3> DEFINE j == i - Len(pending)
    <3>1. j \in 1 .. Len(cmds) /\ i = Len(pending) + j
      BY <1>1, <1>2, <1>3, <1>4, <2>2
    <3> HIDE DEF j
    <3>2. pending'[i] = Waiter(cmds[j])
      BY <1>1, <1>3, <1>4, <3>1
    <3>3. /\ Waiter(cmds[j]).op = cmds[j].op /\ Waiter(cmds[j]).by = cmds[j].by
      BY DEF Waiter
    <3> QED
      BY <3>1, <3>2, <3>3
  <2> QED
    BY <2>1, <2>2
<1>6. WaitersCalled'
  BY <1>5 DEF WaitersCalled
<1> QED
  BY <1>1, <1>4, <1>6

LEMMA WriteZoneKeeps == ASSUME IInv, NEW c \in Cycles, WriteZone(c) PROVE IInv'
<1> DEFINE cmds == Commands(c, Zone(c))
<1>1. /\ kind = "redis" /\ cycle[c].stage = "publish" /\ cycle[c].todo # {}
      /\ client \in {"open", "closed"} /\ Pipeline(cmds) /\ Goto(c, "reply")
      /\ UNCHANGED <<kind, storeVars, failures, db, tx, client, selected, multi>>
  BY DEF WriteZone
<1>2. version' = version
  BY <1>1 DEF storeVars
<1>3. Zone(c) \in Zones
  BY <1>1, CycleTypes, ZoneIsLeft
<1>4. /\ cmds \in Seq(CommandRecords) /\ PipelinesIn(cmds) /\ Len(cmds) = 5
      /\ cmds[1].op = "MULTI"
      /\ \A i \in 1 .. 5 : cmds[i].op # "QUIT" /\ cmds[i].op # "SELECT" /\ cmds[i].by = c
  BY <1>1, <1>3, CommandsFit
<1> HIDE DEF cmds
<1>5. /\ cycle' \in [Cycles -> CycleRecords] /\ cycle'[c].stage = "reply"
      /\ \A d \in Cycles \ {c} : cycle'[d] = cycle[d]
      /\ \A d \in Cycles : CycleFits(d)'
  BY <1>1, <1>2, RedisGoto
<1>6. WaitersCalled' /\ pending' \in Seq(WaiterRecords)
  <2>1. c \in 0 .. NumCycles /\ c # 0
    BY DEF Cycles
  <2> QED
    BY <1>1, <1>4, <1>5, <2>1, NewWaiters
<1>7. commands' \in Seq(CommandRecords) /\ SentWhole' /\ OnlyWhenOpen' /\ InStep'
      /\ MultiFits(Server, 0)'
  <2>1. CASE client = "open"
    <3>1. Len(cmds) > 0 /\ \A i \in 1 .. Len(cmds) : cmds[i].op = "QUIT" => client' = "quitting"
      BY <1>4
    <3>2. /\ client' = "open" /\ UNCHANGED <<multi, selected, db>>
          /\ cmds[1].op \in {"MULTI", "QUIT"}
      BY <1>1, <1>4, <2>1
    <3> QED
      BY <1>1, <1>4, <2>1, <3>1, <3>2, PipelineFits
  <2>2. CASE client = "closed"
    <3>1. commands = <<>> /\ ~multi.on /\ \A z \in Zones : Covered(multi.zones[z][1])
      BY <2>2, RedisTypes, OutsideMulti
    <3>2. commands' = commands /\ client' = "closed"
      BY <1>1, <2>2 DEF Pipeline
    <3> QED
      BY <1>1, <3>1, <3>2, NothingSent, WaiterTypes
  <2> QED
    BY <1>1, <2>1, <2>2
<1>8. ConnectOnce'
  BY <1>1, <1>5 DEF IInv, Connection, ConnectOnce
<1>9. Connection'
  BY <1>6, <1>7, <1>8 DEF Connection
<1>10. DbFits(Server)'
  BY <1>1, CycleTypes DEF DbFits, Server, Whole, Covered
<1> QED
  BY <1>1, <1>5, <1>6, <1>7, <1>9, <1>10, CycleTypes, RedisTypes, RedisStep

(* The types of what no cycle is named for.                                 *)
LEMMA AllTypes ==
  ASSUME IInv
  PROVE  /\ cycle \in [Cycles -> CycleRecords]
         /\ db \in [Zones -> Rows \X Rows]
         /\ failures \in 0 .. MaxFailures
         /\ DbFits(Server)
         /\ \A d \in Cycles : CycleFits(d)
BY DEF IInv, TypeOK, CycleRecords

LEMMA DisconnectKeeps == ASSUME IInv, Disconnect PROVE IInv'
<1> DEFINE cmd  == Control("QUIT", 0)
           cmds == <<cmd>>
<1>1. /\ NoCycle /\ client \in {"open", "closed", "dead"}
      /\ client' = CASE client = "dead" -> "none" [] client = "open" -> "quitting"
                     [] client = "closed" -> "stuck"
      /\ IF client = "dead" THEN UNCHANGED <<pending, commands>> ELSE Pipeline(cmds)
      /\ UNCHANGED <<kind, storeVars, failures, cycle, db, tx, selected, multi>>
  BY DEF Disconnect
<1>2. version' = version /\ kind # "powerdns"
  BY <1>1, RedisTypes DEF storeVars
<1>3. \A d \in Cycles : cycle[d].stage = "idle"
  BY <1>1 DEF NoCycle, Idle
<1>4. /\ cmd \in CommandRecords /\ cmd.op = "QUIT" /\ cmd.by = 0 /\ Covered(cmd.rows)
  <2>1. 0 \in 0 .. NumCycles
    BY DatabasePublishAssumption DEF DatabasePublishAssumption
  <2> QED
    BY <2>1, NoneCovers DEF Control, CommandRecords, Ops
<1> HIDE DEF cmd
<1>5. /\ cmds \in Seq(CommandRecords) /\ Len(cmds) = 1 /\ cmds[1] = cmd
      /\ \A i \in 1 .. 1 : i = 1
  BY <1>4
<1> HIDE DEF cmds
<1>6. PipelinesIn(cmds)
  BY <1>4, <1>5 DEF PipelinesIn
<1>7. \A d \in Cycles : CycleFits(d)'
  BY <1>1, <1>2, AllTypes, CycleKept
<1>8. ConnectOnce'
  BY <1>1, <1>3 DEF ConnectOnce
<1>9. client' \in Clients
  BY <1>1 DEF Clients
<1>10. DbFits(Server)'
  BY <1>1, AllTypes DEF DbFits, Server, Whole, Covered
<1>11. /\ WaitersCalled' /\ pending' \in Seq(WaiterRecords) /\ commands' \in Seq(CommandRecords)
       /\ SentWhole' /\ OnlyWhenOpen' /\ InStep' /\ MultiFits(Server, 0)'
  <2>1. CASE client = "dead"
    <3>1. commands = <<>> /\ ~multi.on /\ \A z \in Zones : Covered(multi.zones[z][1])
      BY <2>1, RedisTypes, OutsideMulti
    <3>2. client' = "none" /\ UNCHANGED <<pending, commands>>
      BY <1>1, <2>1
    <3>3. SentWhole' /\ OnlyWhenOpen' /\ InStep' /\ MultiFits(Server, 0)'
      BY <1>1, <3>1, <3>2, NothingSent
    <3>4. WaitersCalled'
      BY <1>1, <3>2 DEF IInv, Connection, WaitersCalled
    <3> QED
      BY <3>2, <3>3, <3>4, WaiterTypes
  <2>2. CASE client # "dead"
    <3>1. Pipeline(cmds)
      BY <1>1, <2>2
    <3>2. WaitersCalled' /\ pending' \in Seq(WaiterRecords)
      <4>1. 0 \in 0 .. NumCycles
        BY DatabasePublishAssumption DEF DatabasePublishAssumption
      <4> QED
        BY <1>1, <1>4, <1>5, <3>1, <4>1, NewWaiters
    <3>3. CASE client = "open"
      <4>1. client' = "quitting" /\ cmds[1].op \in {"MULTI", "QUIT"} /\ Len(cmds) > 0
        BY <1>1, <1>4, <1>5, <3>3
      <4>2. UNCHANGED <<multi, selected, db>>
        BY <1>1
      <4> QED
        BY <1>5, <1>6, <3>1, <3>2, <3>3, <4>1, <4>2, PipelineFits
    <3>4. CASE client = "closed"
      <4>1. commands = <<>> /\ ~multi.on /\ \A z \in Zones : Covered(multi.zones[z][1])
        BY <3>4, RedisTypes, OutsideMulti
      <4>2. commands' = commands /\ client' = "stuck"
        BY <1>1, <3>1, <3>4 DEF Pipeline
      <4> QED
        BY <1>1, <3>2, <4>1, <4>2, NothingSent, WaiterTypes
    <3> QED
      BY <1>1, <2>2, <3>3, <3>4
  <2> QED
    BY <2>1, <2>2
<1>12. Connection'
  BY <1>8, <1>11 DEF Connection
<1>13. UNCHANGED <<kind, storeVars, tx>> /\ UNCHANGED <<failures, cycle, db, selected, multi>>
  BY <1>1, Zenon
<1> QED
  BY <1>2, <1>7, <1>9, <1>10, <1>11, <1>12, <1>13, CycleTypes, RedisTypes, AllTypes, RedisStep

-----------------------------------------------------------------------------
(* Replies.                                                                 *)
(* The waiters after a reply are those after the first, each with the same  *)
(* op and cycle, and none is live that was not.                             *)
LEMMA WaitersShift ==
  ASSUME IInv, pending # <<>>,
         pending' = Tail(pending) \/ pending' = Waiters(Head(pending).by)
  PROVE  /\ pending' \in Seq(WaiterRecords)
         /\ Len(pending) \in Nat \ {0} /\ Len(pending') = Len(pending) - 1
         /\ \A i \in 1 .. Len(pending') :
              /\ i + 1 \in 2 .. Len(pending)
              /\ pending'[i].op = pending[i + 1].op /\ pending'[i].by = pending[i + 1].by
              /\ pending'[i].live => pending[i + 1].live
              /\ pending' # Tail(pending) /\ pending'[i].live =>
                   pending'[i].by # Head(pending).by
<1> DEFINE t == Tail(pending)
           b == Head(pending).by
<1>1. pending \in Seq(WaiterRecords)
  BY WaiterTypes
<1>2. /\ t \in Seq(WaiterRecords) /\ Len(pending) \in Nat \ {0} /\ Len(t) = Len(pending) - 1
      /\ \A i \in 1 .. Len(t) : t[i] = pending[i + 1]
  BY <1>1
<1>3. DOMAIN t = 1 .. Len(t)
  BY <1>2
<1> HIDE DEF t, b
<1>4. \A i \in 1 .. Len(t) : i + 1 \in 2 .. Len(pending)
  BY <1>2
<1>5. CASE pending' = t
  BY <1>2, <1>4, <1>5 DEF t
<1>6. CASE pending' = Waiters(b)
  <2>1. pending' = [i \in 1 .. Len(t) |-> [t[i] EXCEPT !.live = @ /\ t[i].by # b]]
    BY <1>3, <1>6 DEF Waiters, t
  <2>2. ASSUME NEW w \in WaiterRecords
        PROVE  [w EXCEPT !.live = @ /\ w.by # b] \in WaiterRecords
    BY DEF WaiterRecords
  <2>3. \A i \in 1 .. Len(t) : t[i] \in WaiterRecords
    BY <1>2
  <2>4. \A i \in 1 .. Len(t) : [t[i] EXCEPT !.live = @ /\ t[i].by # b] \in WaiterRecords
    BY <2>2, <2>3
  <2>5. Len(t) \in Nat
    BY <1>2
  <2>6. pending' \in Seq(WaiterRecords) /\ Len(pending') = Len(t)
    BY <2>1, <2>4, <2>5
  <2>7. \A i \in 1 .. Len(t) : pending'[i] = [t[i] EXCEPT !.live = @ /\ t[i].by # b]
    BY <2>1
  <2>8. ASSUME NEW w \in WaiterRecords, NEW v, v = [w EXCEPT !.live = @ /\ w.by # b]
        PROVE  v.op = w.op /\ v.by = w.by /\ (v.live => w.live /\ w.by # b)
    BY <2>8 DEF WaiterRecords
  <2>9. \A i \in 1 .. Len(t) :
          /\ pending'[i].op = t[i].op /\ pending'[i].by = t[i].by
          /\ pending'[i].live => t[i].live /\ t[i].by # b
    BY <2>3, <2>7, <2>8
  <2> QED
    BY <1>2, <1>4, <2>6, <2>9 DEF b
<1> QED
  BY <1>5, <1>6 DEF t, b

(* The cycle of the first waiter.                                           *)
LEMMA FirstWaiter ==
  ASSUME IInv, commands # <<>>
  PROVE  /\ pending # <<>> /\ client \in {"open", "quitting"} /\ kind # "powerdns"
         /\ Head(pending) = pending[1] /\ Head(commands) = commands[1]
         /\ Len(pending) = Len(commands) /\ Len(commands) \in Nat \ {0}
         /\ pending[1].op = commands[1].op
         /\ pending[1].op # "QUIT" => pending[1].by \in Cycles
         /\ pending[1].live /\ pending[1].op # "QUIT" =>
              cycle[pending[1].by].stage = IF pending[1].op = "SELECT" THEN "select" ELSE "reply"
         /\ pending[1] \in WaiterRecords /\ commands[1] \in CommandRecords
<1>1. client \in {"open", "quitting"} /\ kind # "powerdns"
  BY RedisTypes
<1>2. Len(pending) = Len(commands) /\ Len(commands) \in Nat \ {0}
  BY <1>1, WaiterTypes DEF IInv, Connection, InStep
<1>3. 1 \in 1 .. Len(commands) /\ 1 \in 1 .. Len(pending)
  BY <1>2
<1>4. pending[1].op = commands[1].op
  BY <1>1, <1>3 DEF IInv, Connection, InStep
<1>5. pending # <<>> /\ Head(pending) = pending[1] /\ Head(commands) = commands[1]
  BY <1>2, WaiterTypes
<1>6. /\ pending[1].op # "QUIT" => pending[1].by # 0
      /\ pending[1].live /\ pending[1].op # "QUIT" =>
           cycle[pending[1].by].stage = IF pending[1].op = "SELECT" THEN "select" ELSE "reply"
  BY <1>3 DEF IInv, Connection, WaitersCalled
<1>7. pending[1] \in WaiterRecords /\ commands[1] \in CommandRecords
      /\ (pending[1].by # 0 => pending[1].by \in Cycles)
  BY <1>3, WaiterTypes
<1> QED
  BY <1>1, <1>2, <1>4, <1>5, <1>6, <1>7

(* A reply moves the cycle of its waiter alone, and only if none of the     *)
(* waiters that are left holds that cycle up.                               *)
LEMMA ReplyMoves ==
  ASSUME IInv, commands # <<>>, NEW ok \in BOOLEAN, OnReply(ok),
         Head(commands).op = "QUIT" => ok,
         UNCHANGED <<kind, version, tx>>
  PROVE  /\ cycle' \in [Cycles -> CycleRecords]
         /\ \A d \in Cycles : CycleFits(d)'
         /\ \A d \in Cycles : cycle'[d].stage = "connect" => cycle[d].stage = "connect"
         /\ WaitersCalled'
<1> DEFINE w == Head(pending)
           last == ~\E i \in 2 .. Len(pending) : pending[i].live /\ pending[i].by = w.by
<1>1. /\ pending' = IF w.live /\ ~ok THEN Waiters(w.by) ELSE Tail(pending)
      /\ \/ cycle' = cycle
         \/ /\ w.op # "QUIT" /\ w.live
            /\ \/ ~ok /\ End(w.by)
               \/ last /\ w.op = "SELECT" /\ Goto(w.by, "publish")
               \/ last /\ w.op # "SELECT" /\ NextZone(w.by)
  BY DEF OnReply
<1>2. /\ pending' \in Seq(WaiterRecords)
      /\ Len(pending) \in Nat \ {0} /\ Len(pending') = Len(pending) - 1
      /\ \A i \in 1 .. Len(pending') :
           /\ i + 1 \in 2 .. Len(pending)
           /\ pending'[i].op = pending[i + 1].op /\ pending'[i].by = pending[i + 1].by
           /\ pending'[i].live => pending[i + 1].live
           /\ pending' # Tail(pending) /\ pending'[i].live => pending'[i].by # w.by
  BY <1>1, FirstWaiter, WaitersShift
<1>3. /\ w = pending[1]
      /\ w.op # "QUIT" => w.by \in Cycles
      /\ w.live /\ w.op # "QUIT" =>
           cycle[w.by].stage = IF w.op = "SELECT" THEN "select" ELSE "reply"
  BY FirstWaiter
<1>4. ASSUME w.op # "QUIT", w.live, cycle' # cycle
      PROVE  \A i \in 1 .. Len(pending') : pending'[i].live => pending'[i].by # w.by
  <2>1. CASE ok
    <3>1. last
      BY <1>1, <1>4, <2>1
    <3> QED
      BY <1>2, <3>1
  <2>2. CASE ~ok
    <3>1. pending' = Waiters(w.by)
      BY <1>1, <1>4, <2>2
    <3>2. CASE pending' # Tail(pending)
      BY <1>2, <3>2
    <3>3. CASE pending' = Tail(pending)
      <4>1. \A i \in DOMAIN Tail(pending) : Waiters(w.by)[i].live => Tail(pending)[i].by # w.by
        <5> SUFFICES ASSUME NEW i \in DOMAIN Tail(pending), Waiters(w.by)[i].live
                     PROVE  Tail(pending)[i].by # w.by
          OBVIOUS
        <5>1. Tail(pending)[i] \in WaiterRecords
          BY WaiterTypes, FirstWaiter
        <5>2. Waiters(w.by)[i] =
                [Tail(pending)[i] EXCEPT !.live = @ /\ Tail(pending)[i].by # w.by]
          BY DEF Waiters
        <5> QED
          BY <5>1, <5>2 DEF WaiterRecords
      <4>2. \A i \in 1 .. Len(pending') : i \in DOMAIN Tail(pending)
        BY <1>2, <3>3
      <4> QED
        BY <3>1, <3>3, <4>1, <4>2
    <3> QED
      BY <3>2, <3>3
  <2> QED
    BY <2>1, <2>2
<1> HIDE DEF last, w
<1>5. CASE cycle' = cycle
  <2>1. \A d \in Cycles : CycleFits(d)'
    BY <1>5, AllTypes, CycleKept
  <2>2. ASSUME NEW i \in 1 .. Len(pending')
        PROVE  /\ pending'[i].op # "QUIT" => pending'[i].by # 0
               /\ pending'[i].op # "SELECT"
               /\ pending'[i].live /\ pending'[i].op # "QUIT" =>
                    cycle[pending'[i].by].stage = "reply"
    <3>1. i + 1 \in 1 .. Len(pending) /\ i + 1 # 1
      BY <1>2
    <3>2. /\ pending[i + 1].op # "QUIT" => pending[i + 1].by # 0
          /\ pending[i + 1].op # "SELECT"
          /\ pending[i + 1].live /\ pending[i + 1].op # "QUIT" =>
               cycle[pending[i + 1].by].stage = "reply"
      BY <3>1 DEF IInv, Connection, WaitersCalled
    <3> QED
      BY <1>2, <3>2
  <2>3. WaitersCalled'
    BY <1>5, <2>2 DEF WaitersCalled
  <2> QED
    BY <1>5, <2>1, <2>3, AllTypes
<1>6. CASE cycle' # cycle
  <2>1. PICK c \in Cycles : c = w.by
    BY <1>1, <1>3, <1>6
  <2>2. w.op # "QUIT" /\ w.live /\ cycle[c].stage \in {"select", "reply"}
    BY <1>1, <1>3, <1>6, <2>1
  <2>3. tx'[c] = NoTx
    BY <2>2, CycleTypes DEF Writing
  <2>4. /\ cycle' \in [Cycles -> CycleRecords]
        /\ CycleFits(c)' /\ cycle'[c].stage # "connect"
        /\ \A d \in Cycles \ {c} : cycle'[d] = cycle[d]
    <3>1. CASE End(c)
      <4>1. /\ cycle' \in [Cycles -> CycleRecords] /\ cycle'[c] = Idle
            /\ \A d \in Cycles \ {c} : cycle'[d] = cycle[d]
        BY <3>1, CycleTypes, EndFacts
      <4>2. CycleFits(c)'
        BY <2>3, <4>1, IdleFits
      <4> QED
        BY <4>1, <4>2 DEF Idle
    <3>2. CASE w.op = "SELECT" /\ Goto(c, "publish")
      <4>1. cycle[c].stage = "select"
        BY <1>3, <2>1, <2>2, <3>2
      <4> QED
        BY <3>2, <4>1, RedisGoto
    <3>3. CASE w.op # "SELECT" /\ NextZone(c)
      <4>1. cycle[c].stage \notin {"zones", "records", "ns"}
        BY <2>2
      <4>2. CycleFits(c)'
        BY <2>3, <3>3, <4>1, NextZoneFits
      <4> QED
        BY <3>3, <4>2, CycleTypes, NextZoneFacts
    <3> QED
      BY <1>1, <1>6, <2>1, <3>1, <3>2, <3>3
  <2>5. \A d \in Cycles : CycleFits(d)'
    <3>1. \A d \in Cycles \ {c} : CycleFits(d)'
      BY <2>4, AllTypes, CycleKept
    <3> QED
      BY <2>4, <3>1
  <2>6. ASSUME NEW i \in 1 .. Len(pending')
        PROVE  /\ pending'[i].op # "QUIT" => pending'[i].by # 0
               /\ pending'[i].op # "SELECT"
               /\ pending'[i].live /\ pending'[i].op # "QUIT" =>
                    cycle'[pending'[i].by].stage = "reply"
    <3>1. i + 1 \in 1 .. Len(pending) /\ i + 1 # 1
      BY <1>2
    <3>2. /\ pending[i + 1].op # "QUIT" => pending[i + 1].by # 0
          /\ pending[i + 1].op # "SELECT"
          /\ pending[i + 1].live /\ pending[i + 1].op # "QUIT" =>
               cycle[pending[i + 1].by].stage = "reply"
      BY <3>1 DEF IInv, Connection, WaitersCalled
    <3>3. pending[i + 1].by # 0 => pending[i + 1].by \in Cycles
      BY <3>1, WaiterTypes
    <3>4. pending'[i].live => pending'[i].by # w.by
      BY <1>4, <1>6, <2>2
    <3> QED
      BY <1>2, <2>1, <2>4, <3>2, <3>3, <3>4
  <2>7. WaitersCalled'
    BY <2>6 DEF WaitersCalled
  <2> QED
    BY <2>4, <2>5, <2>7
<1> QED
  BY <1>5, <1>6

(* And the connection, but for the server at its other end, fits again.     *)
LEMMA ReplyFits ==
  ASSUME IInv, commands # <<>>, NEW ok \in BOOLEAN, OnReply(ok),
         Head(commands).op = "QUIT" => ok,
         commands' = Tail(commands),
         UNCHANGED <<kind, version, tx>>
  PROVE  /\ pending' \in Seq(WaiterRecords) /\ commands' \in Seq(CommandRecords)
         /\ client' \in Clients
         /\ ConnectOnce' /\ SentWhole' /\ OnlyWhenOpen' /\ InStep'
         /\ Len(commands') = Len(commands) - 1 /\ Len(commands) \in Nat \ {0}
         /\ \A i \in 1 .. Len(commands') : commands'[i] = commands[i + 1]
<1>1. /\ pending' = IF Head(pending).live /\ ~ok THEN Waiters(Head(pending).by) ELSE Tail(pending)
      /\ client' = IF Head(pending).op = "QUIT" THEN "none" ELSE client
  BY DEF OnReply
<1>2. /\ pending # <<>> /\ client \in {"open", "quitting"}
      /\ Head(pending) = pending[1] /\ Head(commands) = commands[1]
      /\ pending[1].op = commands[1].op
      /\ Len(pending) = Len(commands) /\ Len(commands) \in Nat \ {0}
  BY FirstWaiter
<1>3. /\ pending' \in Seq(WaiterRecords) /\ Len(pending') = Len(pending) - 1
      /\ \A i \in 1 .. Len(pending') :
           pending'[i].op = pending[i + 1].op /\ pending'[i].by = pending[i + 1].by
  BY <1>1, <1>2, WaitersShift
<1>4. /\ PipelinesIn(commands)
      /\ \A i \in 1 .. Len(commands) : commands[i].op = "QUIT" => client = "quitting"
      /\ \A i \in 1 .. Len(commands) :
           pending[i].op = commands[i].op /\ pending[i].by = commands[i].by
  BY <1>2 DEF IInv, Connection, SentWhole, InStep
<1>5. /\ PipelinesIn(commands') /\ commands' \in Seq(CommandRecords)
      /\ Len(commands') = Len(commands) - 1
      /\ \A i \in 1 .. Len(commands') : commands'[i] = commands[i + 1]
  <2>1. commands \in Seq(CommandRecords)
    BY WaiterTypes
  <2>2. /\ PipelinesIn(Tail(commands)) /\ Tail(commands) \in Seq(CommandRecords)
        /\ Len(Tail(commands)) = Len(commands) - 1
        /\ \A i \in 1 .. Len(commands) - 1 : Tail(commands)[i] = commands[i + 1]
    BY <1>4, <2>1, PipelinesTail
  <2> QED
    BY <2>2
<1>6. commands[1].op = "QUIT" => Len(commands) = 1
  <2>1. 1 \in 1 .. Len(commands)
    BY <1>2
  <2> QED
    BY <1>4, <2>1, Zenon DEF PipelinesIn
<1>7. \A i \in 1 .. Len(commands') : i + 1 \in 1 .. Len(commands)
  BY <1>2, <1>5
<1>8. SentWhole'
  <2>1. ASSUME NEW i \in 1 .. Len(commands'), commands'[i].op = "QUIT" PROVE client' = "quitting"
    <3>1. commands[1].op # "QUIT"
      BY <1>2, <1>5, <1>6
    <3>2. commands[i + 1].op = "QUIT"
      BY <1>5, <2>1
    <3>3. client = "quitting"
      BY <1>4, <1>7, <3>2
    <3> QED
      BY <1>1, <1>2, <3>1, <3>3
  <2>2. PipelinesIn(commands)'
    BY <1>5 DEF PipelinesIn, Covered, Follower
  <2> QED
    BY <2>1, <2>2 DEF SentWhole
<1>9. OnlyWhenOpen'
  <2>1. CASE commands[1].op = "QUIT"
    <3>1. Len(commands') = 0
      BY <1>5, <1>6, <2>1
    <3> QED
      BY <1>5, <3>1 DEF OnlyWhenOpen
  <2>2. CASE commands[1].op # "QUIT"
    BY <1>1, <1>2, <2>2 DEF OnlyWhenOpen
  <2> QED
    BY <2>1, <2>2
<1>10. InStep'
  <2>1. \A i \in 1 .. Len(commands') :
          pending'[i].op = commands'[i].op /\ pending'[i].by = commands'[i].by
    BY <1>2, <1>3, <1>4, <1>5, <1>7
  <2> QED
    BY <1>2, <1>3, <1>5, <2>1 DEF InStep
<1>11. ConnectOnce' /\ client' \in Clients
  <2>1. \A d \in Cycles : cycle'[d].stage # "connect"
    <3>1. \A d \in Cycles : cycle'[d].stage = "connect" => cycle[d].stage = "connect"
      BY ReplyMoves
    <3> QED
      BY <1>2, <3>1 DEF IInv, Connection, ConnectOnce
  <2> QED
    BY <1>1, <1>2, <2>1 DEF ConnectOnce, Clients
<1> QED
  BY <1>2, <1>3, <1>5, <1>8, <1>9, <1>10, <1>11

-----------------------------------------------------------------------------
(* The server.                                                              *)
(* What a command makes of the zones of a server outside the command's own. *)
LEMMA WrittenFacts ==
  ASSUME NEW zones \in [Zones -> Rows \X Rows], NEW cmd \in CommandRecords,
         IsWrite(cmd), cmd.zone \in Zones
  PROVE  /\ Written(zones, cmd) \in [Zones -> Rows \X Rows]
         /\ \A z \in Zones \ {cmd.zone} : Written(zones, cmd)[z] = zones[z]
         /\ cmd.op = "DEL" => Written(zones, cmd)[cmd.zone] = Absent
         /\ cmd.op = "HSET1" => Written(zones, cmd)[cmd.zone] = <<cmd.rows, zones[cmd.zone][2]>>
         /\ cmd.op = "HSET2" => Written(zones, cmd)[cmd.zone] = <<zones[cmd.zone][1], cmd.rows>>
<1> DEFINE a == Applied(cmd.op, zones[cmd.zone], cmd.rows)
<1>1. cmd.op \in {"DEL", "HSET1", "HSET2"} /\ cmd.rows \in Rows
  BY DEF IsWrite, CommandRecords
<1>2. zones[cmd.zone] \in Rows \X Rows
  OBVIOUS
<1>3. Absent \in Rows \X Rows
  BY NoneCovers DEF Absent
<1>4. /\ cmd.op = "DEL" => a = Absent
      /\ cmd.op = "HSET1" => a = <<cmd.rows, zones[cmd.zone][2]>>
      /\ cmd.op = "HSET2" => a = <<zones[cmd.zone][1], cmd.rows>>
  BY DEF Applied
<1>5. a \in Rows \X Rows
  BY <1>1, <1>2, <1>3, <1>4
<1>6. Written(zones, cmd) = [zones EXCEPT ![cmd.zone] = a]
  BY DEF Written
<1> HIDE DEF a
<1> QED
  BY <1>4, <1>5, <1>6

(* A command, run by a server that fits with the first k run, leaves one    *)
(* that fits with the next.                                                 *)
LEMMA ExecutedFits ==
  ASSUME IInv, NEW k \in Nat, k < Len(commands),
         NEW s \in States, DbFits(s), MultiFits(s, k)
  PROVE  LET e == Executed(s, commands[k + 1])
         IN  e \in States /\ DbFits(e) /\ MultiFits(e, k + 1)
<1> DEFINE cmd == commands[k + 1]
           e   == Executed(s, cmd)
           n   == Len(commands)
<1>1. k + 1 \in 1 .. n /\ n \in Nat
  BY WaiterTypes
<1>2. cmd \in CommandRecords /\ cmd.op \in Ops /\ cmd.rows \in Rows
  BY <1>1, WaiterTypes DEF CommandRecords
<1>3. /\ Covered(cmd.rows)
      /\ cmd.op \in {"MULTI", "DEL", "HSET1", "HSET2"} =>
           /\ k + 1 < n /\ cmd.zone \in Zones
           /\ commands[k + 1 + 1].op = Follower(cmd.op)
           /\ commands[k + 1 + 1].zone = cmd.zone
           /\ commands[k + 1 + 1].rows = cmd.rows
      /\ cmd.op \in {"SELECT", "EXEC"} /\ k + 1 < n =>
           commands[k + 1 + 1].op \in {"MULTI", "QUIT"}
      /\ cmd.op = "QUIT" => k + 1 = n
  <2>1. PipelinesIn(commands)
    BY DEF IInv, Connection, SentWhole
  <2> HIDE DEF cmd
  <2> QED
    BY <1>1, <2>1, Zenon DEF PipelinesIn, cmd
<1>4. /\ s.db \in [Zones -> Rows \X Rows] /\ s.selected \in BOOLEAN
      /\ s.multi.zones \in [Zones -> Rows \X Rows]
      /\ s.multi.on \in BOOLEAN /\ s.multi.aborted \in BOOLEAN /\ s.multi \in MultiRecords
  BY DEF States, MultiRecords
<1>5. \A z \in Zones : Whole(s.db[z]) /\ Covered(s.db[z][1]) /\ Covered(s.multi.zones[z][1])
  BY DEF DbFits, MultiFits
<1>6. s.multi.on <=> cmd.op \in {"DEL", "HSET1", "HSET2", "EXEC"}
  BY <1>1 DEF MultiFits
<1>7. s.multi.on /\ ~s.multi.aborted =>
        \A z \in Zones : IF cmd.op = "HSET2" /\ cmd.zone = z /\ s.selected
                         THEN s.multi.zones[z][1] = cmd.rows
                         ELSE Whole(s.multi.zones[z])
  BY DEF MultiFits
<1>8. NoMulti \in MultiRecords /\ ~NoMulti.on /\ \A z \in Zones : NoMulti.zones[z] = Absent
  BY NoneCovers DEF NoMulti, MultiRecords, Absent
<1>9. /\ e.db = CASE s.multi.on /\ cmd.op = "EXEC" /\ ~s.multi.aborted -> s.multi.zones
                  [] ~s.multi.on /\ IsWrite(cmd) /\ s.selected -> Written(s.db, cmd)
                  [] OTHER -> s.db
      /\ e.multi =
           CASE cmd.op = "MULTI" -> [on |-> TRUE, aborted |-> FALSE, zones |-> s.db]
             [] cmd.op = "EXEC"  -> NoMulti
             [] s.multi.on /\ IsWrite(cmd) /\ s.selected ->
                  [s.multi EXCEPT !.zones = Written(s.multi.zones, cmd)]
             [] OTHER -> s.multi
      /\ e.selected = (s.selected \/ cmd.op = "SELECT")
      /\ e = [db |-> e.db, multi |-> e.multi, selected |-> e.selected]
  BY DEF Executed
<1> DEFINE after == commands[k + 1 + 1]
<1> HIDE DEF cmd, e, n, after
<1>10. SUFFICES /\ e.db \in [Zones -> Rows \X Rows] /\ e.multi \in MultiRecords
                /\ \A z \in Zones : Whole(e.db[z]) /\ Covered(e.db[z][1])
                                    /\ Covered(e.multi.zones[z][1])
                /\ e.multi.on <=> k + 1 < n /\ after.op \in {"DEL", "HSET1", "HSET2", "EXEC"}
                /\ e.multi.on /\ ~e.multi.aborted =>
                     \A z \in Zones : IF after.op = "HSET2" /\ after.zone = z /\ e.selected
                                      THEN e.multi.zones[z][1] = after.rows
                                      ELSE Whole(e.multi.zones[z])
  <2>1. e.selected \in BOOLEAN
    BY <1>4, <1>9
  <2>2. e \in States
    BY <1>9, <1>10, <2>1 DEF States, MultiRecords
  <2>3. DbFits(e)
    BY <1>10 DEF DbFits
  <2>4. MultiFits(e, k + 1)
    BY <1>10 DEF MultiFits, after, n
  <2> QED
    BY <2>2, <2>3, <2>4 DEF e, cmd
<1>11. CASE cmd.op \in {"SELECT", "QUIT"}
  <2>1. ~s.multi.on /\ ~IsWrite(cmd)
    BY <1>6, <1>11 DEF IsWrite
  <2>2. e.db = s.db /\ e.multi = s.multi
    BY <1>9, <1>11, <2>1
  <2>3. ~(k + 1 < n /\ after.op \in {"DEL", "HSET1", "HSET2", "EXEC"})
    BY <1>1, <1>3, <1>11 DEF after
  <2> QED
    BY <1>4, <1>5, <2>1, <2>2, <2>3
<1>12. CASE cmd.op = "MULTI"
  <2>1. ~s.multi.on /\ ~IsWrite(cmd)
    BY <1>6, <1>12 DEF IsWrite
  <2>2. e.db = s.db /\ e.multi = [on |-> TRUE, aborted |-> FALSE, zones |-> s.db]
    BY <1>9, <1>12, <2>1
  <2>3. k + 1 < n /\ after.op = "DEL"
    BY <1>3, <1>12 DEF after, Follower
  <2> QED
    BY <1>4, <1>5, <2>2, <2>3 DEF MultiRecords
<1>13. CASE cmd.op = "EXEC"
  <2>1. s.multi.on /\ ~IsWrite(cmd)
    BY <1>6, <1>13 DEF IsWrite
  <2>2. e.multi = NoMulti /\ e.db = IF s.multi.aborted THEN s.db ELSE s.multi.zones
    BY <1>9, <1>13, <2>1
  <2>3. ~(k + 1 < n /\ after.op \in {"DEL", "HSET1", "HSET2", "EXEC"})
    BY <1>3, <1>13 DEF after
  <2>4. ~s.multi.aborted => \A z \in Zones : Whole(s.multi.zones[z])
    BY <1>7, <1>13, <2>1
  <2>5. \A z \in Zones : Whole(e.db[z]) /\ Covered(e.db[z][1])
    BY <1>5, <2>2, <2>4
  <2>6. \A z \in Zones : Covered(e.multi.zones[z][1])
    BY <1>8, <2>2, NoneCovers DEF Absent
  <2> QED
    BY <1>4, <1>8, <2>2, <2>3, <2>5, <2>6
<1>14. CASE cmd.op \in {"DEL", "HSET1", "HSET2"}
  <2>1. s.multi.on /\ IsWrite(cmd) /\ cmd.zone \in Zones /\ k + 1 < n
    BY <1>3, <1>6, <1>14 DEF IsWrite
  <2>2. e.db = s.db /\ e.selected = s.selected
    BY <1>4, <1>9, <1>14, <2>1
  <2>3. after.op = Follower(cmd.op) /\ after.zone = cmd.zone /\ after.rows = cmd.rows
    BY <1>3, <1>14 DEF after
  <2>4. after.op \in {"HSET1", "HSET2", "EXEC"}
        /\ (after.op = "HSET2" <=> cmd.op = "HSET1")
    BY <1>14, <2>3 DEF Follower
  <2>5. CASE ~s.selected
    <3>1. e.multi = s.multi
      BY <1>9, <1>14, <2>1, <2>5
    <3>2. s.multi.on /\ ~s.multi.aborted => \A z \in Zones : Whole(s.multi.zones[z])
      BY <1>7, <2>5
    <3> QED
      BY <1>4, <1>5, <2>1, <2>2, <2>4, <2>5, <3>1, <3>2
  <2>6. CASE s.selected
    <3> DEFINE zs == Written(s.multi.zones, cmd)
    <3>1. e.multi = [s.multi EXCEPT !.zones = zs]
      BY <1>9, <1>14, <2>1, <2>6
    <3>2. /\ zs \in [Zones -> Rows \X Rows]
          /\ \A z \in Zones \ {cmd.zone} : zs[z] = s.multi.zones[z]
          /\ cmd.op = "DEL" => zs[cmd.zone] = Absent
          /\ cmd.op = "HSET1" => zs[cmd.zone] = <<cmd.rows, s.multi.zones[cmd.zone][2]>>
          /\ cmd.op = "HSET2" => zs[cmd.zone] = <<s.multi.zones[cmd.zone][1], cmd.rows>>
      BY <1>2, <1>4, <2>1, WrittenFacts
    <3> HIDE DEF zs
    <3>3. /\ e.multi \in MultiRecords /\ e.multi.zones = zs
          /\ e.multi.on = s.multi.on /\ e.multi.aborted = s.multi.aborted
      BY <1>4, <3>1, <3>2 DEF MultiRecords
    <3>4. zs[cmd.zone][1] \in {None, cmd.rows, s.multi.zones[cmd.zone][1]}
      BY <1>14, <3>2 DEF Absent
    <3>5. \A z \in Zones : Covered(zs[z][1])
      <4> TAKE z \in Zones
      <4>1. CASE z = cmd.zone
        BY <1>3, <1>5, <3>4, <4>1, NoneCovers
      <4>2. CASE z # cmd.zone
        BY <1>5, <3>2, <4>2
      <4> QED
        BY <4>1, <4>2
    <3>6. ~s.multi.aborted =>
            \A z \in Zones : IF after.op = "HSET2" /\ after.zone = z /\ s.selected
                             THEN zs[z][1] = after.rows ELSE Whole(zs[z])
      <4> SUFFICES ASSUME ~s.multi.aborted, NEW z \in Zones
                   PROVE  IF after.op = "HSET2" /\ after.zone = z /\ s.selected
                          THEN zs[z][1] = after.rows ELSE Whole(zs[z])
        OBVIOUS
      <4>1. IF cmd.op = "HSET2" /\ cmd.zone = z /\ s.selected
            THEN s.multi.zones[z][1] = cmd.rows ELSE Whole(s.multi.zones[z])
        BY <1>7, <2>1
      <4>2. CASE z # cmd.zone
        BY <2>3, <3>2, <4>1, <4>2
      <4>3. CASE z = cmd.zone /\ cmd.op = "DEL"
        BY <2>4, <3>2, <4>3 DEF Whole, Absent
      <4>4. CASE z = cmd.zone /\ cmd.op = "HSET1"
        BY <2>3, <2>4, <2>6, <3>2, <4>4
      <4>5. CASE z = cmd.zone /\ cmd.op = "HSET2"
        BY <2>4, <2>6, <3>2, <4>1, <4>5 DEF Whole
      <4> QED
        BY <1>14, <4>2, <4>3, <4>4, <4>5
    <3> QED
      BY <1>4, <1>5, <2>1, <2>2, <2>4, <3>3, <3>5, <3>6
  <2> QED
    BY <1>4, <2>5, <2>6
<1> QED
  BY <1>2, <1>11, <1>12, <1>13, <1>14 DEF Ops

LEMMA ServerIsState == ASSUME IInv PROVE Server \in States
BY DEF IInv, TypeOK, Server, States

LEMMA RunCommandKeeps == ASSUME IInv, RunCommand PROVE IInv'
<1> DEFINE cmd == commands[0 + 1]
           e   == Executed(Server, cmd)
           ok  == ~(cmd.op = "EXEC" /\ multi.aborted)
<1>1. Head(commands) = commands[0 + 1] /\ kind # "powerdns" /\ Len(commands) \in Nat \ {0}
  <2>1. commands # <<>>
    BY DEF RunCommand
  <2> QED
    BY <2>1, FirstWaiter
<1>2. /\ commands # <<>> /\ commands' = Tail(commands)
      /\ db' = e.db /\ multi' = e.multi
      /\ selected' = (e.selected /\ cmd.op # "QUIT")
      /\ OnReply(ok)
      /\ UNCHANGED <<kind, storeVars, failures, tx>>
  BY <1>1 DEF RunCommand
<1>3. UNCHANGED <<kind, version, tx>>
  BY <1>2 DEF storeVars
<1>4. e \in States /\ DbFits(e) /\ MultiFits(e, 0 + 1)
  BY <1>1, ServerIsState, ExecutedFits DEF IInv, Connection
<1>5. ok \in BOOLEAN /\ (Head(commands).op = "QUIT" => ok)
  BY <1>1
<1> HIDE DEF e, ok, cmd
<1>6. /\ cycle' \in [Cycles -> CycleRecords] /\ \A d \in Cycles : CycleFits(d)'
      /\ WaitersCalled'
  BY <1>2, <1>3, <1>5, ReplyMoves
<1>7. /\ pending' \in Seq(WaiterRecords) /\ commands' \in Seq(CommandRecords)
      /\ client' \in Clients
      /\ ConnectOnce' /\ SentWhole' /\ OnlyWhenOpen' /\ InStep'
      /\ Len(commands') = Len(commands) - 1
      /\ \A i \in 1 .. Len(commands') : commands'[i] = commands[i + 1]
  BY <1>2, <1>3, <1>5, ReplyFits
<1>8. /\ db' \in [Zones -> Rows \X Rows] /\ multi' \in MultiRecords /\ selected' \in BOOLEAN
  BY <1>2, <1>4 DEF States, MultiRecords
<1>9. DbFits(Server)'
  <2>1. \A z \in Zones : Whole(db'[z]) /\ Covered(db'[z][1])
    BY <1>2, <1>4 DEF DbFits
  <2> QED
    BY <2>1 DEF DbFits, Server, Whole, Covered
<1>10. MultiFits(Server, 0)'
  <2>1. /\ \A z \in Zones : Covered(multi'.zones[z][1])
        /\ multi'.on <=> /\ 1 < Len(commands)
                         /\ commands[2].op \in {"DEL", "HSET1", "HSET2", "EXEC"}
        /\ multi'.on /\ ~multi'.aborted =>
             \A z \in Zones :
               IF commands[2].op = "HSET2" /\ commands[2].zone = z /\ e.selected
               THEN multi'.zones[z][1] = commands[2].rows
               ELSE Whole(multi'.zones[z])
    BY <1>2, <1>4 DEF MultiFits
  <2>2. CASE 1 < Len(commands)
    <3>1. 0 < Len(commands') /\ commands'[1] = commands[2]
      BY <1>1, <1>7, <2>2
    <3>2. cmd.op # "QUIT"
      <4>1. PipelinesIn(commands) /\ 1 \in 1 .. Len(commands)
        BY <1>1 DEF IInv, Connection, SentWhole
      <4>2. commands[1].op = "QUIT" => 1 = Len(commands)
        BY <4>1, Zenon DEF PipelinesIn
      <4>3. cmd = commands[1]
        BY DEF cmd
      <4>4. Len(commands) # 1
        BY <1>1, <2>2
      <4> QED
        BY <4>2, <4>3, <4>4
    <3>3. selected' = e.selected
      BY <1>2, <1>4, <3>2 DEF States
    <3> QED
      BY <2>1, <2>2, <3>1, <3>3 DEF MultiFits, Server, Covered, Whole
  <2>3. CASE ~(1 < Len(commands))
    <3>1. ~(0 < Len(commands')) /\ ~multi'.on
      BY <1>1, <1>7, <2>1, <2>3
    <3> QED
      BY <2>1, <3>1 DEF MultiFits, Server, Covered
  <2> QED
    BY <2>2, <2>3
<1>11. Connection'
  BY <1>6, <1>7, <1>10 DEF Connection
<1>12. failures' \in 0 .. MaxFailures
  BY <1>2, AllTypes
<1>13. UNCHANGED <<kind, storeVars, tx>>
  BY <1>2, Zenon
<1> QED
  BY <1>1, <1>6, <1>7, <1>8, <1>9, <1>11, <1>12, <1>13, RedisStep

LEMMA RefuseCommandKeeps == ASSUME IInv, RefuseCommand PROVE IInv'
<1>1. /\ commands # <<>> /\ commands' = Tail(commands)
      /\ Head(commands).op \in {"SELECT", "DEL", "HSET1", "HSET2"}
      /\ Failure /\ multi' = [multi EXCEPT !.aborted = multi.on]
      /\ OnReply(FALSE)
      /\ UNCHANGED <<kind, storeVars, db, tx, selected>>
  BY DEF RefuseCommand, IsWrite
<1>2. Head(commands) = commands[1] /\ kind # "powerdns" /\ Len(commands) \in Nat \ {0}
  BY <1>1, FirstWaiter
<1>3. UNCHANGED <<kind, version, tx>>
  BY <1>1 DEF storeVars
<1>4. FALSE \in BOOLEAN /\ (Head(commands).op = "QUIT" => FALSE)
  BY <1>1
<1>5. /\ cycle' \in [Cycles -> CycleRecords] /\ \A d \in Cycles : CycleFits(d)'
      /\ WaitersCalled'
  BY <1>1, <1>3, <1>4, ReplyMoves
<1>6. /\ pending' \in Seq(WaiterRecords) /\ commands' \in Seq(CommandRecords)
      /\ client' \in Clients
      /\ ConnectOnce' /\ SentWhole' /\ OnlyWhenOpen' /\ InStep'
      /\ Len(commands') = Len(commands) - 1
      /\ \A i \in 1 .. Len(commands') : commands'[i] = commands[i + 1]
  BY <1>1, <1>3, <1>4, ReplyFits
<1>7. multi \in MultiRecords /\ MultiFits(Server, 0)
  BY RedisTypes DEF IInv, Connection
<1>8. multi' \in MultiRecords /\ multi'.on = multi.on /\ multi'.zones = multi.zones
      /\ (multi'.on => multi'.aborted)
  BY <1>1, <1>7 DEF MultiRecords
<1>9. MultiFits(Server, 0)'
  <2>1. /\ \A z \in Zones : Covered(multi.zones[z][1])
        /\ multi.on <=> commands[1].op \in {"DEL", "HSET1", "HSET2", "EXEC"}
    BY <1>2, <1>7 DEF MultiFits, Server
  <2>2. /\ commands[1].op \in {"DEL", "HSET1", "HSET2"} =>
             1 < Len(commands) /\ commands[1 + 1].op = Follower(commands[1].op)
        /\ commands[1].op = "SELECT" /\ 1 < Len(commands) =>
             commands[1 + 1].op \in {"MULTI", "QUIT"}
    <3>1. PipelinesIn(commands) /\ 1 \in 1 .. Len(commands)
      BY <1>2 DEF IInv, Connection, SentWhole
    <3> QED
      BY <3>1, Zenon DEF PipelinesIn
  <2>3. 1 < Len(commands) => 0 < Len(commands') /\ commands'[1] = commands[1 + 1]
    BY <1>2, <1>6
  <2>4. 0 < Len(commands') => 1 < Len(commands)
    BY <1>2, <1>6
  <2>5. CASE commands[1].op = "SELECT"
    <3>1. ~multi'.on /\ ~(0 < Len(commands')
                          /\ commands'[1].op \in {"DEL", "HSET1", "HSET2", "EXEC"})
      BY <1>8, <2>1, <2>2, <2>3, <2>4, <2>5
    <3> QED
      BY <1>8, <2>1, <3>1 DEF MultiFits, Server, Covered
  <2>6. CASE commands[1].op \in {"DEL", "HSET1", "HSET2"}
    <3>1. multi'.on /\ multi'.aborted
      BY <1>8, <2>1, <2>6
    <3>2. 0 < Len(commands') /\ commands'[1].op \in {"HSET1", "HSET2", "EXEC"}
      BY <2>2, <2>3, <2>6 DEF Follower
    <3> QED
      BY <1>8, <2>1, <3>1, <3>2 DEF MultiFits, Server, Covered
  <2> QED
    BY <1>1, <1>2, <2>5, <2>6
<1>10. Connection'
  BY <1>5, <1>6, <1>9 DEF Connection
<1>11. failures' \in 0 .. MaxFailures
  BY <1>1, AllTypes, FailureCounted
<1>12. UNCHANGED <<kind, storeVars, tx>> /\ db' = db /\ selected' = selected
  BY <1>1, Zenon
<1>13. DbFits(Server)'
  BY <1>12, AllTypes DEF DbFits, Server, Whole, Covered
<1> QED
  BY <1>2, <1>5, <1>6, <1>8, <1>10, <1>11, <1>12, <1>13, AllTypes, RedisTypes, RedisStep

-----------------------------------------------------------------------------
(* Induction over the commands that the server has run. A set that has 0,   *)
(* and the successor of each number that it has, has all of Nat: its        *)
(* complement would have a least element.                                   *)
LEMMA LessThan == \A x, y \in Nat : y < x => <<y, x>> \in OpToRel(<, Nat)
<1> SUFFICES ASSUME NEW x \in Nat, NEW y \in Nat, y < x
             PROVE  <<y, x>> \in OpToRel(<, Nat)
  OBVIOUS
<1>1. OpToRel(<, Nat) = {p \in Nat \X Nat : p[1] < p[2]}
  BY DEF OpToRel
<1>2. <<y, x>> \in {p \in Nat \X Nat : p[1] < p[2]}
  OBVIOUS
<1> QED
  BY <1>1, <1>2

LEMMA Least ==
  ASSUME NEW T, T \subseteq Nat, T # {}
  PROVE  \E x \in T : \A y \in T : x <= y
<1>1. PICK x \in T : \A y \in T : ~(<<y, x>> \in OpToRel(<, Nat))
  BY NatLessThanWellFounded, WFMin
<1>2. \A y \in T : ~(y < x)
  BY <1>1, LessThan
<1> QED
  BY <1>2

LEMMA Induction ==
  ASSUME NEW S, 0 \in S, \A n \in Nat : n \in S => n + 1 \in S
  PROVE  Nat \subseteq S
<1> SUFFICES ASSUME NEW k \in Nat, k \notin S
             PROVE  FALSE
  OBVIOUS
<1> DEFINE T == {n \in Nat : n \notin S}
<1>1. PICK x \in T : \A y \in T : x <= y
  <2>1. T \subseteq Nat /\ k \in T
    OBVIOUS
  <2> HIDE DEF T
  <2> QED
    BY <2>1, Least
<1>2. x # 0 /\ x \in Nat
  BY <1>1
<1>3. x - 1 \in Nat /\ x - 1 \notin T
  BY <1>1, <1>2
<1>4. x - 1 \in S
  BY <1>3
<1> QED
  BY <1>1, <1>2, <1>3, <1>4

(* There is a function that After's definition describes.                   *)
LEMMA AfterExists ==
  ASSUME IInv
  PROVE  \E f : f = [n \in 0 .. Len(commands) |->
                       IF n = 0 THEN Server ELSE Executed(f[n - 1], commands[n])]
<1> DEFINE D(m)    == 0 .. m
           Runs(f, m) == f = [n \in 0 .. m |->
                                IF n = 0 THEN Server ELSE Executed(f[n - 1], commands[n])]
           S       == {m \in Nat : \E f : Runs(f, m)}
<1>1. 0 \in S
  <2> DEFINE f == [n \in 0 .. 0 |-> Server]
  <2>1. \A n \in 0 .. 0 : n = 0
    OBVIOUS
  <2>2. f = [n \in 0 .. 0 |-> IF n = 0 THEN Server ELSE Executed(f[n - 1], commands[n])]
    BY <2>1
  <2> HIDE DEF f
  <2>3. Runs(f, 0)
    BY <2>2
  <2> QED
    BY <2>3
<1>2. ASSUME NEW m \in Nat, m \in S PROVE m + 1 \in S
  <2>1. PICK f : Runs(f, m)
    BY <1>2
  <2> DEFINE g == [n \in 0 .. m + 1 |->
                     IF n = m + 1 THEN Executed(f[m], commands[m + 1]) ELSE f[n]]
  <2>2. \A n \in 0 .. m : g[n] = f[n]
    OBVIOUS
  <2>3. g[m + 1] = Executed(f[m], commands[m + 1])
    OBVIOUS
  <2>4. DOMAIN g = 0 .. m + 1 /\ g = [n \in 0 .. m + 1 |-> g[n]]
    OBVIOUS
  <2> HIDE DEF g
  <2>5. f = [n \in 0 .. m |-> IF n = 0 THEN Server ELSE Executed(f[n - 1], commands[n])]
    BY <2>1
  <2>6. \A n \in 0 .. m : f[n] = IF n = 0 THEN Server ELSE Executed(f[n - 1], commands[n])
    BY <2>5
  <2>7. ASSUME NEW n \in 0 .. m + 1
        PROVE  g[n] = IF n = 0 THEN Server ELSE Executed(g[n - 1], commands[n])
    <3>1. CASE n = m + 1
      <4>1. n # 0 /\ n - 1 = m /\ m \in 0 .. m
        BY <3>1
      <4>2. g[n - 1] = f[m]
        BY <2>2, <4>1
      <4> QED
        BY <2>3, <3>1, <4>1, <4>2
    <3>2. CASE n # m + 1
      <4>1. n \in 0 .. m /\ (n # 0 => n - 1 \in 0 .. m)
        BY <3>2
      <4>2. g[n] = f[n] /\ (n # 0 => g[n - 1] = f[n - 1])
        BY <2>2, <4>1
      <4> QED
        BY <2>6, <4>1, <4>2
    <3> QED
      BY <3>1, <3>2
  <2>8. g = [n \in 0 .. m + 1 |-> IF n = 0 THEN Server ELSE Executed(g[n - 1], commands[n])]
    BY <2>4, <2>7
  <2>9. Runs(g, m + 1)
    BY <2>8
  <2> HIDE DEF Runs
  <2> QED
    BY <2>9
<1> HIDE DEF S
<1>3. Nat \subseteq S
  BY <1>1, <1>2, Induction
<1>4. Len(commands) \in S
  BY <1>3, WaiterTypes
<1> QED
  BY <1>4 DEF S

(* However many of the commands the server has run, it fits.                *)
LEMMA AfterFits ==
  ASSUME IInv, NEW n \in 0 .. Len(commands)
  PROVE  After[n] \in States /\ DbFits(After[n])
<1>1. After = [m \in 0 .. Len(commands) |->
                 IF m = 0 THEN Server ELSE Executed(After[m - 1], commands[m])]
  BY AfterExists, Zenon DEF After
<1>2. \A m \in 0 .. Len(commands) :
        After[m] = IF m = 0 THEN Server ELSE Executed(After[m - 1], commands[m])
  BY <1>1
<1> DEFINE S == {m \in Nat : m <= Len(commands) =>
                   After[m] \in States /\ DbFits(After[m]) /\ MultiFits(After[m], m)}
<1>3. Len(commands) \in Nat
  BY WaiterTypes
<1>4. 0 \in S
  <2>1. After[0] = Server
    BY <1>2, <1>3
  <2>2. Server \in States /\ DbFits(Server) /\ MultiFits(Server, 0)
    BY ServerIsState DEF IInv, Connection
  <2> QED
    BY <2>1, <2>2
<1>5. ASSUME NEW m \in Nat, m \in S PROVE m + 1 \in S
  <2> SUFFICES ASSUME m + 1 <= Len(commands)
               PROVE  /\ After[m + 1] \in States
                      /\ DbFits(After[m + 1]) /\ MultiFits(After[m + 1], m + 1)
    OBVIOUS
  <2>1. m < Len(commands) /\ m + 1 \in 0 .. Len(commands) /\ m + 1 # 0 /\ (m + 1) - 1 = m
    BY <1>3
  <2>2. After[m] \in States /\ DbFits(After[m]) /\ MultiFits(After[m], m)
    BY <1>3, <1>5, <2>1
  <2>3. After[m + 1] = Executed(After[m], commands[m + 1])
    BY <1>2, <2>1
  <2> HIDE DEF S
  <2> DEFINE s == After[m]
  <2>4. s \in States /\ DbFits(s) /\ MultiFits(s, m)
    BY <2>2
  <2> HIDE DEF s
  <2>5. LET e == Executed(s, commands[m + 1])
        IN  e \in States /\ DbFits(e) /\ MultiFits(e, m + 1)
    BY <2>1, <2>4, ExecutedFits
  <2> QED
    BY <2>3, <2>5 DEF s
<1> HIDE DEF S
<1>6. Nat \subseteq S
  BY <1>4, <1>5, Induction
<1>7. n \in S /\ n <= Len(commands)
  BY <1>3, <1>6
<1> QED
  BY <1>7 DEF S

LEMMA ConnectionLostKeeps == ASSUME IInv, ConnectionLost PROVE IInv'
<1>1. /\ client \in {"open", "quitting"} /\ Failure
      /\ client' = IF client = "open" THEN "closed" ELSE "none"
      /\ cycle' = [c \in Cycles |->
                     IF cycle[c].stage \in {"select", "reply"} THEN Idle ELSE cycle[c]]
      /\ pending' = <<>> /\ commands' = <<>> /\ multi' = NoMulti /\ selected' = FALSE
      /\ UNCHANGED <<kind, storeVars, tx>>
  BY DEF ConnectionLost
<1>2. PICK n \in 0 .. Len(commands) : db' = After[n].db
  BY DEF ConnectionLost
<1>3. After[n] \in States /\ DbFits(After[n])
  BY AfterFits
<1>4. db' \in [Zones -> Rows \X Rows] /\ DbFits(Server)'
  <2>1. db' \in [Zones -> Rows \X Rows]
    BY <1>2, <1>3 DEF States
  <2>2. \A z \in Zones : Whole(db'[z]) /\ Covered(db'[z][1])
    BY <1>2, <1>3 DEF DbFits
  <2> QED
    BY <2>1, <2>2 DEF DbFits, Server, Whole, Covered
<1>5. UNCHANGED <<kind, version, tx>> /\ kind # "powerdns"
  BY <1>1, RedisTypes DEF storeVars
<1>6. \A d \in Cycles : CycleFits(d)'
  <2> TAKE d \in Cycles
  <2>1. CASE cycle[d].stage \in {"select", "reply"}
    <3>1. cycle'[d] = Idle
      BY <1>1, <2>1
    <3>2. tx'[d] = NoTx
      BY <1>5, <2>1, CycleTypes DEF Writing
    <3> QED
      BY <3>1, <3>2, IdleFits
  <2>2. CASE cycle[d].stage \notin {"select", "reply"}
    <3>1. cycle'[d] = cycle[d]
      BY <1>1, <2>2
    <3> QED
      BY <1>5, <3>1, AllTypes, CycleKept
  <2> QED
    BY <2>1, <2>2
<1>7. cycle' \in [Cycles -> CycleRecords]
  BY <1>1, AllTypes, Zeros
<1>8. ConnectOnce'
  <2>1. \A d \in Cycles : cycle[d].stage # "connect"
    BY <1>1 DEF IInv, Connection, ConnectOnce
  <2>2. \A d \in Cycles : cycle'[d].stage # "connect"
    BY <1>1, <2>1 DEF Idle
  <2> QED
    BY <2>2 DEF ConnectOnce
<1>9. /\ NoMulti \in MultiRecords /\ ~multi'.on
      /\ \A z \in Zones : Covered(multi'.zones[z][1])
  BY <1>1, NoneCovers DEF NoMulti, MultiRecords, Absent
<1>10. client' \in Clients /\ client' \notin {"open", "quitting"}
  BY <1>1 DEF Clients
<1>11. SentWhole' /\ OnlyWhenOpen' /\ InStep' /\ MultiFits(Server, 0)'
  BY <1>1, <1>9, <1>10, NothingSent
<1>12. WaitersCalled'
  BY <1>1 DEF WaitersCalled
<1>13. Connection'
  BY <1>8, <1>11, <1>12 DEF Connection
<1>14. failures' \in 0 .. MaxFailures
  BY <1>1, AllTypes, FailureCounted
<1>15. pending' \in Seq(WaiterRecords) /\ commands' \in Seq(CommandRecords)
       /\ selected' \in BOOLEAN /\ multi' \in MultiRecords
  <2>1. <<>> \in Seq(WaiterRecords) /\ <<>> \in Seq(CommandRecords)
    OBVIOUS
  <2> QED
    BY <1>1, <1>9, <2>1
<1>16. UNCHANGED <<kind, storeVars, tx>>
  BY <1>1, Zenon
<1> QED
  BY <1>4, <1>5, <1>6, <1>7, <1>10, <1>13, <1>14, <1>15, <1>16, RedisStep

-----------------------------------------------------------------------------
LEMMA IInvInit == Init => IInv
<1> SUFFICES ASSUME Init PROVE IInv
  OBVIOUS
<1>1. /\ kind \in Kinds
      /\ version = [z \in Zones |-> 0] /\ active \in {{}, Zones} /\ edits = 0 /\ failures = 0
      /\ cycle = [c \in Cycles |-> Idle] /\ db = [z \in Zones |-> Absent]
      /\ tx = [c \in Cycles |-> NoTx]
      /\ client = "none" /\ selected = FALSE /\ pending = <<>> /\ commands = <<>>
      /\ multi = NoMulti
  BY DEF Init
<1>2. \A c \in Cycles : cycle[c] = Idle /\ tx[c] = NoTx
  BY <1>1
<1>3. 0 \in 0 .. MaxEdits /\ 0 \in 0 .. MaxFailures
  BY DatabasePublishAssumption DEF DatabasePublishAssumption
<1>4. Idle.stage = "idle" /\ "idle" \notin Writing \cup {"reply"}
      /\ \A z \in Zones : Idle.read[z] = None
  BY DEF Idle, Writing
<1>5. Absent \in Rows \X Rows /\ Absent[1] = None /\ Absent[2] = None /\ NoTx.parts[1] = None
  BY NoneCovers DEF Absent, NoTx
<1>6. \A c \in Cycles : CycleFits(c)
  BY <1>2, <1>4, <1>5, NoneCovers
     DEF CycleFits, ReadCovers, TransactionWhole, Covered, Writing
<1>7. multi \in MultiRecords /\ ~multi.on /\ \A z \in Zones : multi.zones[z] = Absent
  BY <1>1, <1>5 DEF NoMulti, MultiRecords
<1>8. DbFits(Server)
  BY <1>1, <1>5, NoneCovers DEF DbFits, Server, Whole
<1>9. Connection
  <2>1. ConnectOnce /\ WaitersCalled /\ SentWhole /\ OnlyWhenOpen /\ InStep
    BY <1>1, <1>2, <1>4
       DEF ConnectOnce, WaitersCalled, SentWhole, PipelinesIn, OnlyWhenOpen, InStep
  <2>2. MultiFits(Server, 0)
    BY <1>1, <1>5, <1>7, NoneCovers DEF MultiFits, Server
  <2> QED
    BY <2>1, <2>2 DEF Connection
<1>10. TypeOK
  <2>1. cycle \in [Cycles -> CycleRecords] /\ tx \in [Cycles -> TxRecords]
    BY <1>1, Zeros
  <2>2. version \in [Zones -> 0 .. MaxEdits] /\ active \in SUBSET Zones
        /\ db \in [Zones -> Rows \X Rows]
    BY <1>1, <1>3, <1>5
  <2>3. pending \in Seq(WaiterRecords) /\ commands \in Seq(CommandRecords)
    BY <1>1
  <2> QED
    BY <1>1, <1>3, <1>6, <1>7, <2>1, <2>2, <2>3, Zenon
       DEF TypeOK, CycleRecords, TxRecords, WaiterRecords, CommandRecords, MultiRecords, CycleFits
<1>11. VersionsCounted
  BY <1>1, <1>3 DEF VersionsCounted
<1> QED
  BY <1>6, <1>8, <1>9, <1>10, <1>11 DEF IInv

LEMMA IInvStep == IInv /\ [Next]_vars => IInv'
<1> SUFFICES ASSUME IInv, [Next]_vars PROVE IInv'
  OBVIOUS
<1>1. ASSUME NEW z \in Zones, Edit(z) PROVE IInv'
  BY <1>1, EditKeeps
<1>2. ASSUME NEW c \in Cycles, Begin(c) \/ QueryDone(c) \/ QueryFailed(c) \/ Published(c)
      PROVE  IInv'
  BY <1>2, BeginKeeps, QueryDoneKeeps, EndingsKeep
<1>3. ASSUME NEW c \in Cycles,
             \/ GetConnection(c) \/ GetConnectionFailed(c) \/ FindDomain(c)
             \/ ReplaceDomain(c) \/ Write(c) \/ Commit(c) \/ WriteFailed(c)
      PROVE  IInv'
  BY <1>3, GetConnectionKeeps, EndingsKeep, FindDomainKeeps, ReplaceDomainKeeps, WriteKeeps,
     CommitKeeps, WriteFailedKeeps
<1>4. ASSUME NEW c \in Cycles,
             \/ Connect(c) \/ Connected(c) \/ ConnectFailed(c) \/ WriteZone(c)
             \/ NotConnected(c)
      PROVE  IInv'
  BY <1>4, ConnectKeeps, ConnectedKeeps, ConnectFailedKeeps, WriteZoneKeeps, EndingsKeep
<1>5. CASE RunCommand \/ RefuseCommand \/ ConnectionLost \/ Disconnect
  BY <1>5, RunCommandKeeps, RefuseCommandKeeps, ConnectionLostKeeps, DisconnectKeeps
<1>6. CASE UNCHANGED vars
  <2>1. UNCHANGED <<kind, version, active, edits, failures, cycle, db, tx,
                    client, selected, pending, commands, multi>>
    BY <1>6, Zenon DEF vars, storeVars, respVars
  <2>2. \A d \in Cycles : CycleFits(d)'
    BY <2>1, AllTypes, CycleKept
  <2>3. TypeOK' /\ VersionsCounted'
    BY <2>1, Zenon DEF IInv, TypeOK, VersionsCounted
  <2>4. DbFits(Server)' /\ MultiFits(Server, 0)'
    BY <2>1 DEF IInv, Connection, DbFits, MultiFits, Server, Whole, Covered
  <2>5. ConnectOnce' /\ WaitersCalled'
    BY <2>1 DEF IInv, Connection, ConnectOnce, WaitersCalled
  <2>6. SentWhole' /\ OnlyWhenOpen' /\ InStep'
    BY <2>1 DEF IInv, Connection, SentWhole, PipelinesIn, Covered, OnlyWhenOpen, InStep
  <2> QED
    BY <2>2, <2>3, <2>4, <2>5, <2>6 DEF IInv, Connection
<1> QED
  BY <1>1, <1>2, <1>3, <1>4, <1>5, <1>6 DEF Next, Step, Queue

(* The invariant holds of every publisher: what each transaction, each      *)
(* pipeline and each reply has still to do fits what has been done.         *)
THEOREM InductiveInvariant == Spec => []IInv
<1>1. Init => IInv
  BY IInvInit
<1>2. IInv /\ [Next]_vars => IInv'
  BY IInvStep
<1> QED
  BY <1>1, <1>2, PTL DEF Spec

(* Every variable keeps its type; a cycle holds a connection of the pool    *)
(* just while it writes, and waits for a reply only with a zone to write.   *)
THEOREM TypeCorrect == Spec => []TypeOK
<1>1. IInv => TypeOK
  BY DEF IInv
<1> QED
  BY <1>1, InductiveInvariant, PTL

(* Whatever statement or command fails, and wherever the connection is      *)
(* lost, the nameserver has both parts of a zone from one publication.      *)
THEOREM ZonesAreWhole == Spec => []WholeZone
<1>1. IInv => WholeZone
  BY DEF IInv, DbFits, Server, Whole, WholeZone
<1> QED
  BY <1>1, InductiveInvariant, PTL

(* What is served at a serial has every edit up to it, although the three   *)
(* queries that read it are not one snapshot.                               *)
THEOREM SerialIsCovered == Spec => []SerialCovered
<1>1. IInv => SerialCovered
  BY DEF IInv, DbFits, Server, Covered, SerialCovered
<1> QED
  BY <1>1, InductiveInvariant, PTL

(* The queue of waiters and the queue of commands stay one to one, after    *)
(* any rejection, so that each reply reaches the waiter of its command.     *)
THEOREM RepliesInStep == Spec => []InStep
<1>1. IInv => InStep
  BY DEF IInv, Connection
<1> QED
  BY <1>1, InductiveInvariant, PTL
=============================================================================
