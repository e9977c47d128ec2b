------------------------------ MODULE AxfrServer ------------------------------
(***************************************************************************)
(* lib/axfr-server.js: the server that secondaries pull zones from. TCP for  *)
(* transfers, UDP for the serial check, authorization by source address.    *)
(*                                                                         *)
(* Messages on a connection are cut into chunks anywhere: a message is two  *)
(* units, a chunk any number of them. Every chunk starts a handler of its   *)
(* own, and all handlers of a connection take messages from one buffer; a   *)
(* handler awaits the answer to its message and then looks for another.     *)
(* A request that needs no zones is answered before anything else happens.  *)
(* IXFR is answered as AXFR is. One that does not parse destroys its        *)
(* connection, but its handler goes on all the same.                        *)
(***************************************************************************)
EXTENDS Integers, Sequences, SequencesExt, FiniteSets, FiniteSetsExt

CONSTANTS
  Conns,         \* the connections that clients make
  Known,         \* those from the address of a nameserver
  Scripts,       \* for each, what it may send: sequences of requests
  MaxRequests,   \* bounds the requests of a connection
  MaxDatagrams,  \* bounds the datagrams
  MaxEdits,      \* bounds the changes of the zone
  MaxFailures,   \* bounds the failures of the source, of listen() and of bind()
  MaxStarts      \* bounds the calls of start()

Requests == {"transfer", "serial", "other", "noQuestion", "garbled"}

ASSUME AxfrServerAssumption ==
  /\ Known \subseteq Conns
  /\ \A c \in Conns : \A script \in Scripts[c] :
       script \in Seq(Requests) /\ Len(script) <= MaxRequests
  /\ {MaxRequests, MaxDatagrams, MaxEdits, MaxFailures, MaxStarts} \subseteq Nat

MaxMessageSize == 4
SoaSize        == 1

(* A record: its size, or 0 when it does not encode. A zone's own SOA is    *)
(* made from the zone row.                                                  *)
Live(size)    == [kind |-> "live", size |-> size]
Deleted(size) == [kind |-> "deleted", size |-> size]
SoaRow        == [kind |-> "soa", size |-> 0]

(* The zone a client asks for is not assigned to it, or has these records.  *)
Assigned  == {"unencodable", "empty", "small", "large"}
ZoneKinds == {"unassigned"} \cup Assigned
Rows(z) ==
  CASE z = "unencodable" -> <<Live(1), Live(0), Live(2)>>
    [] z = "empty"       -> <<SoaRow>>
    [] z = "small"       -> <<Live(1), Deleted(0), Live(2)>>
    [] z = "large"       -> <<SoaRow, Live(3), Live(2), Deleted(1), Live(5), Live(1), Live(4)>>

VARIABLES
  asks,        \* what each client sends
  zone, edits, failures, datagrams, starts,
  state,       \* this.state, and what start() or stop() is about to do; "failed"
               \* is after one that rejected: still 'stopped', or 'running'
               \* with nothing bound
  tcp,         \* the TCP server: closed, listening, closing
  udp,         \* the UDP socket: closed, bound
  sourceOpen,  \* the source is connected
  conn,        \* each connection: none, open, gone
  arrived,     \* units received so far
  taken,       \* messages taken from the buffer so far
  busy,        \* the messages whose handlers await the source
  out,         \* the replies written, in order
  checks,      \* UDP queries that await the source
  stale,       \* those of them whose socket has been closed since
  late         \* stop() has disconnected the source while one was awaited

serverVars == <<state, tcp, udp, starts>>
streamVars == <<conn, arrived, taken, busy, out>>
envVars    == <<asks, zone, edits, failures, datagrams>>
udpVars    == <<checks, stale>>
vars == <<serverVars, streamVars, envVars, sourceOpen, udpVars, late>>

Messages == 1 .. MaxRequests
Errors   == {"FORMERR", "REFUSED", "NOTAUTH", "SERVFAIL", "NOTIMP"}
Replies  == [message : Messages, says : Errors \cup {"serial"} \cup Assigned]

TypeOK ==
  /\ asks \in [Conns -> Seq(Requests)] /\ \A c \in Conns : asks[c] \in Scripts[c]
  /\ zone \in ZoneKinds
  /\ edits \in 0 .. MaxEdits /\ failures \in 0 .. MaxFailures
  /\ datagrams \in 0 .. MaxDatagrams /\ starts \in 0 .. MaxStarts
  /\ state \in {"stopped", "failed", "connect", "listen", "bind", "running",
                "closeTcp", "closeUdp", "disconnect", "crashed"}
  /\ tcp \in {"closed", "listening", "closing"}
  /\ udp \in {"closed", "bound"}
  /\ sourceOpen \in BOOLEAN
  /\ conn \in [Conns -> {"none", "open", "gone"}]
  /\ arrived \in [Conns -> 0 .. 2 * MaxRequests]
  /\ taken \in [Conns -> 0 .. MaxRequests]
  /\ busy \in [Conns -> SUBSET Messages]
  /\ \A c \in Conns \ Known : busy[c] = {}
  /\ out \in [Conns -> Seq(Replies)]
  /\ checks \in 0 .. MaxDatagrams
  /\ stale \in 0 .. MaxDatagrams
  /\ late \in BOOLEAN

Init ==
  /\ asks \in {f \in [Conns -> UNION {Scripts[c] : c \in Conns}] :
                \A c \in Conns : f[c] \in Scripts[c]}
  /\ zone = "small"
  /\ edits = 0 /\ failures = 0 /\ datagrams = 0 /\ starts = 0
  /\ state = "stopped"
  /\ tcp = "closed"
  /\ udp = "closed"
  /\ sourceOpen = FALSE
  /\ conn = [c \in Conns |-> "none"]
  /\ arrived = [c \in Conns |-> 0]
  /\ taken = [c \in Conns |-> 0]
  /\ busy = [c \in Conns |-> {}]
  /\ out = [c \in Conns |-> <<>>]
  /\ checks = 0
  /\ stale = 0
  /\ late = FALSE

-----------------------------------------------------------------------------
(* mutants of the definitions below, for the runs of PROJECT.json *)
Awaits_Anyone(c, m) == asks[c][m] \notin {"noQuestion", "garbled"}

LoopsOn_Once(c, m) ==
  busy' = [busy EXCEPT ![c] = @ \ {m}] /\ UNCHANGED taken

Flush_TooLate(parts, cost) == parts.batch # <<>> /\ parts.size > MaxMessageSize

CanClose_AtOnce == TRUE

CanClose_AllEver == \A c \in Conns : conn[c] = "none"

(* The messages that are in the buffer as a whole.                          *)
Complete(units) == units \div 2

(* flush() comes before a resource that does not fit with the others.       *)
Flush(parts, cost) == parts.batch # <<>> /\ parts.size + cost > MaxMessageSize

Added(parts, cost) ==
  IF Flush(parts, cost)
  THEN [sent  |-> Append(parts.sent, parts.batch),
        batch |-> <<cost>>,
        size  |-> cost]
  ELSE [sent  |-> parts.sent,
        batch |-> Append(parts.batch, cost),
        size  |-> parts.size + cost]

(* _sendTransfer(): the messages of a transfer.                             *)
Batches(sizes) ==
  LET all == <<SoaSize>> \o sizes \o <<SoaSize>>
      after[i \in 0 .. Len(all)] ==
        IF i = 0 THEN [sent |-> <<>>, batch |-> <<>>, size |-> 0]
        ELSE Added(after[i - 1], all[i])
  IN  Append(after[Len(all)].sent, after[Len(all)].batch)

(* encodeZone(): every record, or none when one does not encode.            *)
LiveSizes(rows) ==
  LET pushed[i \in 0 .. Len(rows)] ==
        IF i = 0 THEN <<>>
        ELSE pushed[i - 1] \o (IF rows[i].kind = "live" THEN <<rows[i].size>> ELSE <<>>)
  IN  pushed[Len(rows)]

CanEncode(rows) == \A i \in DOMAIN rows : rows[i].kind = "live" => rows[i].size # 0

(* _authorize(): why a client gets nothing.                                 *)
Refusal(c) ==
  CASE c \notin Known -> "REFUSED"
    [] c \in Known /\ zone = "unassigned" -> "NOTAUTH"
    [] c \in Known /\ zone \in Assigned -> "none"

Transfer == IF CanEncode(Rows(zone)) THEN zone ELSE "SERVFAIL"

(* _handle(): the reply to message m of connection c.                       *)
Says(c, m) ==
  CASE asks[c][m] = "noQuestion" -> "FORMERR"
    [] asks[c][m] # "noQuestion" /\ Refusal(c) # "none" -> Refusal(c)
    [] asks[c][m] = "transfer"   /\ Refusal(c) = "none" -> Transfer
    [] asks[c][m] = "serial"     /\ Refusal(c) = "none" -> "serial"
    [] asks[c][m] = "other"      /\ Refusal(c) = "none" -> "NOTIMP"

(* Message m takes its handler to the source.                               *)
Awaits(c, m) == c \in Known /\ asks[c][m] \notin {"noQuestion", "garbled"}

(* How far a handler comes in a buffer of so many units: to the first       *)
(* message that takes it to the source, or to the end.                      *)
Reaches(c, units) ==
  LET waiting == {m \in taken[c] + 1 .. Complete(units) : Awaits(c, m)}
  IN  IF waiting = {} THEN Complete(units) ELSE Min(waiting)

(* The handler comes to message m, and is done with those of the set.       *)
Comes(c, m, done) ==
  /\ taken' = [taken EXCEPT ![c] = m]
  /\ busy' = [busy EXCEPT ![c] =
                (@ \ done) \cup (IF m > taken[c] /\ Awaits(c, m) THEN {m} ELSE {})]

(* A new handler takes messages if there are any.                           *)
TakeFirst(c, units) == Comes(c, Reaches(c, units), {})

(* The handler of message m goes on with the next, if there are more.       *)
LoopsOn(c, m) == Comes(c, Reaches(c, arrived[c]), {m})

(* What it answers on its way, after the replies before: nothing once the   *)
(* connection is destroyed, by the client or for a message that does not    *)
(* parse.                                                                   *)
Writes(c, before) ==
  LET passed  == {m \in taken[c] + 1 .. taken'[c] : ~Awaits(c, m)}
      garbled == {m \in passed : asks[c][m] = "garbled"}
      read    == {m \in passed : \A g \in garbled : m < g}
      replies == [i \in 1 .. Cardinality(read) |->
                    [message |-> taken[c] + i, says |-> Says(c, taken[c] + i)]]
  IN  /\ out' = IF conn[c] = "open" THEN [out EXCEPT ![c] = @ \o before \o replies] ELSE out
      /\ conn' = IF garbled = {} THEN conn ELSE [conn EXCEPT ![c] = "gone"]

-----------------------------------------------------------------------------
(* start(): connect the source, listen, bind, for the one address.          *)
Start ==
  /\ state \in {"stopped", "failed"}
  /\ tcp = "closed"
  /\ starts < MaxStarts
  /\ starts' = starts + 1
  /\ state' = "connect"
  /\ UNCHANGED <<tcp, udp, streamVars, envVars, sourceOpen, udpVars, late>>

SourceConnected ==
  /\ state = "connect"
  /\ state' = "listen"
  /\ sourceOpen' = TRUE
  /\ late' = FALSE
  /\ UNCHANGED <<tcp, udp, starts, streamVars, envVars, udpVars>>

Listening ==
  /\ state = "listen"
  /\ state' = "bind"
  /\ tcp' = "listening"
  /\ UNCHANGED <<udp, starts, streamVars, envVars, sourceOpen, udpVars, late>>

Bound ==
  /\ state = "bind"
  /\ state' = "running"
  /\ udp' = "bound"
  /\ UNCHANGED <<tcp, starts, streamVars, envVars, sourceOpen, udpVars, late>>

(* The source does not connect, or the port is taken: start() rejects, and  *)
(* closes nothing.                                                          *)
Fails(step) ==
  /\ state = step
  /\ failures < MaxFailures
  /\ failures' = failures + 1
  /\ state' = "failed"
  /\ UNCHANGED <<tcp, udp, starts, streamVars, asks, zone, edits, datagrams, sourceOpen, udpVars, late>>

ConnectFails == Fails("connect")
ListenFails  == Fails("listen")
BindFails    == Fails("bind")

(* stop(): server.close() waits for the connections.                        *)
Stop ==
  /\ state \in {"running", "failed"}
  /\ state' = "closeTcp"
  /\ tcp' = "closing"
  /\ UNCHANGED <<udp, starts, streamVars, envVars, sourceOpen, udpVars, late>>

CanClose == \A c \in Conns : conn[c] # "open"

TcpClosed ==
  /\ state = "closeTcp"
  /\ CanClose
  /\ state' = "closeUdp"
  /\ tcp' = "closed"
  /\ UNCHANGED <<udp, starts, streamVars, envVars, sourceOpen, udpVars, late>>

UdpClosed ==
  /\ state = "closeUdp"
  /\ state' = "disconnect"
  /\ udp' = "closed"
  /\ stale' = stale + checks
  /\ checks' = 0
  /\ UNCHANGED <<tcp, starts, streamVars, envVars, sourceOpen, late>>

Disconnected ==
  /\ state = "disconnect"
  /\ state' = "stopped"
  /\ sourceOpen' = FALSE
  /\ late' = (stale > 0 \/ \E c \in Conns : busy[c] # {})
  /\ UNCHANGED <<tcp, udp, starts, streamVars, envVars, udpVars>>

(* The source does not close, or closes and says it did not: stop() rejects *)
(* with the sockets closed, and can be called again.                        *)
DisconnectFails ==
  /\ state = "disconnect"
  /\ failures < MaxFailures
  /\ failures' = failures + 1
  /\ state' = "failed"
  /\ sourceOpen' \in {sourceOpen, FALSE}
  /\ UNCHANGED <<tcp, udp, starts, streamVars, asks, zone, edits, datagrams, udpVars, late>>

-----------------------------------------------------------------------------
Accept(c) ==
  /\ tcp = "listening"
  /\ conn[c] = "none"
  /\ conn' = [conn EXCEPT ![c] = "open"]
  /\ UNCHANGED <<serverVars, arrived, taken, busy, out, envVars, sourceOpen, udpVars, late>>

(* A chunk, and the handler that it starts.                                 *)
Data(c, k) ==
  /\ conn[c] = "open"
  /\ arrived[c] + k <= 2 * Len(asks[c])
  /\ arrived' = [arrived EXCEPT ![c] = @ + k]
  /\ TakeFirst(c, arrived[c] + k)
  /\ Writes(c, <<>>)
  /\ sourceOpen' = (sourceOpen \/ busy' # busy)
  /\ UNCHANGED <<serverVars, envVars, udpVars, late>>

(* The source answers: the reply is written, if its connection is still     *)
(* there, and the handler goes on either way.                               *)
Handled(c, m) ==
  /\ m \in busy[c]
  /\ LoopsOn(c, m)
  /\ Writes(c, <<[message |-> m, says |-> Says(c, m)]>>)
  /\ sourceOpen' = (sourceOpen \/ busy'[c] \ busy[c] # {})
  /\ UNCHANGED <<serverVars, arrived, envVars, udpVars, late>>

(* getZones() throws: the connection is destroyed and the handler ends.     *)
HandleFails(c, m) ==
  /\ m \in busy[c]
  /\ failures < MaxFailures
  /\ failures' = failures + 1
  /\ busy' = [busy EXCEPT ![c] = @ \ {m}]
  /\ conn' = [conn EXCEPT ![c] = "gone"]
  /\ UNCHANGED <<serverVars, arrived, taken, out, asks, zone, edits, datagrams, sourceOpen, udpVars, late>>

(* The client closes, or is idle for timeoutMs.                             *)
Gone(c) ==
  /\ conn[c] = "open"
  /\ conn' = [conn EXCEPT ![c] = "gone"]
  /\ UNCHANGED <<serverVars, arrived, taken, busy, out, envVars, sourceOpen, udpVars, late>>

(* A serial check from a known address.                                     *)
Datagram ==
  /\ udp = "bound"
  /\ datagrams < MaxDatagrams
  /\ datagrams' = datagrams + 1
  /\ checks' = checks + 1
  /\ sourceOpen' = TRUE
  /\ UNCHANGED <<serverVars, streamVars, asks, zone, edits, failures, stale, late>>

DatagramHandled ==
  /\ checks > 0
  /\ checks' = checks - 1
  /\ UNCHANGED <<serverVars, streamVars, envVars, sourceOpen, stale, late>>

(* Nothing catches what _onDatagram() rejects with, and that ends a Node.js  *)
(* process: getZones() throws, or send() does, as the socket is closed.     *)
DatagramFails ==
  /\ \/ stale > 0 /\ UNCHANGED failures
     \/ /\ checks > 0
        /\ failures < MaxFailures
        /\ failures' = failures + 1
  /\ state' = "crashed"
  /\ tcp' = "closed"
  /\ udp' = "closed"
  /\ sourceOpen' = FALSE
  /\ checks' = 0
  /\ stale' = 0
  /\ conn' = [c \in Conns |-> "gone"]
  /\ busy' = [c \in Conns |-> {}]
  /\ UNCHANGED <<starts, arrived, taken, out, asks, zone, edits, datagrams, late>>

Edit ==
  /\ edits < MaxEdits
  /\ edits' = edits + 1
  /\ zone' \in ZoneKinds \ {zone}
  /\ UNCHANGED <<serverVars, streamVars, asks, failures, datagrams, sourceOpen, udpVars, late>>

Lifecycle ==
  \/ SourceConnected \/ Listening \/ Bound \/ ConnectFails \/ ListenFails \/ BindFails
  \/ TcpClosed \/ UdpClosed \/ Disconnected \/ DisconnectFails

Next ==
  \/ Start \/ Stop \/ Lifecycle
  \/ \E c \in Conns : Accept(c) \/ Gone(c)
  \/ \E c \in Conns, k \in 1 .. 2 * MaxRequests : Data(c, k)
  \/ \E c \in Conns, m \in Messages : Handled(c, m) \/ HandleFails(c, m)
  \/ Datagram \/ DatagramHandled \/ DatagramFails
  \/ Edit

(* start() and stop() go on, the source answers, and an idle connection     *)
(* times out.                                                               *)
Spec ==
  /\ Init /\ [][Next]_vars
  /\ WF_vars(Lifecycle)
  /\ \A c \in Conns : WF_vars(Gone(c))
  /\ \A c \in Conns : WF_vars(\E m \in Messages : Handled(c, m) \/ HandleFails(c, m))
  /\ WF_vars(DatagramHandled \/ DatagramFails)

-----------------------------------------------------------------------------
(* Of the messages taken, each is handled or answered by one handler, and   *)
(* no message is answered twice, though the handlers of a connection take    *)
(* them from one buffer with awaits in between; and a whole message waits   *)
(* only for a handler that will come to it (axfr-server.js:189-207).        *)
EachAnswered ==
  \A c \in Conns :
    LET answered == {out[c][i].message : i \in 1 .. Len(out[c])}
    IN  /\ Cardinality(answered) = Len(out[c])
        /\ answered \cap busy[c] = {}
        /\ answered \cup busy[c] \subseteq 1 .. taken[c]
        /\ conn[c] = "open" => answered \cup busy[c] = 1 .. taken[c]
        /\ conn[c] = "open" /\ Complete(arrived[c]) > taken[c] => busy[c] # {}

(* The records of a transfer: the SOA, those that are not deleted in their  *)
(* order, and the SOA.                                                      *)
WholeZone(rows, records) ==
  LET kept == {j \in DOMAIN rows : rows[j].kind \notin {"deleted", "soa"}}
  IN  /\ Len(records) = Cardinality(kept) + 2
      /\ records[1] = SoaSize /\ records[Len(records)] = SoaSize
      /\ \A j \in kept : /\ rows[j].size # 0
                         /\ records[1 + Cardinality({k \in kept : k <= j})] = rows[j].size

Total(sizes) ==
  LET sum[i \in 0 .. Len(sizes)] == IF i = 0 THEN 0 ELSE sum[i - 1] + sizes[i]
  IN  sum[Len(sizes)]

KeepsToLimit(part) == part # <<>> /\ (Len(part) = 1 \/ Total(part) <= MaxMessageSize)

Sent == [z \in Assigned |-> Batches(LiveSizes(Rows(z)))]

(* A transfer is the SOA, every record that is not deleted and the SOA, in  *)
(* messages that keep to the limit unless a single record does not (RFC     *)
(* 5936 2.2; axfr-server.js:289-310), and goes to those only who asked for  *)
(* one and are known.                                                       *)
TransferIsWhole ==
  \A c \in Conns : \A i \in 1 .. Len(out[c]) :
    LET z == out[c][i].says
    IN  z \in Assigned =>
          /\ c \in Known /\ asks[c][out[c][i].message] = "transfer"
          /\ WholeZone(Rows(z), FlattenSeq(Sent[z]))
          /\ \A p \in 1 .. Len(Sent[z]) : KeepsToLimit(Sent[z][p])

(* When stop() has returned, no socket is open, no client is connected, and *)
(* the source is closed, unless a request of a lost connection, or of UDP,  *)
(* still awaited it (axfr-server.js:116-128).                               *)
StopReleases ==
  state = "stopped" =>
    /\ udp = "closed"
    /\ \A c \in Conns : conn[c] # "open"
    /\ ~late => ~sourceOpen

(* A client that keeps its connection open and idle holds stop() up no      *)
(* longer than its time-out: it returns, or rejects with what the source    *)
(* does (axfr-server.js:116-128, 186).                                      *)
StopEnds == (state = "closeTcp") ~> (state \in {"stopped", "failed", "crashed"})
===============================================================================
