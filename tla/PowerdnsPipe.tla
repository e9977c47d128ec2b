---------------------------- MODULE PowerdnsPipe ----------------------------
(***************************************************************************)
(* lib/backend/powerdns-pipe.js: the co-process that PowerDNS forks. It      *)
(* reads a request a line, answers it from the NicTool database through a    *)
(* cache and a connection that may be lost, and ends the answer.            *)
(*                                                                         *)
(* The questions are about one zone. Its data in the database are the set of *)
(* nameservers assigned to it and the version of its one record. Each query  *)
(* is one step at its return, and others (edits, outages) come in between.  *)
(* The clock does not pass while a request is handled: an age below is exact *)
(* up to that time. PowerDNS asks one question at a time.                   *)
(***************************************************************************)
EXTENDS Integers, Sequences

CONSTANTS
  Requests,    \* the requests PowerDNS makes
  CacheTtl,    \* this.cacheTtl
  MaxTime,     \* bounds the clock
  MaxEdits,    \* bounds the edits of the zone
  MaxOutages   \* bounds the losses of the database

ASSUME PipeAssumption ==
  /\ Requests \subseteq {"A", "NS", "ANY", "SOA", "AXFR", "PING", "NOSUCHVERB"}
  /\ CacheTtl \in Nat
  /\ MaxTime \in Nat
  /\ MaxEdits \in Nat
  /\ MaxOutages \in Nat

Nameservers == {"this", "other"}   \* nameserverId, and another one
Versions    == 0 .. MaxEdits

Rows == ({"NS", "SOA"} \X Nameservers) \cup ({"RR"} \X Versions)
Keys == {"A", "NS", "ANY", "SOA"}

VARIABLES
  zone,      \* the zone in the database: its nameservers, its record
  gone,      \* of each row, when it was last removed from the database
  now,
  up,        \* whether the database can be reached
  outages,
  dbh,       \* the connection: "none", "live", or "dead" (lost, not yet noticed)
  cache,     \* of each key, the rows and their expiry, or Missing
  phase,     \* of run(): before the handshake, serving, refused
  request,   \* the request being handled
  plan,      \* the queries it still makes
  rows,      \* the rows it has so far
  retried,   \* whether the query is being made a second time
  answer,    \* the last answer: its request, its rows, the error of its LOG
  trouble    \* whether the database failed since the request came

store == <<zone, gone, now, up, outages>>
vars  == <<store, dbh, cache, phase, request, plan, rows, retried, answer, trouble>>

Missing   == [data |-> {}, expire |-> -1]
NoRequest == "none"

(* What a query fails with: an error of the database, or that of a           *)
(* connection that is dead, of which query() knows two.                     *)
RetriedCodes == {"PROTOCOL_CONNECTION_LOST", "ECONNRESET"}
DeadCodes    == RetriedCodes \cup {"EPIPE"}
Errors       == DeadCodes \cup {"database"}
NoError      == "none"
NoAnswer     == [to |-> NoRequest, rows |-> {}, log |-> NoError]

TypeOK ==
  /\ zone \in [on : SUBSET Nameservers, record : Versions]
  /\ gone \in [Rows -> 0 .. MaxTime]
  /\ now \in 0 .. MaxTime
  /\ up \in BOOLEAN
  /\ outages \in 0 .. MaxOutages
  /\ dbh \in {"none", "live", "dead"}
  /\ cache \in [Keys -> [data : SUBSET Rows, expire : -1 .. MaxTime + CacheTtl]]
  /\ phase \in {"hello", "serving", "refused"}
  /\ request \in Requests \cup {NoRequest}
  /\ \E n \in 0 .. 3 : plan \in [1 .. n -> {"soa", "ns", "zones", "records", "axfr"}]
  /\ rows \subseteq Rows
  /\ retried \in BOOLEAN
  /\ answer \in [to : Requests \cup {NoRequest}, rows : SUBSET Rows,
                log : Errors \cup {NoError}]
  /\ trouble \in BOOLEAN

(* What a query returns. getSOA and getNS join every nameserver of the zone, *)
(* and getSOA takes one row of them; the records are for this nameserver.   *)
NsRows(z)     == {"NS"} \X z.on
RecordRows(z) == IF "this" \in z.on THEN {<<"RR", z.record>>} ELSE {}
InDatabase(z) == ({"NS", "SOA"} \X z.on) \cup RecordRows(z)   \* for this nameserver

Results(query) ==
  CASE query = "soa"     -> IF zone.on = {} THEN {{}} ELSE {{<<"SOA", n>>} : n \in zone.on}
    [] query = "ns"      -> {NsRows(zone)}
    [] query = "records" -> {RecordRows(zone)}
    [] query = "axfr"    -> {{<<"RR", zone.record>>}}

Init ==
  /\ zone = [on |-> Nameservers, record |-> 0]
  /\ gone = [r \in Rows |-> 0]
  /\ now = 0
  /\ up = TRUE
  /\ outages = 0
  /\ dbh = "none"
  /\ cache = [k \in Keys |-> Missing]
  /\ phase = "hello"
  /\ request = NoRequest
  /\ plan = <<>>
  /\ rows = {}
  /\ retried = FALSE
  /\ answer = NoAnswer
  /\ trouble = FALSE

-----------------------------------------------------------------------------
(* mutants of the definitions below, for the runs of PROJECT.json *)
Hit_Expired(key) == cache[key] # Missing

Failed_Throws(error, connection) ==
  /\ dbh' = connection
  /\ plan' = <<>>
  /\ UNCHANGED <<request, rows, retried, answer, cache>>

Entry_Milliseconds(data) == [data |-> data, expire |-> now + 1000 * CacheTtl]

DropConnection_Kept == UNCHANGED dbh

(* cacheGet() finds an entry that has not expired.                          *)
Hit(key) == cache[key].expire >= now

Entry(data) == [data |-> data, expire |-> now + CacheTtl]

(* The zone-id query of getRecords() finds the zone.                        *)
Served == "this" \in zone.on

(* The queries of lookup() and axfr(). "zones" and "records" are those of   *)
(* getRecords().                                                            *)
Queries(req) ==
  CASE req = "SOA"  -> <<"soa">>
    [] req = "NS"   -> <<"ns", "zones", "records">>
    [] req = "ANY"  -> <<"zones", "records", "ns">>
    [] req = "A"    -> <<"zones", "records">>
    [] req = "AXFR" -> <<"axfr">>
    [] OTHER        -> <<>>

(* The request is answered, and lookup() caches the rows it put together.   *)
Reply(req, got, c) ==
  /\ answer' = [to |-> req, rows |-> got, log |-> NoError]
  /\ cache' = IF req \in {"SOA", "NS", "ANY"} THEN [c EXCEPT ![req] = Entry(got)] ELSE c
  /\ request' = NoRequest
  /\ plan' = <<>>
  /\ rows' = {}
  /\ retried' = FALSE

GoOn(req, queries, got, c) ==
  \/ queries = <<>> /\ Reply(req, got, c)
  \/ /\ queries # <<>>
     /\ request' = req
     /\ plan' = queries
     /\ rows' = got
     /\ retried' = FALSE
     /\ cache' = c
     /\ answer' = NoAnswer

(* Before the queries of getRecords() comes the cache.                      *)
Proceed(req, queries, got) ==
  LET cached == queries # <<>> /\ Head(queries) = "zones"
  IN  \/ cached /\ Hit(req)
         /\ GoOn(req, SubSeq(queries, 3, Len(queries)), got \cup cache[req].data, cache)
      \/ cached /\ ~Hit(req) /\ GoOn(req, queries, got, [cache EXCEPT ![req] = Missing])
      \/ ~cached /\ GoOn(req, queries, got, cache)

(* The catch of run(): LOG, and END.                                        *)
Failed(error, connection) ==
  /\ dbh' = connection
  /\ answer' = [to |-> request, rows |-> {}, log |-> error]
  /\ request' = NoRequest
  /\ plan' = <<>>
  /\ rows' = {}
  /\ retried' = FALSE
  /\ UNCHANGED cache

-----------------------------------------------------------------------------
(* The first line.                                                          *)
Handshake ==
  /\ phase = "hello"
  /\ phase' \in {"serving", "refused"}
  /\ UNCHANGED <<store, dbh, cache, request, plan, rows, retried, answer, trouble>>

Receive(req) ==
  /\ phase = "serving"
  /\ request = NoRequest
  /\ Proceed(req, Queries(req), {})
  /\ trouble' = ~up
  /\ UNCHANGED <<store, dbh, phase>>

Connect ==
  /\ plan # <<>>
  /\ dbh = "none"
  /\ up
  /\ dbh' = "live"
  /\ UNCHANGED <<store, cache, phase, request, plan, rows, retried, answer, trouble>>

ConnectFails ==
  /\ plan # <<>>
  /\ dbh = "none"
  /\ ~up
  /\ Failed("database", "none")
  /\ UNCHANGED <<store, phase, trouble>>

ZonesQuery ==
  /\ plan # <<>> /\ Head(plan) = "zones"
  /\ dbh = "live"
  /\ GoOn(request, IF Served THEN Tail(plan) ELSE SubSeq(plan, 3, Len(plan)), rows, cache)
  /\ UNCHANGED <<store, dbh, phase, trouble>>

RecordsQuery ==
  /\ plan # <<>> /\ Head(plan) = "records"
  /\ dbh = "live"
  /\ \E result \in Results("records") :
       GoOn(request, Tail(plan), rows \cup result, [cache EXCEPT ![request] = Entry(result)])
  /\ UNCHANGED <<store, dbh, phase, trouble>>

OtherQuery ==
  /\ plan # <<>> /\ Head(plan) \in {"soa", "ns", "axfr"}
  /\ dbh = "live"
  /\ \E result \in Results(Head(plan)) : Proceed(request, Tail(plan), rows \cup result)
  /\ UNCHANGED <<store, dbh, phase, trouble>>

(* The database rejects the query, or a row does not encode.                *)
QueryFails ==
  /\ plan # <<>>
  /\ dbh = "live"
  /\ Failed("database", "live")
  /\ trouble' = TRUE
  /\ UNCHANGED <<store, phase>>

(* this.dbh = null after a lost connection                                  *)
DropConnection == dbh' = "none"

(* A query over a dead connection fails with one of DeadCodes. query() makes  *)
(* a new connection for two of them, and tries once more.                   *)
Lost ==
  /\ plan # <<>>
  /\ dbh = "dead"
  /\ ~retried
  /\ DropConnection
  /\ retried' = TRUE
  /\ UNCHANGED <<store, cache, phase, request, plan, rows, answer, trouble>>

(* Any other error, and any error of the second try, is thrown, and this.dbh *)
(* stays what it is.                                                        *)
Thrown(code) ==
  /\ plan # <<>>
  /\ dbh = "dead"
  /\ retried \/ code \notin RetriedCodes
  /\ Failed(code, "dead")
  /\ UNCHANGED <<store, phase, trouble>>

(* Someone edits the zone: a nameserver, or the record.                     *)
Edit ==
  /\ zone.record < MaxEdits
  /\ \E on \in SUBSET Nameservers : zone' = [on |-> on, record |-> zone.record + 1]
  /\ gone' = [r \in Rows |-> IF r \in InDatabase(zone) \ InDatabase(zone') THEN now ELSE gone[r]]
  /\ UNCHANGED <<now, up, outages, dbh, cache, phase, request, plan, rows, retried, answer, trouble>>

(* The connection is lost: the server closes it, or goes away.              *)
LoseConnection ==
  /\ outages < MaxOutages
  /\ outages' = outages + 1
  /\ up' \in {up, FALSE}
  /\ dbh' = IF dbh = "live" THEN "dead" ELSE dbh
  /\ trouble' = TRUE
  /\ UNCHANGED <<zone, gone, now, cache, phase, request, plan, rows, retried, answer>>

ComeBack ==
  /\ ~up
  /\ up' = TRUE
  /\ UNCHANGED <<zone, gone, now, outages, dbh, cache, phase, request, plan, rows, retried, answer, trouble>>

Tick ==
  /\ now < MaxTime
  /\ request = NoRequest
  /\ now' = now + 1
  /\ answer' = NoAnswer
  /\ UNCHANGED <<zone, gone, up, outages, dbh, cache, phase, request, plan, rows, retried, trouble>>

Work == Connect \/ ConnectFails \/ ZonesQuery \/ RecordsQuery \/ OtherQuery
        \/ QueryFails \/ Lost \/ \E code \in DeadCodes : Thrown(code)

Next ==
  \/ Handshake \/ Work
  \/ \E req \in Requests : Receive(req)
  \/ Edit \/ LoseConnection \/ ComeBack \/ Tick

(* A query returns or fails, as the driver sees to.                         *)
Spec == Init /\ [][Next]_vars /\ WF_vars(Work)

-----------------------------------------------------------------------------
(* No row in an answer is older than the cache may keep it: it is in the    *)
(* database, or was until CacheTtl ago (README.md:57, "seconds to cache a   *)
(* query result").                                                          *)
FreshAnswers ==
  \A r \in answer.rows : r \in InDatabase(zone) \/ now - gone[r] <= CacheTtl

(* That holds of the answers that only getRecords() gives (lines 135-222):  *)
(* no record is answered that was changed, or whose zone was taken from     *)
(* this nameserver, longer ago.                                             *)
FreshRecords == answer.to = "A" => FreshAnswers

(* This server answers for the zones that are assigned to it, or were until *)
(* CacheTtl ago (README.md:55, "which nameserver's zones to serve"; the      *)
(* records' zone is looked for so, lines 169-187, the SOA's and NS's not).   *)
OwnZonesOnly ==
  LET assigned == <<"NS", "this">>
  IN  answer.rows # {} => assigned \in InDatabase(zone) \/ now - gone[assigned] <= CacheTtl

(* A request fails only when the database fails it while it is handled, or  *)
(* when its connection was dead and said so with an error that query() does *)
(* not know: then the dead connection stays, for the requests to come. A    *)
(* connection that query() has replaced does not cost the request           *)
(* (lines 74-88).                                                           *)
ErrorHasCause ==
  answer.log # NoError => trouble \/ (answer.log \notin RetriedCodes /\ dbh = "dead")

(* PowerDNS waits for the END of every request, also when the database is   *)
(* away (lines 359-383).                                                    *)
EveryRequestEnds == (request # NoRequest) ~> (request = NoRequest)
=============================================================================
