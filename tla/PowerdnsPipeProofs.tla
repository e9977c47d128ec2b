------------------------- MODULE PowerdnsPipeProofs -------------------------
(***************************************************************************)
(* Proofs about PowerdnsPipe, for every set of requests and every cacheTtl, *)
(* clock, number of edits and of outages.                                   *)
(*                                                                         *)
(* The parts of the invariant are                                           *)
(*   PlanFits      the queries that a request still makes are the last of   *)
(*                 those that it began with, or of those that a cache hit   *)
(*                 leaves;                                                  *)
(*   EntryFits     what getRecords() has cached for "A" was in the database *)
(*                 when it was cached;                                      *)
(*   TroubleKnown  a request that is under way while the database is away,  *)
(*                 or has lost its connection twice, has seen it fail; and  *)
(*                 it has not been answered with LOG yet.                   *)
(***************************************************************************)
EXTENDS PowerdnsPipe, SequenceTheorems, TLAPS

Queryings == {"soa", "ns", "zones", "records", "axfr"}
Entries   == [data : SUBSET Rows, expire : -1 .. MaxTime + CacheTtl]
Answers   == [to : Requests \cup {NoRequest}, rows : SUBSET Rows,
              log : Errors \cup {NoError}]

(* What can be left of the queries of a request.                            *)
Remainders(req) ==
  CASE req = "SOA"  -> {<<>>, <<"soa">>}
    [] req = "NS"   -> {<<>>, <<"records">>, <<"zones", "records">>,
                        <<"ns", "zones", "records">>}
    [] req = "ANY"  -> {<<>>, <<"ns">>, <<"records", "ns">>, <<"zones", "records", "ns">>}
    [] req = "A"    -> {<<>>, <<"records">>, <<"zones", "records">>}
    [] req = "AXFR" -> {<<>>, <<"axfr">>}
    [] OTHER        -> {<<>>}

PlanFits ==
  IF request = NoRequest THEN plan = <<>>
  ELSE /\ plan \in Remainders(request) \ {<<>>}
       /\ request = "A" => rows = {}

(* The rows that c has for getRecords() of "A" were in the database when    *)
(* they were cached.                                                        *)
EntryFits(c) ==
  /\ c["A"].expire <= now + CacheTtl
  /\ \A r \in c["A"].data : r \in InDatabase(zone) \/ gone[r] >= c["A"].expire - CacheTtl

TroubleKnown ==
  /\ request # NoRequest /\ ~up => trouble
  /\ retried /\ dbh = "dead" => trouble
  /\ request # NoRequest => answer.log = NoError
  /\ ErrorHasCause

IInv ==
  /\ TypeOK
  /\ PlanFits
  /\ EntryFits(cache)
  /\ FreshRecords
  /\ TroubleKnown

-----------------------------------------------------------------------------
(* The plans are sequences of a few of the queries.                         *)
LEMMA RemaindersAreShort ==
  ASSUME NEW req, NEW p \in Remainders(req)
  PROVE  \E n \in 0 .. 3 : p \in [1 .. n -> Queryings]
<1>1. p \in {<<>>, <<"soa">>, <<"records">>, <<"zones", "records">>,
             <<"ns", "zones", "records">>, <<"ns">>, <<"records", "ns">>,
             <<"zones", "records", "ns">>, <<"axfr">>}
  BY DEF Remainders
<1>2. CASE p = <<>>
  <2>1. p \in [1 .. 0 -> Queryings]
    BY <1>2
  <2> QED
    BY <2>1
<1>3. CASE p \in {<<"soa">>, <<"records">>, <<"ns">>, <<"axfr">>}
  <2>1. p \in [1 .. 1 -> Queryings]
    BY <1>3 DEF Queryings
  <2> QED
    BY <2>1
<1>4. CASE p \in {<<"zones", "records">>, <<"records", "ns">>}
  <2>1. p \in [1 .. 2 -> Queryings]
    BY <1>4 DEF Queryings
  <2> QED
    BY <2>1
<1>5. CASE p \in {<<"ns", "zones", "records">>, <<"zones", "records", "ns">>}
  <2>1. p \in [1 .. 3 -> Queryings]
    BY <1>5 DEF Queryings
  <2> QED
    BY <2>1
<1> QED
  BY <1>1, <1>2, <1>3, <1>4, <1>5

(* Short sequences.                                                         *)
LEMMA Tails ==
  /\ \A a : Head(<<a>>) = a /\ Tail(<<a>>) = <<>> /\ <<a>> # <<>>
  /\ \A a, b : Head(<<a, b>>) = a /\ Tail(<<a, b>>) = <<b>>
  /\ \A a, b, c : Head(<<a, b, c>>) = a /\ Tail(<<a, b, c>>) = <<b, c>>
OBVIOUS

LEMMA Ends ==
  /\ \A a, b : SubSeq(<<a, b>>, 3, Len(<<a, b>>)) = <<>>
  /\ \A a, b, c : SubSeq(<<a, b, c>>, 3, Len(<<a, b, c>>)) = <<c>>
<1>1. ASSUME NEW a, NEW b PROVE SubSeq(<<a, b>>, 3, Len(<<a, b>>)) = <<>>
  <2>1. <<a, b>> \in Seq({a, b}) /\ Len(<<a, b>>) = 2
    OBVIOUS
  <2>2. SubSeq(<<a, b>>, 3, 2) \in Seq({a, b}) /\ Len(SubSeq(<<a, b>>, 3, 2)) = 0
    BY <2>1, SubSeqProperties
  <2> QED
    BY <2>1, <2>2, EmptySeq
<1>2. ASSUME NEW a, NEW b, NEW c PROVE SubSeq(<<a, b, c>>, 3, Len(<<a, b, c>>)) = <<c>>
  <2>1. <<a, b, c>> \in Seq({a, b, c}) /\ Len(<<a, b, c>>) = 3 /\ <<a, b, c>>[3] = c
    OBVIOUS
  <2>2. /\ SubSeq(<<a, b, c>>, 3, 3) \in Seq({a, b, c})
        /\ Len(SubSeq(<<a, b, c>>, 3, 3)) = 1
        /\ SubSeq(<<a, b, c>>, 3, 3)[1] = c
    BY <2>1, SubSeqProperties
  <2>3. \A s \in Seq({a, b, c}) : Len(s) = 1 /\ s[1] = c => s = <<c>>
    OBVIOUS
  <2> QED
    BY <2>1, <2>2, <2>3
<1> QED
  BY <1>1, <1>2

(* What is left of a request's queries after the next of them, with or      *)
(* without getRecords() finding its zone or its cache.                      *)
LEMMA RemaindersShrink ==
  ASSUME NEW req, NEW p \in Remainders(req) \ {<<>>}
  PROVE  /\ Head(p) \in Queryings
         /\ Tail(p) \in Remainders(req)
         /\ Head(p) = "zones" => SubSeq(p, 3, Len(p)) \in Remainders(req)
         /\ req = "A" => Head(p) \in {"zones", "records"}
         /\ req = "A" /\ Head(p) = "zones" => SubSeq(p, 3, Len(p)) = <<>>
         /\ req = "A" /\ Head(p) = "records" => Tail(p) = <<>>
         /\ req = "A" /\ Head(p) = "zones" => Tail(p) # <<>> /\ Head(Tail(p)) # "zones"
<1>1. CASE p \in {<<"soa">>, <<"axfr">>, <<"records">>, <<"ns">>}
  <2>1. Tail(p) = <<>> /\ Head(p) \in {"soa", "axfr", "records", "ns"}
    BY <1>1, Tails
  <2>2. Tail(p) \in Remainders(req)
    BY <2>1 DEF Remainders
  <2>3. req = "A" => Head(p) = "records"
    BY <1>1 DEF Remainders
  <2> QED
    BY <2>1, <2>2, <2>3 DEF Queryings
<1>2. CASE p = <<"zones", "records">>
  <2>1. Tail(p) = <<"records">> /\ Head(p) = "zones" /\ SubSeq(p, 3, Len(p)) = <<>>
    BY <1>2, Tails, Ends
  <2>2. Tail(p) \in Remainders(req) /\ <<>> \in Remainders(req)
    BY <1>2, <2>1 DEF Remainders
  <2>3. Tail(p) # <<>> /\ Head(Tail(p)) = "records"
    BY <2>1, Tails
  <2> QED
    BY <2>1, <2>2, <2>3 DEF Queryings
<1>3. CASE p = <<"records", "ns">>
  <2>1. Tail(p) = <<"ns">> /\ Head(p) = "records" /\ req = "ANY"
    BY <1>3 DEF Remainders
  <2>2. Tail(p) \in Remainders(req)
    BY <2>1 DEF Remainders
  <2> QED
    BY <2>1, <2>2 DEF Queryings
<1>4. CASE p = <<"ns", "zones", "records">>
  <2>1. Tail(p) = <<"zones", "records">> /\ Head(p) = "ns" /\ req = "NS"
    BY <1>4 DEF Remainders
  <2>2. Tail(p) \in Remainders(req)
    BY <2>1 DEF Remainders
  <2> QED
    BY <2>1, <2>2 DEF Queryings
<1>5. CASE p = <<"zones", "records", "ns">>
  <2>1. Tail(p) = <<"records", "ns">> /\ Head(p) = "zones"
        /\ SubSeq(p, 3, Len(p)) = <<"ns">>
    BY <1>5, Tails, Ends
  <2>3. req = "ANY"
    BY <1>5 DEF Remainders
  <2>2. Tail(p) \in Remainders(req) /\ <<"ns">> \in Remainders(req)
    BY <2>1, <2>3 DEF Remainders
  <2> QED
    BY <2>1, <2>2, <2>3 DEF Queryings
<1>6. p \in {<<"soa">>, <<"records">>, <<"zones", "records">>, <<"ns", "zones", "records">>,
             <<"ns">>, <<"records", "ns">>, <<"zones", "records", "ns">>, <<"axfr">>}
  BY DEF Remainders
<1> QED
  BY <1>1, <1>2, <1>3, <1>4, <1>5, <1>6

LEMMA QueriesRemain ==
  ASSUME NEW req PROVE Queries(req) \in Remainders(req) /\ <<>> \in Remainders(req)
BY DEF Queries, Remainders

(* What the queries return is made of rows, and is in the database.         *)
LEMMA ResultsAreRows ==
  ASSUME zone \in [on : SUBSET Nameservers, record : Versions],
         NEW q \in Queryings \ {"zones"}, NEW got \in Results(q)
  PROVE  /\ got \subseteq Rows
         /\ q = "records" => got \subseteq InDatabase(zone)
<1>1. zone.on \subseteq Nameservers /\ zone.record \in Versions
  OBVIOUS
<1>2. CASE q = "soa"
  BY <1>1, <1>2 DEF Results, Rows
<1>3. CASE q = "ns"
  BY <1>1, <1>3 DEF Results, Rows, NsRows
<1>4. CASE q = "records"
  BY <1>1, <1>4 DEF Results, Rows, RecordRows, InDatabase
<1>5. CASE q = "axfr"
  BY <1>1, <1>5 DEF Results, Rows
<1> QED
  BY <1>2, <1>3, <1>4, <1>5 DEF Queryings

-----------------------------------------------------------------------------
(* The state between two steps of a request: what its next step leaves, but *)
(* for the database, the clock and the connection.                          *)
Handled ==
  /\ cache \in [Keys -> Entries]
  /\ request \in Requests \cup {NoRequest}
  /\ \E n \in 0 .. 3 : plan \in [1 .. n -> Queryings]
  /\ rows \subseteq Rows
  /\ retried \in BOOLEAN
  /\ answer \in Answers
  /\ PlanFits
  /\ EntryFits(cache)
  /\ FreshRecords

(* An entry is as new as the clock.                                         *)
LEMMA EntryIsTyped ==
  ASSUME now \in 0 .. MaxTime, NEW data \in SUBSET Rows
  PROVE  Entry(data) \in Entries /\ Missing \in Entries
<1>1. now + CacheTtl \in -1 .. MaxTime + CacheTtl /\ -1 \in -1 .. MaxTime + CacheTtl
  BY PipeAssumption DEF PipeAssumption
<1> QED
  BY <1>1 DEF Entry, Entries, Missing

(* The request goes on with what is left of its queries, or is answered.    *)
LEMMA GoOnHandles ==
  ASSUME IInv, UNCHANGED <<zone, gone, now>>,
         NEW req \in Requests, NEW queries \in Remainders(req),
         NEW got \in SUBSET Rows, NEW c \in [Keys -> Entries],
         GoOn(req, queries, got, c),
         EntryFits(c),
         req = "A" /\ queries # <<>> => got = {},
         req = "A" /\ queries = <<>> =>
           \A r \in got : r \in InDatabase(zone) \/ now - gone[r] <= CacheTtl
  PROVE  Handled'
<1>1. now \in 0 .. MaxTime /\ req # NoRequest /\ NoRequest \notin Requests
  BY PipeAssumption DEF IInv, TypeOK, PipeAssumption, NoRequest
<1>2. CASE queries = <<>>
  <2>1. /\ answer' = [to |-> req, rows |-> got, log |-> NoError]
        /\ cache' = IF req \in {"SOA", "NS", "ANY"} THEN [c EXCEPT ![req] = Entry(got)] ELSE c
        /\ request' = NoRequest /\ plan' = <<>> /\ rows' = {} /\ retried' = FALSE
    BY <1>2 DEF GoOn, Reply
  <2>2. cache' \in [Keys -> Entries] /\ cache'["A"] = c["A"]
    <3>1. CASE req \in {"SOA", "NS", "ANY"}
      BY <1>1, <2>1, <3>1, EntryIsTyped DEF Keys
    <3>2. CASE req \notin {"SOA", "NS", "ANY"}
      BY <2>1, <3>2
    <3> QED
      BY <3>1, <3>2
  <2>3. answer' \in Answers
    BY <2>1 DEF Answers
  <2>4. plan' \in [1 .. 0 -> Queryings] /\ 0 \in 0 .. 3
    BY <2>1
  <2>5. PlanFits' /\ EntryFits(cache)'
    BY <2>1, <2>2 DEF PlanFits, EntryFits, InDatabase
  <2>6. FreshRecords'
    BY <1>2, <2>1 DEF FreshRecords, FreshAnswers, InDatabase
  <2>7. request' \in Requests \cup {NoRequest} /\ rows' \subseteq Rows /\ retried' \in BOOLEAN
    BY <2>1
  <2> QED
    BY <2>2, <2>3, <2>4, <2>5, <2>6, <2>7 DEF Handled
<1>3. CASE queries # <<>>
  <2>1. /\ request' = req /\ plan' = queries /\ rows' = got /\ retried' = FALSE
        /\ cache' = c /\ answer' = NoAnswer
    BY <1>3 DEF GoOn
  <2>2. answer' \in Answers
    BY <2>1 DEF Answers, NoAnswer
  <2>3. \E n \in 0 .. 3 : plan' \in [1 .. n -> Queryings]
    BY <2>1, RemaindersAreShort
  <2>4. PlanFits'
    BY <1>1, <1>3, <2>1 DEF PlanFits, Remainders, NoRequest
  <2>5. EntryFits(cache)'
    BY <2>1 DEF EntryFits, InDatabase
  <2>6. FreshRecords'
    BY <2>1 DEF FreshRecords, FreshAnswers, NoAnswer, NoRequest
  <2> QED
    BY <2>1, <2>2, <2>3, <2>4, <2>5, <2>6 DEF Handled
<1> QED
  BY <1>2, <1>3

(* The same, after a look into the cache.                                   *)
LEMMA ProceedHandles ==
  ASSUME IInv, UNCHANGED <<zone, gone, now>>,
         NEW req \in Requests, NEW queries \in Remainders(req), NEW got \in SUBSET Rows,
         Proceed(req, queries, got),
         req = "A" => queries # <<>> /\ Head(queries) = "zones" /\ got = {}
  PROVE  Handled'
<1> DEFINE cached == queries # <<>> /\ Head(queries) = "zones"
<1>1. /\ cache \in [Keys -> Entries] /\ now \in 0 .. MaxTime /\ EntryFits(cache)
      /\ gone \in [Rows -> 0 .. MaxTime]
  BY DEF IInv, TypeOK, Entries
<1>2. CASE cached /\ Hit(req) /\ GoOn(req, SubSeq(queries, 3, Len(queries)),
                                      got \cup cache[req].data, cache)
  <2> DEFINE data == cache[req].data
             left == SubSeq(queries, 3, Len(queries))
  <2>1. req \in Keys
    BY <1>2 DEF Remainders, Keys
  <2>2. got \cup data \in SUBSET Rows
    BY <1>1, <2>1 DEF Entries
  <2>3. left \in Remainders(req) /\ (req = "A" => left = <<>>)
    BY <1>2, RemaindersShrink
  <2>4. req = "A" => \A r \in got \cup data : r \in InDatabase(zone) \/ now - gone[r] <= CacheTtl
    <3> SUFFICES ASSUME req = "A", NEW r \in data
                 PROVE  r \in InDatabase(zone) \/ now - gone[r] <= CacheTtl
      OBVIOUS
    <3>1. cache["A"].expire >= now /\ r \in cache["A"].data
      BY <1>2 DEF Hit
    <3>2. r \in InDatabase(zone) \/ gone[r] >= cache["A"].expire - CacheTtl
      BY <1>1, <3>1 DEF EntryFits
    <3>3. cache["A"].expire \in Int /\ gone[r] \in Int /\ now \in Int /\ CacheTtl \in Int
      BY <1>1, <2>2, PipeAssumption DEF PipeAssumption, Entries, Keys
    <3> QED
      BY <3>1, <3>2, <3>3
  <2> HIDE DEF data, left
  <2>5. GoOn(req, left, got \cup data, cache)
    BY <1>2 DEF left, data
  <2> QED
    BY <1>1, <2>2, <2>3, <2>4, <2>5, GoOnHandles
<1>3. CASE cached /\ GoOn(req, queries, got, [cache EXCEPT ![req] = Missing])
  <2> DEFINE c == [cache EXCEPT ![req] = Missing]
  <2>1. req \in Keys
    BY <1>3 DEF Remainders, Keys
  <2>2. c \in [Keys -> Entries] /\ c["A"] \in {cache["A"], Missing}
    BY <1>1, <2>1, EntryIsTyped DEF Keys
  <2>3. EntryFits(c)
    <3>1. Missing.expire <= now + CacheTtl /\ Missing.data = {}
      BY <1>1, PipeAssumption DEF Missing, PipeAssumption
    <3> HIDE DEF c
    <3> QED
      BY <1>1, <2>2, <3>1 DEF EntryFits
  <2> HIDE DEF c
  <2>4. GoOn(req, queries, got, c)
    BY <1>3 DEF c
  <2> QED
    BY <1>3, <2>2, <2>3, <2>4, GoOnHandles
<1>4. CASE ~cached /\ GoOn(req, queries, got, cache)
  BY <1>1, <1>4, GoOnHandles
<1> QED
  BY <1>2, <1>3, <1>4 DEF Proceed

LEMMA GoOnIsQuiet ==
  ASSUME NEW req, NEW queries, NEW got, NEW c, GoOn(req, queries, got, c)
  PROVE  answer'.log = NoError /\ retried' = FALSE
BY DEF GoOn, Reply, NoAnswer

LEMMA ProceedIsQuiet ==
  ASSUME NEW req, NEW queries, NEW got, Proceed(req, queries, got)
  PROVE  answer'.log = NoError /\ retried' = FALSE
<1> DEFINE left == SubSeq(queries, 3, Len(queries))
           more == got \cup cache[req].data
           c    == [cache EXCEPT ![req] = Missing]
<1>1. GoOn(req, left, more, cache) \/ GoOn(req, queries, got, c) \/ GoOn(req, queries, got, cache)
  BY DEF Proceed
<1> HIDE DEF left, more, c
<1> QED
  BY <1>1, GoOnIsQuiet

(* A request fails.                                                         *)
LEMMA FailedHandles ==
  ASSUME IInv, UNCHANGED <<zone, gone, now>>, NEW connection, NEW error \in Errors,
         Failed(error, connection)
  PROVE  Handled'
<1>1. /\ answer' = [to |-> request, rows |-> {}, log |-> error]
      /\ request' = NoRequest /\ plan' = <<>> /\ rows' = {} /\ retried' = FALSE /\ cache' = cache
  BY DEF Failed
<1>2. /\ cache \in [Keys -> Entries] /\ request \in Requests \cup {NoRequest}
      /\ EntryFits(cache)
  BY DEF IInv, TypeOK, Entries
<1>3. answer' \in Answers
  BY <1>1, <1>2 DEF Answers
<1>4. plan' \in [1 .. 0 -> Queryings] /\ 0 \in 0 .. 3
  BY <1>1
<1>5. PlanFits' /\ FreshRecords' /\ EntryFits(cache)'
  BY <1>1, <1>2 DEF PlanFits, FreshRecords, FreshAnswers, EntryFits, InDatabase
<1> QED
  BY <1>1, <1>2, <1>3, <1>4, <1>5 DEF Handled

(* A step of a request keeps the invariant, if it leaves the request in     *)
(* order and knows its trouble.                                             *)
LEMMA RequestStep ==
  ASSUME IInv, UNCHANGED <<store, phase>>, dbh' \in {"none", "live", "dead"}, Handled',
         trouble' \in BOOLEAN, TroubleKnown'
  PROVE  IInv'
<1>1. UNCHANGED <<zone, gone, now, up, outages, phase>>
  BY DEF store
<1>2. TypeOK'
  BY <1>1, Zenon DEF IInv, TypeOK, Handled, Entries, Queryings, Answers
<1> QED
  BY <1>2 DEF IInv, Handled

LEMMA StateTypes ==
  ASSUME IInv
  PROVE  /\ zone \in [on : SUBSET Nameservers, record : Versions]
         /\ gone \in [Rows -> 0 .. MaxTime] /\ now \in 0 .. MaxTime
         /\ up \in BOOLEAN /\ dbh \in {"none", "live", "dead"}
         /\ cache \in [Keys -> Entries] /\ EntryFits(cache)
         /\ request \in Requests \cup {NoRequest} /\ NoRequest \notin Requests
         /\ rows \subseteq Rows /\ retried \in BOOLEAN /\ trouble \in BOOLEAN
         /\ answer \in Answers
         /\ TroubleKnown /\ PlanFits
         /\ plan # <<>> => /\ request \in Requests /\ plan \in Remainders(request) \ {<<>>}
                           /\ request = "A" => rows = {}
BY PipeAssumption DEF PipeAssumption, NoRequest, IInv, TypeOK, Entries, Answers, PlanFits

LEMMA ReceiveKeeps == ASSUME IInv, NEW req \in Requests, Receive(req) PROVE IInv'
<1>1. /\ Proceed(req, Queries(req), {}) /\ trouble' = ~up
      /\ UNCHANGED <<store, dbh, phase>>
  BY DEF Receive
<1>2. UNCHANGED <<zone, gone, now, up>>
  BY <1>1 DEF store
<1>3. Queries(req) \in Remainders(req)
        /\ (req = "A" => Queries(req) = <<"zones", "records">>)
  BY QueriesRemain DEF Queries
<1>4. Handled'
  <2>1. req = "A" => Queries(req) # <<>> /\ Head(Queries(req)) = "zones"
    BY <1>3
  <2> DEFINE qs == Queries(req)
  <2> HIDE DEF qs
  <2>2. /\ qs \in Remainders(req) /\ Proceed(req, qs, {})
        /\ req = "A" => qs # <<>> /\ Head(qs) = "zones"
    BY <1>1, <1>3, <2>1 DEF qs
  <2> QED
    BY <1>2, <2>2, ProceedHandles
<1>5. answer'.log = NoError /\ retried' = FALSE
  BY <1>1, ProceedIsQuiet
<1>6. TroubleKnown'
  BY <1>1, <1>2, <1>5 DEF TroubleKnown, ErrorHasCause
<1> QED
  BY <1>1, <1>4, <1>6, StateTypes, RequestStep

LEMMA ZonesQueryKeeps == ASSUME IInv, ZonesQuery PROVE IInv'
<1> DEFINE left == IF Served THEN Tail(plan) ELSE SubSeq(plan, 3, Len(plan))
<1>1. /\ plan # <<>> /\ Head(plan) = "zones" /\ dbh = "live"
      /\ GoOn(request, left, rows, cache)
      /\ UNCHANGED <<store, dbh, phase, trouble>>
  BY DEF ZonesQuery
<1>2. UNCHANGED <<zone, gone, now, up>>
  BY <1>1 DEF store
<1>3. /\ request \in Requests /\ plan \in Remainders(request) \ {<<>>}
      /\ request = "A" => rows = {}
  BY <1>1, StateTypes
<1>4. left \in Remainders(request)
  BY <1>1, <1>3, RemaindersShrink
<1> HIDE DEF left
<1>5. Handled'
  <2>1. request = "A" /\ left # <<>> => rows = {}
    BY <1>3
  <2>2. request = "A" /\ left = <<>> =>
          \A r \in rows : r \in InDatabase(zone) \/ now - gone[r] <= CacheTtl
    BY <1>3
  <2> QED
    BY <1>1, <1>2, <1>3, <1>4, <2>1, <2>2, StateTypes, GoOnHandles
<1>6. answer'.log = NoError /\ retried' = FALSE
  BY <1>1, GoOnIsQuiet
<1>7. TroubleKnown'
  BY <1>1, <1>2, <1>3, <1>6, StateTypes DEF TroubleKnown, ErrorHasCause
<1> QED
  BY <1>1, <1>5, <1>7, StateTypes, RequestStep

LEMMA RecordsQueryKeeps == ASSUME IInv, RecordsQuery PROVE IInv'
<1>1. /\ plan # <<>> /\ Head(plan) = "records" /\ dbh = "live"
      /\ UNCHANGED <<store, dbh, phase, trouble>>
  BY DEF RecordsQuery
<1>2. PICK result \in Results("records") :
        GoOn(request, Tail(plan), rows \cup result, [cache EXCEPT ![request] = Entry(result)])
  BY DEF RecordsQuery
<1>3. UNCHANGED <<zone, gone, now, up>>
  BY <1>1 DEF store
<1>4. /\ request \in Requests /\ plan \in Remainders(request) \ {<<>>}
      /\ request = "A" => rows = {}
  BY <1>1, StateTypes
<1>5. Tail(plan) \in Remainders(request) /\ (request = "A" => Tail(plan) = <<>>)
  BY <1>1, <1>4, RemaindersShrink
<1>6. result \subseteq Rows /\ result \subseteq InDatabase(zone)
  BY StateTypes, ResultsAreRows DEF Queryings
<1> DEFINE left == Tail(plan)
           got  == rows \cup result
           c    == [cache EXCEPT ![request] = Entry(result)]
<1>7. got \in SUBSET Rows
  BY <1>6, StateTypes
<1>8. request \in Keys
  BY <1>1, <1>4, RemaindersShrink DEF Remainders, Keys
<1>9. c \in [Keys -> Entries] /\ c["A"] \in {cache["A"], Entry(result)}
  BY <1>6, <1>8, StateTypes, EntryIsTyped DEF Keys
<1>10. EntryFits(c)
  <2>1. Entry(result).expire = now + CacheTtl /\ Entry(result).data = result
    BY DEF Entry
  <2>2. now + CacheTtl <= now + CacheTtl
    BY StateTypes, PipeAssumption DEF PipeAssumption
  <2> HIDE DEF c
  <2> QED
    BY <1>6, <1>9, <2>1, <2>2, StateTypes DEF EntryFits
<1>11. request = "A" /\ left = <<>> =>
         \A r \in got : r \in InDatabase(zone) \/ now - gone[r] <= CacheTtl
  BY <1>4, <1>6
<1>12. request = "A" /\ left # <<>> => got = {}
  BY <1>5
<1>13. left \in Remainders(request) /\ GoOn(request, left, got, c)
  BY <1>2, <1>5
<1> HIDE DEF left, got, c
<1>14. Handled'
  BY <1>3, <1>4, <1>7, <1>9, <1>10, <1>11, <1>12, <1>13, GoOnHandles
<1>15. answer'.log = NoError /\ retried' = FALSE
  BY <1>13, GoOnIsQuiet
<1>16. TroubleKnown'
  BY <1>1, <1>3, <1>4, <1>15, StateTypes DEF TroubleKnown, ErrorHasCause
<1> QED
  BY <1>1, <1>14, <1>16, StateTypes, RequestStep

LEMMA OtherQueryKeeps == ASSUME IInv, OtherQuery PROVE IInv'
<1>1. /\ plan # <<>> /\ Head(plan) \in {"soa", "ns", "axfr"} /\ dbh = "live"
      /\ UNCHANGED <<store, dbh, phase, trouble>>
  BY DEF OtherQuery
<1>2. PICK result \in Results(Head(plan)) : Proceed(request, Tail(plan), rows \cup result)
  BY DEF OtherQuery
<1>3. UNCHANGED <<zone, gone, now, up>>
  BY <1>1 DEF store
<1>4. /\ request \in Requests /\ plan \in Remainders(request) \ {<<>>}
  BY <1>1, StateTypes
<1>5. Tail(plan) \in Remainders(request) /\ request # "A"
  BY <1>1, <1>4, RemaindersShrink
<1>6. rows \cup result \in SUBSET Rows
  BY <1>1, StateTypes, ResultsAreRows DEF Queryings
<1> DEFINE left == Tail(plan)
           got  == rows \cup result
<1> HIDE DEF left, got
<1>7. left \in Remainders(request) /\ got \in SUBSET Rows /\ Proceed(request, left, got)
  BY <1>2, <1>5, <1>6 DEF left, got
<1>8. Handled'
  BY <1>3, <1>4, <1>5, <1>7, ProceedHandles
<1>9. answer'.log = NoError /\ retried' = FALSE
  BY <1>7, ProceedIsQuiet
<1>10. TroubleKnown'
  BY <1>1, <1>3, <1>4, <1>9, StateTypes DEF TroubleKnown, ErrorHasCause
<1> QED
  BY <1>1, <1>8, <1>10, StateTypes, RequestStep

(* The ways a request fails.                                                *)
LEMMA FailureKeeps ==
  ASSUME IInv, ConnectFails \/ QueryFails \/ \E code \in DeadCodes : Thrown(code)
  PROVE  IInv'
<1>1. PICK error \in Errors, connection \in {"none", "live", "dead"} :
        /\ Failed(error, connection)
        /\ \/ ConnectFails \/ QueryFails
           \/ Thrown(error) /\ connection = "dead"
  BY DEF ConnectFails, QueryFails, Thrown, Errors
<1>2. UNCHANGED <<store, phase>> /\ plan # <<>> /\ trouble' \in {trouble, TRUE}
  BY Zenon DEF ConnectFails, QueryFails, Thrown
<1>3. UNCHANGED <<zone, gone, now, up>>
  BY <1>2 DEF store
<1>4. request # NoRequest
  BY <1>2, StateTypes
<1>5. trouble' = TRUE \/ (error \notin RetriedCodes /\ connection = "dead")
  BY <1>1, <1>4, StateTypes DEF TroubleKnown, ConnectFails, QueryFails, Thrown
<1>6. Handled'
  BY <1>1, <1>3, FailedHandles
<1>7. /\ dbh' = connection /\ answer'.log = error
      /\ request' = NoRequest /\ retried' = FALSE
  BY <1>1 DEF Failed
<1>8. TroubleKnown'
  BY <1>5, <1>7 DEF TroubleKnown, ErrorHasCause
<1>9. trouble' \in BOOLEAN
  BY <1>2, StateTypes
<1> QED
  BY <1>1, <1>2, <1>6, <1>7, <1>8, <1>9, RequestStep

(* The steps around a query: a connection is made or found lost.            *)
LEMMA ConnectionKeeps == ASSUME IInv, Connect \/ Lost PROVE IInv'
<1>1. /\ UNCHANGED <<store, cache, phase, request, plan, rows, answer, trouble>>
      /\ dbh' \in {"none", "live"} /\ retried' \in {retried, TRUE}
  BY Zenon DEF Connect, Lost, DropConnection
<1>2. UNCHANGED <<zone, gone, now, up>>
  BY <1>1 DEF store
<1>3. Handled'
  <2>1. PlanFits' /\ EntryFits(cache)' /\ FreshRecords'
    BY <1>1, <1>2 DEF IInv, PlanFits, EntryFits, FreshRecords, FreshAnswers, InDatabase
  <2>2. \E n \in 0 .. 3 : plan' \in [1 .. n -> Queryings]
    BY <1>1 DEF IInv, TypeOK, Queryings
  <2> QED
    BY <1>1, <2>1, <2>2, StateTypes DEF Handled
<1>4. TroubleKnown'
  <2>1. request # NoRequest
    BY StateTypes DEF Connect, Lost
  <2>2. answer'.log = NoError
    BY <1>1, <2>1, StateTypes DEF TroubleKnown
  <2>3. request' # NoRequest /\ ~up' => trouble'
    BY <1>1, <1>2, StateTypes DEF TroubleKnown
  <2> QED
    BY <1>1, <2>2, <2>3 DEF TroubleKnown, ErrorHasCause
<1> QED
  BY <1>1, <1>3, <1>4, StateTypes, RequestStep

(* A row that an edit removes was in the database until now.                *)
LEMMA EditKeeps == ASSUME IInv, Edit PROVE IInv'
<1>1. /\ UNCHANGED <<now, up, outages, dbh, cache, phase, request, plan, rows, retried,
                     answer, trouble>>
      /\ zone.record < MaxEdits
      /\ gone' = [r \in Rows |-> IF r \in InDatabase(zone) \ InDatabase(zone') THEN now
                                 ELSE gone[r]]
  BY DEF Edit
<1>2. PICK on \in SUBSET Nameservers : zone' = [on |-> on, record |-> zone.record + 1]
  BY DEF Edit
<1>3. zone' \in [on : SUBSET Nameservers, record : Versions]
  <2>1. zone.record \in Versions
    BY StateTypes
  <2>2. zone.record + 1 \in Versions
    BY <1>1, <2>1, PipeAssumption DEF PipeAssumption, Versions
  <2> QED
    BY <1>2, <2>2
<1>4. gone' \in [Rows -> 0 .. MaxTime]
  BY <1>1, StateTypes
<1>5. \A r \in Rows : \/ gone'[r] = gone[r] /\ (r \in InDatabase(zone) => r \in InDatabase(zone'))
                      \/ gone'[r] = now
  BY <1>1, StateTypes
<1>6. EntryFits(cache)'
  <2>1. cache["A"].data \subseteq Rows /\ cache["A"].expire \in Int /\ now \in Int
    BY StateTypes DEF Entries, Keys
  <2>2. now >= cache["A"].expire - CacheTtl
    BY <2>1, StateTypes, PipeAssumption DEF EntryFits, PipeAssumption
  <2>3. \A r \in cache["A"].data :
          r \in InDatabase(zone') \/ gone'[r] >= cache["A"].expire - CacheTtl
    BY <1>5, <2>1, <2>2, StateTypes DEF EntryFits
  <2>4. cache["A"].expire <= now + CacheTtl
    BY StateTypes DEF EntryFits
  <2> HIDE DEF InDatabase
  <2> QED
    BY <1>1, <2>3, <2>4 DEF EntryFits, InDatabase
<1>7. FreshRecords'
  <2>1. answer.rows \subseteq Rows /\ now \in Int
    BY StateTypes DEF Answers
  <2>2. now - now <= CacheTtl
    BY <2>1, PipeAssumption DEF PipeAssumption
  <2>3. FreshAnswers =>
          \A r \in answer.rows : r \in InDatabase(zone') \/ now - gone'[r] <= CacheTtl
    BY <1>5, <2>1, <2>2 DEF FreshAnswers
  <2> QED
    BY <1>1, <2>3 DEF IInv, FreshRecords, FreshAnswers, InDatabase
<1>8. TypeOK'
  BY <1>1, <1>3, <1>4, Zenon DEF IInv, TypeOK
<1>9. PlanFits' /\ TroubleKnown'
  BY <1>1, StateTypes DEF PlanFits, TroubleKnown, ErrorHasCause
<1> QED
  BY <1>6, <1>7, <1>8, <1>9 DEF IInv

(* The steps of the database and of PowerDNS that leave the request alone.  *)
LEMMA OutsideKeeps == ASSUME IInv, Handshake \/ LoseConnection \/ ComeBack PROVE IInv'
<1>1. UNCHANGED <<zone, gone, now, cache, request, plan, rows, retried, answer>>
  BY Zenon DEF Handshake, LoseConnection, ComeBack, store
<1>2. /\ up' \in BOOLEAN /\ outages' \in 0 .. MaxOutages
      /\ dbh' \in {"none", "live", "dead"} /\ phase' \in {"hello", "serving", "refused"}
      /\ trouble' \in BOOLEAN
  <2>1. outages \in 0 .. MaxOutages /\ phase \in {"hello", "serving", "refused"}
    BY DEF IInv, TypeOK
  <2>2. CASE Handshake
    BY <2>1, <2>2, StateTypes DEF Handshake, store
  <2>3. CASE LoseConnection
    <3>1. outages' \in 0 .. MaxOutages
      BY <2>1, <2>3, PipeAssumption DEF LoseConnection, PipeAssumption
    <3> QED
      BY <2>1, <2>3, <3>1, StateTypes DEF LoseConnection
  <2>4. CASE ComeBack
    BY <2>1, <2>4, StateTypes DEF ComeBack
  <2> QED
    BY <2>2, <2>3, <2>4
<1>3. TypeOK'
  BY <1>1, <1>2, Zenon DEF IInv, TypeOK
<1>4. PlanFits' /\ EntryFits(cache)' /\ FreshRecords'
  BY <1>1 DEF IInv, PlanFits, EntryFits, FreshRecords, FreshAnswers, InDatabase
<1>5. TroubleKnown'
  <2>1. CASE LoseConnection
    BY <2>1, StateTypes DEF LoseConnection, TroubleKnown, ErrorHasCause
  <2>2. CASE Handshake \/ ComeBack
    <3>1. dbh' = dbh /\ trouble' = trouble /\ (up' = up \/ up' = TRUE)
      BY <2>2, Zenon DEF Handshake, ComeBack, store
    <3>2. TroubleKnown
      BY StateTypes
    <3> QED
      BY <1>1, <3>1, <3>2, Zenon DEF TroubleKnown, ErrorHasCause
  <2> QED
    BY <2>1, <2>2
<1> QED
  BY <1>3, <1>4, <1>5 DEF IInv

LEMMA TickKeeps == ASSUME IInv, Tick PROVE IInv'
<1>1. /\ now < MaxTime /\ request = NoRequest /\ now' = now + 1 /\ answer' = NoAnswer
      /\ UNCHANGED <<zone, gone, up, outages, dbh, cache, phase, request, plan, rows, retried,
                     trouble>>
  BY DEF Tick
<1>2. now' \in 0 .. MaxTime
  BY <1>1, StateTypes, PipeAssumption DEF PipeAssumption
<1>3. answer' \in Answers /\ answer'.to = NoRequest /\ answer'.log = NoError
  BY <1>1 DEF NoAnswer, Answers
<1>4. TypeOK'
  BY <1>1, <1>2, <1>3, Zenon DEF IInv, TypeOK, Answers
<1>5. EntryFits(cache)'
  <2>1. cache["A"].expire \in Int /\ now \in Int
    BY StateTypes DEF Entries, Keys
  <2>2. cache["A"].expire <= now + 1 + CacheTtl
    BY <2>1, StateTypes, PipeAssumption DEF EntryFits, PipeAssumption
  <2> QED
    BY <1>1, <2>2, StateTypes DEF EntryFits, InDatabase
<1>6. FreshRecords'
  BY <1>3 DEF FreshRecords, NoRequest
<1>7. PlanFits'
  BY <1>1, StateTypes DEF PlanFits
<1>8. TroubleKnown'
  BY <1>1, <1>3, StateTypes DEF TroubleKnown, ErrorHasCause
<1> QED
  BY <1>4, <1>5, <1>6, <1>7, <1>8 DEF IInv

LEMMA IInvInit == Init => IInv
<1> SUFFICES ASSUME Init PROVE IInv
  OBVIOUS
<1>1. TypeOK
  <2>1. zone \in [on : SUBSET Nameservers, record : Versions]
    BY PipeAssumption DEF Init, PipeAssumption, Versions
  <2>2. gone \in [Rows -> 0 .. MaxTime] /\ now \in 0 .. MaxTime /\ outages \in 0 .. MaxOutages
    BY PipeAssumption DEF Init, PipeAssumption
  <2>3. cache \in [Keys -> Entries]
    BY <2>2, EntryIsTyped DEF Init
  <2>4. plan \in [1 .. 0 -> Queryings]
    BY DEF Init
  <2>5. \E n \in 0 .. 3 : plan \in [1 .. n -> Queryings]
    BY <2>4
  <2>6. answer \in Answers
    BY DEF Init, NoAnswer, Answers
  <2>7. /\ up \in BOOLEAN /\ retried \in BOOLEAN /\ trouble \in BOOLEAN
        /\ dbh \in {"none", "live", "dead"} /\ phase \in {"hello", "serving", "refused"}
        /\ request \in Requests \cup {NoRequest} /\ rows \subseteq Rows
    BY DEF Init
  <2> QED
    BY <2>1, <2>2, <2>3, <2>5, <2>6, <2>7, Zenon DEF TypeOK, Entries, Queryings, Answers
<1>2. PlanFits /\ FreshRecords
  BY DEF Init, PlanFits, FreshRecords, NoAnswer, NoRequest
<1>3. EntryFits(cache)
  <2>1. cache["A"] = Missing
    BY DEF Init, Keys
  <2>2. -1 <= now + CacheTtl
    BY PipeAssumption DEF Init, PipeAssumption
  <2> QED
    BY <2>1, <2>2 DEF EntryFits, Missing
<1>4. TroubleKnown
  BY DEF Init, TroubleKnown, ErrorHasCause, NoAnswer
<1> QED
  BY <1>1, <1>2, <1>3, <1>4 DEF IInv

LEMMA IInvStep == IInv /\ [Next]_vars => IInv'
<1> SUFFICES ASSUME IInv, [Next]_vars PROVE IInv'
  OBVIOUS
<1>1. CASE Handshake \/ LoseConnection \/ ComeBack
  BY <1>1, OutsideKeeps
<1>2. CASE \E req \in Requests : Receive(req)
  BY <1>2, ReceiveKeeps
<1>3. CASE Connect \/ Lost
  BY <1>3, ConnectionKeeps
<1>4. CASE ConnectFails \/ QueryFails \/ \E code \in DeadCodes : Thrown(code)
  BY <1>4, FailureKeeps
<1>5. CASE ZonesQuery
  BY <1>5, ZonesQueryKeeps
<1>6. CASE RecordsQuery
  BY <1>6, RecordsQueryKeeps
<1>7. CASE OtherQuery
  BY <1>7, OtherQueryKeeps
<1>8. CASE Edit
  BY <1>8, EditKeeps
<1>9. CASE Tick
  BY <1>9, TickKeeps
<1>10. CASE UNCHANGED vars
  BY <1>10, Zenon DEF vars, store, IInv, TypeOK, PlanFits, EntryFits, FreshRecords, FreshAnswers,
     InDatabase, TroubleKnown, ErrorHasCause
<1> QED
  BY <1>1, <1>2, <1>3, <1>4, <1>5, <1>6, <1>7, <1>8, <1>9, <1>10 DEF Next, Work

(* The invariant holds of every state that the co-process can be in.        *)
THEOREM InductiveInvariant == Spec => []IInv
<1> QED
  BY IInvInit, IInvStep, PTL DEF Spec

(* Every variable has its type: the plan never holds more than three        *)
(* queries, and no entry expires later than cacheTtl after the clock.       *)
THEOREM TypeCorrect == Spec => []TypeOK
<1>1. IInv => TypeOK
  BY DEF IInv
<1> QED
  BY <1>1, InductiveInvariant, PTL

(* An answer that only getRecords() gives has no row that was removed, or   *)
(* whose zone was taken from this nameserver, more than cacheTtl ago: its   *)
(* cached entry is never renewed by a hit, and it is put in when its rows   *)
(* are read (lines 135-222).                                                *)
THEOREM RecordsAreFresh == Spec => []FreshRecords
<1>1. IInv => FreshRecords
  BY DEF IInv
<1> QED
  BY <1>1, InductiveInvariant, PTL

(* A request is answered with LOG only when the database failed while it    *)
(* was handled, or when its connection was dead and the error was not one   *)
(* of the two that query() makes a new connection for (lines 74-88).        *)
THEOREM ErrorsHaveCause == Spec => []ErrorHasCause
<1>1. IInv => ErrorHasCause
  BY DEF IInv, TroubleKnown
<1> QED
  BY <1>1, InductiveInvariant, PTL
=============================================================================
