---------------------------- MODULE NativeSigning ----------------------------
(***************************************************************************)
(* The native nameserver (lib/native.js): it answers from the zones that    *)
(* lib/publisher/memory.js keeps in memory and lib/signer/memory.js signs   *)
(* there, zone by zone, with an await for the keys of each. What the        *)
(* signer adds to a zone, and what is answered from it, is module Dnssec.   *)
(*                                                                         *)
(* Cycle 1 is the transport's, in interval mode; the others are reload()'s. *)
(* Start() comes when no cycle of an earlier start is left, and Stop() when *)
(* start() has settled.                                                     *)
(***************************************************************************)
EXTENDS Dnssec, TLC

CONSTANTS
  Apexes,       \* the zones there can be
  Contents,     \* what the rows of each can be
  KeySets,      \* what can be found of the keys of a zone
  Names,        \* the names that are asked for
  NumCycles,    \* publish cycles that can run at a time
  Listeners,    \* where the nameserver listens
  MaxEdits,     \* bounds the edits of zones and keys
  MaxReloads,   \* bounds reload()
  MaxStarts     \* bounds start()

(* A row of the store, and a key set as loadKeys() finds it.                *)
StoredRows ==
  [owner : Seq(Nat), type : Nat, data : Seq(Nat), served : Seq(Nat), name : Seq(Nat),
   deleted : BOOLEAN, ready : {FALSE}, sig : {NoSig}]

FoundKeys == [keys : Seq(Seq(Nat)), errors : BOOLEAN]

ASSUME NativeSigningAssumption ==
  /\ Apexes \subseteq Seq(Nat) \ {<<>>}
  /\ \A z \in Apexes : Contents[z] \subseteq Seq(StoredRows)
  /\ \A z \in Apexes : ZoneRow[z] \in [nsname : StoredRows, rest : StoredRows]
  /\ KeySets \subseteq FoundKeys
  /\ Names \subseteq Seq(Nat)
  /\ NumCycles \in Nat \ {0}
  /\ MaxEdits \in Nat
  /\ MaxReloads \in Nat
  /\ MaxStarts \in Nat

Cycles == 1 .. NumCycles

VARIABLES
  store,       \* the rows of each zone there is, and the serial
  keyset,      \* the key files of each zone
  edits, reloads, starts,
  live,        \* publisher.zones
  cycle,       \* each cycle: where it is, its zones, those it is yet to sign,
               \* and whether they are the live ones
  abandoned,   \* the signing of the live zones has failed (a history variable)
  life,        \* how far start() and stop() are
  open,        \* the sockets that are bound
  servers      \* _servers

sourceVars == <<store, keyset, edits>>
ownerVars  == <<starts, life, open, servers>>
vars       == <<sourceVars, reloads, live, cycle, abandoned, ownerVars>>

NoZones   == [z \in {} |-> 0]
Idle      == [pc |-> "idle", zones |-> NoZones, todo |-> {}, onLive |-> FALSE]
Up        == life # "stopped"
NoCycle   == \A c \in Cycles : cycle[c] = Idle

TypeOK ==
  /\ DOMAIN store \subseteq Apexes
  /\ \A z \in DOMAIN store : store[z].serial \in 0 .. MaxEdits /\ store[z].records \in Contents[z]
  /\ keyset \in [Apexes -> KeySets]
  /\ edits \in 0 .. MaxEdits
  /\ DOMAIN live \subseteq Apexes
  /\ \A c \in Cycles :
       /\ cycle[c].pc \in {"idle", "publish", "capture", "sign"}
       /\ cycle[c].todo \subseteq DOMAIN cycle[c].zones
       /\ cycle[c].pc = "sign" <=> cycle[c].todo # {}
       /\ cycle[c].onLive => cycle[c].todo \subseteq DOMAIN live
  /\ abandoned \in BOOLEAN
  /\ life \in {"stopped", "starting", "binding", "running", "rejected", "closing"}
  /\ servers \in SUBSET open /\ open \in SUBSET Listeners

Init ==
  /\ \E z \in Apexes : \E rows \in Contents[z] :
       store = [y \in {z} |-> [apex |-> z, serial |-> 0, records |-> rows]]
  /\ \E keys \in KeySets : keyset = [z \in Apexes |-> keys]
  /\ edits = 0
  /\ reloads = 0
  /\ starts = 0
  /\ live = NoZones
  /\ cycle = [c \in Cycles |-> Idle]
  /\ abandoned = FALSE
  /\ life = "stopped"
  /\ open = {}
  /\ servers = {}

-----------------------------------------------------------------------------
(* Mutants of the definitions below, for the runs of PROJECT.json.          *)
Published_Merged(zones) ==
  [z \in DOMAIN live \cup DOMAIN zones |-> IF z \in DOMAIN zones THEN zones[z] ELSE live[z]]

AllZones_First(zones) == {CHOOSE z \in DOMAIN zones : TRUE}

Closed_KeepsServers(l) == open' = open \ {l} /\ UNCHANGED servers

-----------------------------------------------------------------------------
(* Cycles.                                                                  *)
(* A cycle of the transport, or reload(), gets the zones of the source.     *)
Begin(c) ==
  /\ cycle[c].pc = "idle"
  /\ \/ c = 1 /\ Up /\ UNCHANGED reloads
     \/ c # 1 /\ life = "running" /\ reloads < MaxReloads /\ reloads' = reloads + 1
  /\ cycle' = [cycle EXCEPT ![c] = [Idle EXCEPT !.pc = "publish", !.zones = store]]
  /\ UNCHANGED <<sourceVars, live, abandoned, ownerVars>>

(* publish() replaces the live map: a signer at work goes on with the old.  *)
Published(zones) == zones

Publishes(c) ==
  /\ cycle[c].pc = "publish"
  /\ cycle' = [d \in Cycles |-> [cycle[d] EXCEPT !.onLive = FALSE,
                                   !.pc = IF d = c THEN "capture" ELSE @]]

Publish(c) ==
  /\ Publishes(c)
  /\ live' = Published(cycle[c].zones)
  /\ abandoned' = FALSE
  /\ UNCHANGED <<sourceVars, reloads, ownerVars>>

(* The end of the first cycle is the end of super.start().                  *)
CycleEnds(c, good) ==
  life' = IF c = 1 /\ life = "starting" THEN (IF good THEN "binding" ELSE "stopped") ELSE life

(* sign() takes the map that is live when it begins.                        *)
AllZones(zones) == DOMAIN zones

Captures(c) ==
  /\ cycle[c].pc = "capture"
  /\ cycle' = [cycle EXCEPT ![c] =
                  IF live = NoZones THEN Idle
                  ELSE [pc |-> "sign", zones |-> live, todo |-> AllZones(live), onLive |-> TRUE]]

Capture(c) ==
  /\ Captures(c)
  /\ IF live = NoZones THEN CycleEnds(c, TRUE) ELSE UNCHANGED life
  /\ UNCHANGED <<sourceVars, reloads, live, abandoned, starts, open, servers>>

(* loadKeys() finds a key, reports no error (nobody listens to the signer's *)
(* "error", so that it throws), and every row can be encoded.               *)
Usable(z) == keyset[z].keys # <<>> /\ ~keyset[z].errors

CanBeSigned(c, z) == Usable(z) /\ CanSign(cycle[c].zones[z])

Signs(c, z) ==
  /\ z \in cycle[c].todo
  /\ CanBeSigned(c, z)
  /\ cycle' = [cycle EXCEPT ![c] =
                  IF @.todo = {z} THEN Idle ELSE [cycle[c] EXCEPT !.todo = @ \ {z}]]

SignZone(c, z) ==
  /\ Signs(c, z)
  /\ live' = IF cycle[c].onLive
             THEN [live EXCEPT ![z].records = SignZoneRecords(live[z], keyset[z].keys)]
             ELSE live
  /\ IF cycle[c].todo = {z} THEN CycleEnds(c, TRUE) ELSE UNCHANGED life
  /\ UNCHANGED <<sourceVars, reloads, abandoned, starts, open, servers>>

(* The zone fails, and with it the cycle: the rest is left unsigned.        *)
Fails(c, z) ==
  /\ z \in cycle[c].todo
  /\ ~CanBeSigned(c, z)
  /\ cycle' = [cycle EXCEPT ![c] = Idle]

SignFails(c, z) ==
  /\ Fails(c, z)
  /\ abandoned' = (abandoned \/ cycle[c].onLive)
  /\ CycleEnds(c, FALSE)
  /\ UNCHANGED <<sourceVars, reloads, live, starts, open, servers>>

-----------------------------------------------------------------------------
(* The owner.                                                               *)
Start ==
  /\ life = "stopped" /\ NoCycle
  /\ starts < MaxStarts
  /\ starts' = starts + 1
  /\ life' = "starting"
  /\ UNCHANGED <<sourceVars, reloads, live, cycle, abandoned, open, servers>>

(* The sockets are bound one after another.                                 *)
Bind(l) ==
  /\ life = "binding"
  /\ l \notin open
  /\ open' = open \cup {l}
  /\ servers' = servers \cup {l}
  /\ life' = IF open' = Listeners THEN "running" ELSE life
  /\ UNCHANGED <<sourceVars, reloads, live, cycle, abandoned, starts>>

(* One cannot be: start() rejects, and all that is started stays so.        *)
BindFails ==
  /\ life = "binding"
  /\ life' = "rejected"
  /\ UNCHANGED <<sourceVars, reloads, live, cycle, abandoned, starts, open, servers>>

(* stop() closes the servers it knows, and waits for each; then it stops    *)
(* the transport.                                                           *)
Stop ==
  /\ life \in {"running", "rejected"}
  /\ life' = "closing"
  /\ UNCHANGED <<sourceVars, reloads, live, cycle, abandoned, starts, open, servers>>

Closed(l) == open' = open \ {l} /\ servers' = servers \ {l}

Close(l) ==
  /\ life = "closing"
  /\ l \in servers
  /\ Closed(l)
  /\ UNCHANGED <<sourceVars, reloads, live, cycle, abandoned, starts, life>>

Stopped ==
  /\ life = "closing" /\ servers = {}
  /\ life' = "stopped"
  /\ UNCHANGED <<sourceVars, reloads, live, cycle, abandoned, starts, open, servers>>

-----------------------------------------------------------------------------
(* A zone is made, changed or deleted, or the key files of a zone change.   *)
Edit(z) ==
  /\ edits < MaxEdits
  /\ edits' = edits + 1
  /\ \/ \E rows \in Contents[z] :
          store' = [y \in DOMAIN store \cup {z} |->
                      IF y = z THEN [apex |-> z, serial |-> edits + 1, records |-> rows]
                      ELSE store[y]]
     \/ store' = [y \in DOMAIN store \ {z} |-> store[y]]
  /\ UNCHANGED <<keyset, reloads, live, cycle, abandoned, ownerVars>>

EditKeys(z) ==
  /\ edits < MaxEdits
  /\ edits' = edits + 1
  /\ \E k \in KeySets : keyset' = [keyset EXCEPT ![z] = k]
  /\ UNCHANGED <<store, reloads, live, cycle, abandoned, ownerVars>>

Step(c) == Publish(c) \/ Capture(c) \/ \E z \in Apexes : SignZone(c, z) \/ SignFails(c, z)

Next ==
  \/ \E c \in Cycles : Begin(c) \/ Step(c)
  \/ Start \/ BindFails \/ Stop \/ Stopped
  \/ \E l \in Listeners : Bind(l) \/ Close(l)
  \/ \E z \in Apexes : Edit(z) \/ EditKeys(z)

(* The interval begins cycles, and each step of a cycle ends. Nothing is    *)
(* assumed of binding and closing: a TCP server waits for its clients.      *)
(* Of a step of a cycle, Progress(c) is what it does to the cycles: weak     *)
(* fairness of the one is weak fairness of the other.                       *)
Progress(c) ==
  Publishes(c) \/ Captures(c) \/ \E z \in Apexes : Signs(c, z) \/ Fails(c, z)

Spec ==
  /\ Init /\ [][Next]_vars
  /\ WF_cycle(Begin(1))
  /\ \A c \in Cycles : WF_cycle(Progress(c))

-----------------------------------------------------------------------------
(* What the data of a zone is like, ordinarily: rows are at the apex or     *)
(* below it, the apex alone has a row of SOA, the records that the signer   *)
(* makes are in no store, no two key files have one key, and a wildcard is  *)
(* the first label of a name, which is the last here.                       *)
Ordinary ==
  /\ \A z \in Apexes : \A rows \in Contents[z] : \A r \in ToSet(rows) : Live(r) =>
       /\ IsPrefix(z, r.owner)
       /\ r.type \notin {DNSKEY, NSEC}
       /\ r.type = SOA => r.owner = z
  /\ \A found \in KeySets :
       \A i, j \in DOMAIN found.keys : found.keys[i] = found.keys[j] => i = j
  /\ \A n \in Names : \A i \in 1 .. Len(n) - 1 : n[i] # Wildcard

IsSigned(entry) == \E r \in ToSet(entry.records) : r.ready

(* No two rows of an RRset are signed alike, and none is SPF: of two equal  *)
(* rows answer() gives one, and the signature is over both.                 *)
RowsOf(entry, qname, qtype) ==
  {i \in DOMAIN entry.records :
     LET r == entry.records[i] IN Live(r) /\ r.owner = qname /\ WireType(r) = qtype}

Regular(entry, qname, qtype) ==
  \A i \in RowsOf(entry, qname, qtype) :
    /\ entry.records[i].type # SPF
    /\ \A j \in RowsOf(entry, qname, qtype) :
         entry.records[i].data = entry.records[j].data => i = j

(* What is signed by one encoder is written alike by the one that answers.  *)
Agreed(entry, qname, qtype) ==
  /\ \A i \in RowsOf(entry, qname, qtype) : entry.records[i].served = entry.records[i].data
  /\ qtype = SOA => LET primary == SoaPrimary(entry.apex, entry.records)
                        rest    == ZoneRow[entry.apex].rest
                    IN  primary.served = primary.name /\ rest.served = rest.data

(* A resolver that asks for signatures gets one for the RRset it is given:  *)
(* over just this RRset, in canonical order, by a key that the zone has.    *)
Verified(entry, qname, qtype) ==
  LET answer == Answer(entry, qname, qtype, TRUE)
      rdatas == {r.data : r \in {x \in ToSet(answer) : x.type = qtype}}
      sigs   == {i \in DOMAIN answer : answer[i].type = RRSIG}
      keys   == {r.data : r \in ToSet(Answer(entry, entry.apex, DNSKEY, FALSE))}
      sig    == answer[Min(sigs)].sig
  IN  rdatas # {} =>
        /\ Cardinality(sigs) = 1
        /\ sig.covers = qtype
        /\ sig.key \in keys
        /\ sig.labels = Cardinality({i \in DOMAIN qname : qname[i] # Wildcard})
        /\ ToSet(sig.rdatas) = rdatas
        /\ \A i \in 1 .. Len(sig.rdatas) - 1 : Precedes(sig.rdatas[i], sig.rdatas[i + 1])

Verifies(entry, qname, qtype) ==
  Regular(entry, qname, qtype) /\ Agreed(entry, qname, qtype) => Verified(entry, qname, qtype)

(* So it is for each name and type whose rows the encoders agree on,        *)
(* whatever they do with the others of the zone, however often and by       *)
(* whichever cycles it was signed (signer/memory.js:22-24, 119-121).        *)
QueryTypes == {A, NS, SOA, TXT, DNSKEY, CAA}

AnswersVerify ==
  \A qname \in Names :
    LET z == FindZone(DOMAIN live, qname)
    IN  z # <<>> /\ IsSigned(live[z]) =>
          \A qtype \in QueryTypes : Verifies(live[z], qname, qtype)

(* "a second encoder would eventually disagree with the first about some    *)
(* corner of some type, producing signatures that verify nowhere"           *)
(* (dnssec-sign.js:8-10), and so there is one: what is answered from a      *)
(* signed zone verifies, whatever the encoders make of its rows.            *)
SignedAsServed ==
  \A qname \in Names :
    LET z == FindZone(DOMAIN live, qname)
    IN  z # <<>> /\ IsSigned(live[z]) =>
          \A qtype \in QueryTypes :
            Regular(live[z], qname, qtype) => Verified(live[z], qname, qtype)

(* Of a type that the signer skips, "NativeNS cannot serve it either"       *)
(* (signer/memory.js:136): no such row of a signed zone is answered.        *)
SkippedNotServed ==
  \A z \in DOMAIN live : IsSigned(live[z]) =>
    \A r \in ToSet(live[z].records) : Live(r) /\ r.type \notin TypeIds =>
      Resource(WireType(r), r) \notin ToSet(Answer(live[z], r.owner, WireType(r), TRUE))

(* The order of RFC 4034 6.1, and the types of a bitmap (4.1.2).            *)
Before(a, b) ==
  \E i \in 0 .. Min({Len(a), Len(b)}) :
    /\ SubSeq(a, 1, i) = SubSeq(b, 1, i)
    /\ i < Len(b) /\ (i = Len(a) \/ a[i + 1] < b[i + 1])

Weights == <<128, 64, 32, 16, 8, 4, 2, 1>>

WindowTypes(octets) ==
  {256 * octets[1] + 8 * (p[1] - 1) + p[2] - 1 : p \in
     {q \in (1 .. octets[2]) \X (1 .. 8) : (octets[2 + q[1]] \div Weights[q[2]]) % 2 = 1}}

BitmapTypes(octets) ==
  LET rest == SubSeq(octets, 3 + octets[2], Len(octets))
  IN  WindowTypes(octets) \cup (IF rest = <<>> THEN {} ELSE WindowTypes(rest))

NextOf(r)   == SubSeq(r.data, 2, r.data[1] + 1)
TypesOf(r)  == BitmapTypes(SubSeq(r.data, r.data[1] + 2, Len(r.data)))

(* The chain of a signed zone says of each name what there is of it, and of *)
(* each name that is not there, once, that it is not ("getting it wrong     *)
(* produces a chain that denies the wrong names", dnssec-sign.js:161-162).  *)
ChainDenies ==
  \A z \in DOMAIN live : IsSigned(live[z]) =>
    LET records == {r \in ToSet(live[z].records) : r.type \in TypeIds}
        nsecs   == {r \in records : r.type = NSEC}
        owners  == {z} \cup {r.owner : r \in records}
        covers(r, n) == Before(r.owner, n) /\ (Before(n, NextOf(r)) \/ NextOf(r) = z)
    IN  /\ \A o \in owners :
             /\ Cardinality({r \in nsecs : r.owner = o}) = 1
             /\ \A r \in nsecs : r.owner = o =>
                  TypesOf(r) = {x.type : x \in {y \in records : y.owner = o}}
                                 \cup (IF o = z THEN {SOA} ELSE {})
        /\ \A n \in Names \ owners :
             IsPrefix(z, n) => Cardinality({r \in nsecs : covers(r, n)}) = 1

(* "adds RRSIG/DNSKEY/NSEC(3) records to the in-process zone map before     *)
(* queries are answered" (signer/base.js:8-9): while a socket is bound, a   *)
(* zone is unsigned only on the way from publish() to its turn in sign(),   *)
(* or because sign() has failed; and once stopped, no socket is.            *)
ServedIsSigned ==
  /\ open # {} => \A z \in DOMAIN live :
       \/ IsSigned(live[z]) \/ abandoned
       \/ \E c \in Cycles : cycle[c].pc = "capture" \/ (cycle[c].onLive /\ z \in cycle[c].todo)
  /\ life = "stopped" => open = {}

(* While all zones can be signed, what is served becomes and stays what the *)
(* store has, whatever cycles overlapped or failed before, and is signed    *)
(* again after each publish().                                              *)
Current == DOMAIN live = DOMAIN store /\ \A z \in DOMAIN live : live[z].serial = store[z].serial

Converges ==
  <>[](Up /\ \A z \in DOMAIN store : Usable(z) /\ CanSign(store[z]))
    => <>[]Current /\ []<>(\A z \in DOMAIN live : IsSigned(live[z]))
==============================================================================
