------------------------------- MODULE Dnssec -------------------------------
(***************************************************************************)
(* A zone in the memory of the native nameserver: what lib/signer/memory.js *)
(* adds to its records, with the operators of lib/dnssec-sign.js, and what  *)
(* lib/native.js answers from them.                                         *)
(*                                                                         *)
(* A name is the sequence of its labels from the right, a label a number    *)
(* in the order of the labels, and "*" the label 0. The type of a record is *)
(* its number. A signature is what it is over, and by which key.            *)
(*                                                                         *)
(* Rdata is a sequence of octets, and none where an encoder refuses. A row  *)
(* has it as each of three encoders writes it: "data" is signed             *)
(* (wireRdataFor(), by dns-resource-record), "served" is answered           *)
(* (toResource(), by dns2), and "name" is canonicalName() of the name in an *)
(* NS row, none where the row has no name: it is signed in the SOA.         *)
(***************************************************************************)
EXTENDS Integers, Sequences, SequencesExt, FiniteSets, FiniteSetsExt

(* Of the row of each zone, what its SOA has besides the serial: "nsname",  *)
(* the name it falls back on without an NS record, and "rest", mailaddr and *)
(* the timers, each as the encoders write it (soaRdata() writes "data").    *)
CONSTANT ZoneRow

A        == 1
NS       == 2
SOA      == 6
TXT      == 16
RRSIG    == 46
NSEC     == 47
DNSKEY   == 48
SPF      == 99
ANY      == 255
CAA      == 257
Wildcard == 0

(* TYPE_IDS, and the types that toResource() makes an answer of.            *)
TypeIds     == {A, NS, 5, SOA, 12, 15, TXT, 28, 33, 43, 44, RRSIG, NSEC, DNSKEY, 52, CAA}
ServedTypes == {A, NS, 5, 12, 15, TXT, 28, 33, CAA}

(* What dns2 has a name for: no question for another type matches a record. *)
QuestionTypes == ServedTypes \cup {SOA, RRSIG, DNSKEY}

NoSig == [covers |-> 0, labels |-> 0, key |-> <<>>, rdatas |-> <<>>]

(* A row that the encoders write alike. The records that the signer adds    *)
(* carry their rdata, to be answered as it is (of DNSKEY, the fields that   *)
(* loadKeys() has made it of): they are "ready".                            *)
Row(owner, type, data) ==
  [owner |-> owner, type |-> type, data |-> data, served |-> data, name |-> data,
   deleted |-> FALSE, ready |-> FALSE, sig |-> NoSig]
Ready(owner, type, data) == [Row(owner, type, data) EXCEPT !.ready = TRUE]

-----------------------------------------------------------------------------
(* The elements of a sequence at some positions, in their order: filter().  *)
(* (SubSeq changes nothing: it makes TLC build the sequence once.)          *)
Picked(s, I) ==
  LET nth(k) == CHOOSE i \in I : Cardinality({j \in I : j < i}) = k - 1
  IN  SubSeq([k \in 1 .. Cardinality(I) |-> s[nth(k)]], 1, Cardinality(I))

(* Each element where it comes first.                                       *)
Distinct(s) == Picked(s, {i \in DOMAIN s : \A j \in 1 .. i - 1 : s[j] # s[i]})

(* The order of labels, and of octets, from the first that differs.         *)
Precedes(x, y) ==
  LET D == {i \in 1 .. Min({Len(x), Len(y)}) : x[i] # y[i]}
  IN  IF D = {} THEN Len(x) < Len(y) ELSE x[Min(D)] < y[Min(D)]

(* Mutants of the definitions below, for the runs of PROJECT.json.          *)
LiveRows_KeepsReady(rows) == Picked(rows, {i \in DOMAIN rows : ~rows[i].deleted})

SortOwners_AsWritten(names) == SortSeq(names, LAMBDA a, b : Precedes(Reverse(a), Reverse(b)))

(* sort() by this order, which leaves equal elements in theirs.             *)
Sorted(s) ==
  LET before(i) == {j \in DOMAIN s : Precedes(s[j], s[i]) \/ (s[j] = s[i] /\ j < i)}
      nth(k)    == CHOOSE i \in DOMAIN s : Cardinality(before(i)) = k - 1
  IN  SubSeq([k \in DOMAIN s |-> s[nth(k)]], 1, Len(s))

SortOwners(names)      == Sorted(names)
CanonicalOrder(rdatas) == Sorted(rdatas)

LabelCount(owner) ==
  Len(owner) - (IF owner # <<>> /\ Last(owner) = Wildcard THEN 1 ELSE 0)

(* A window has its number, its width and as many octets as its highest     *)
(* type needs; the first type of an octet is its highest bit. The types of  *)
(* TYPE_IDS are in the first two windows.                                   *)
Octet(bits, first) ==
  LET bit(i) == IF first + i \in bits THEN 1 ELSE 0
  IN  128 * bit(0) + 64 * bit(1) + 32 * bit(2) + 16 * bit(3)
        + 8 * bit(4) + 4 * bit(5) + 2 * bit(6) + bit(7)

Window(w, types) ==
  LET bits  == {t % 256 : t \in {u \in types : u \div 256 = w}}
      width == Max(bits) \div 8 + 1
  IN  IF bits = {} THEN <<>>
      ELSE <<w, width>> \o [i \in 1 .. width |-> Octet(bits, 8 * (i - 1))]

TypeBitmap(types) == Window(0, types) \o Window(1, types)

NsecRdata(next, types) == <<Len(next)>> \o next \o TypeBitmap(types)

-----------------------------------------------------------------------------
(* The zone's first NS record at the apex, which the SOA names.             *)
SoaPrimary(apex, records) ==
  LET ns == {i \in DOMAIN records :
               records[i].type = NS /\ ~records[i].deleted /\ records[i].owner = apex}
  IN  IF ns = {} \/ records[Min(ns)].name = <<>> THEN ZoneRow[apex].nsname
      ELSE records[Min(ns)]

(* The SOA as it is signed, and as it is answered.                          *)
SoaRdata(entry, records) ==
  SoaPrimary(entry.apex, records).name \o ZoneRow[entry.apex].rest.data \o <<entry.serial>>

SoaServed(entry, records) ==
  LET primary == SoaPrimary(entry.apex, records).served
      rest    == ZoneRow[entry.apex].rest.served
  IN  IF primary = <<>> \/ rest = <<>> THEN <<>> ELSE primary \o rest \o <<entry.serial>>

IsKsk(key) == Head(key) % 2 = 1

(* The first key that keys.find() finds, or what it falls back on.          *)
FirstOf(keys, found, other) == IF found = {} THEN other ELSE keys[Min(found)]

Zsk(keys) == FirstOf(keys, {i \in DOMAIN keys : ~IsKsk(keys[i])}, Head(keys))
Ksk(keys) == FirstOf(keys, {i \in DOMAIN keys : IsKsk(keys[i])}, Zsk(keys))

SignRRset(owner, covers, rdatas, key) ==
  [Ready(owner, RRSIG, <<>>) EXCEPT
     !.sig = [covers |-> covers, labels |-> LabelCount(owner), key |-> key,
              rdatas |-> CanonicalOrder(rdatas)]]

(* What is kept: neither deleted rows nor what a former signing added; and  *)
(* what of it is signed as it is.                                           *)
Live(r)   == ~r.deleted /\ ~r.ready
ToSign(r) == Live(r) /\ r.type \in TypeIds \ {SOA}

LiveRows(rows)   == Picked(rows, {i \in DOMAIN rows : Live(rows[i])})
SignedRows(rows) == Picked(rows, {i \in DOMAIN rows : ToSign(rows[i])})

(* What cannot be encoded fails the zone.                                   *)
CanSign(entry) ==
  /\ \A r \in ToSet(entry.records) : ToSign(r) => r.data # <<>>
  /\ ZoneRow[entry.apex].rest.data # <<>>

Data(rows) == [i \in DOMAIN rows |-> rows[i].data]

TypesAt(owner, apex, rows) ==
  {r.type : r \in {x \in ToSet(rows) : x.owner = owner}}
    \cup {RRSIG, NSEC} \cup (IF owner = apex THEN {SOA, DNSKEY} ELSE {})

(* What the signer adds for the keys, for the RRsets, and for the names     *)
(* that exist: a chain from each to the next, and from the last to the      *)
(* first.                                                                   *)
KeyRecords(apex, keys) == [i \in DOMAIN keys |-> Ready(apex, DNSKEY, keys[i])]

Rrsets(rows) == Distinct([i \in DOMAIN rows |-> <<rows[i].owner, rows[i].type>>])

RrsetData(rows, owner, type) ==
  Data(Picked(rows, {i \in DOMAIN rows : rows[i].owner = owner /\ rows[i].type = type}))

RrsetSignatures(rows, key) ==
  LET sets == Rrsets(rows)
  IN  [i \in DOMAIN sets |->
         SignRRset(sets[i][1], sets[i][2], RrsetData(rows, sets[i][1], sets[i][2]), key)]

Owners(apex, rows) == SortOwners(Distinct([i \in DOMAIN rows |-> rows[i].owner] \o <<apex>>))

NsecRecords(apex, rows) ==
  LET owners  == Owners(apex, rows)
      next(i) == owners[(i % Len(owners)) + 1]
  IN  [i \in DOMAIN owners |->
         Ready(owners[i], NSEC, NsecRdata(next(i), TypesAt(owners[i], apex, rows)))]

NsecSignatures(nsecs, key) ==
  [i \in DOMAIN nsecs |-> SignRRset(nsecs[i].owner, NSEC, <<nsecs[i].data>>, key)]

(* The records of a zone with everything that the signer adds.              *)
SignZoneRecords(entry, keys) ==
  LET kept  == LiveRows(entry.records)
      rows  == SignedRows(entry.records)
      nsecs == NsecRecords(entry.apex, rows)
  IN  kept
        \o KeyRecords(entry.apex, keys)
        \o <<SignRRset(entry.apex, DNSKEY, keys, Ksk(keys))>>
        \o RrsetSignatures(rows, Zsk(keys))
        \o <<SignRRset(entry.apex, SOA, <<SoaRdata(entry, kept)>>, Zsk(keys))>>
        \o nsecs
        \o NsecSignatures(nsecs, Zsk(keys))

-----------------------------------------------------------------------------
(* SPF is published as TXT.                                                 *)
WireType(r) == IF r.type = SPF THEN TXT ELSE r.type

IsResource(r) == r.ready \/ (WireType(r) \in ServedTypes /\ r.served # <<>>)

Matches(r, qtype) == qtype = ANY \/ (WireType(r) = qtype /\ qtype \in QuestionTypes)

Resource(type, r) == [type |-> type, data |-> r.served, sig |-> r.sig]

RrsetAnswer(entry, qname, qtype) ==
  LET asked(r) == /\ ~r.deleted /\ r.owner = qname /\ r.type # SOA
                  /\ Matches(r, qtype) /\ IsResource(r)
      found    == Picked(entry.records, {i \in DOMAIN entry.records : asked(entry.records[i])})
  IN  Distinct([i \in DOMAIN found |-> Resource(WireType(found[i]), found[i])])

Signatures(entry, qname, types) ==
  LET over(r) == ~r.deleted /\ r.type = RRSIG /\ r.owner = qname /\ r.sig.covers \in types
      found   == Picked(entry.records, {i \in DOMAIN entry.records : over(entry.records[i])})
  IN  [i \in DOMAIN found |-> Resource(RRSIG, found[i])]

(* answer(), from the zone that findZone() has found.                       *)
Answer(entry, qname, qtype, wantsDnssec) ==
  LET rrset   == RrsetAnswer(entry, qname, qtype)
      sigs    == IF wantsDnssec /\ rrset # <<>>
                 THEN Signatures(entry, qname, {r.type : r \in ToSet(rrset)}) ELSE <<>>
      soa     == Resource(SOA, Row(entry.apex, SOA, SoaServed(entry, entry.records)))
      withSoa == /\ qname = entry.apex /\ (qtype = SOA \/ (qtype = ANY /\ rrset = <<>>))
                 /\ SoaServed(entry, entry.records) # <<>>
  IN  rrset \o sigs
        \o (IF withSoa THEN <<soa>> ELSE <<>>)
        \o (IF withSoa /\ wantsDnssec THEN Signatures(entry, qname, {SOA}) ELSE <<>>)

(* findZone(): the longest apex that the name is at or below.               *)
FindZone(apexes, qname) ==
  LET above == {a \in apexes : IsPrefix(a, qname)}
  IN  IF above = {} THEN <<>> ELSE CHOOSE a \in above : \A b \in above : Len(b) <= Len(a)
=============================================================================
