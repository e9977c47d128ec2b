-------------------------- MODULE AxfrServerProofs --------------------------
(***************************************************************************)
(* Proofs about AxfrServer, for every set of connections and of what they   *)
(* send, and any number of datagrams, edits, failures and starts; and about *)
(* the messages of a transfer, for a zone of any records.                   *)
(*                                                                         *)
(* The parts of the invariant are                                           *)
(*   StreamFits(c)    what the handlers of a connection have taken from its *)
(*                    buffer is each with one of them, or answered, or, of  *)
(*                    a lost connection, dropped;                           *)
(*   RepliesFit(c)    only a client that may have a zone is sent one, and   *)
(*                    one that encodes;                                     *)
(*   SocketsFit       how far start() and stop() are says which sockets are *)
(*                    open and who may still hold the source open.          *)
(***************************************************************************)
EXTENDS AxfrServer, SequenceTheorems, FiniteSetTheorems, WellFoundedInduction, TLAPS

MessagesOf(replies) == {replies[i].message : i \in 1 .. Len(replies)}
OnceEach(replies) ==
  \A i, j \in 1 .. Len(replies) : i # j => replies[i].message # replies[j].message
Answered(c) == MessagesOf(out[c])

StreamFits(c) ==
  /\ arrived[c] <= 2 * Len(asks[c])
  /\ taken[c] <= Complete(arrived[c])
  /\ busy[c] \subseteq 1 .. taken[c]
  /\ \A m \in busy[c] : Awaits(c, m)
  /\ OnceEach(out[c])
  /\ Answered(c) \subseteq (1 .. taken[c]) \ busy[c]
  /\ conn[c] # "gone" => 1 .. taken[c] \subseteq Answered(c) \cup busy[c]
  /\ conn[c] # "gone" /\ Complete(arrived[c]) > taken[c] => busy[c] # {}
  /\ conn[c] = "none" => arrived[c] = 0 /\ busy[c] = {}

Allowed(c, reply) ==
  reply.says \in Assigned =>
    c \in Known /\ asks[c][reply.message] = "transfer" /\ CanEncode(Rows(reply.says))

AllAllowed(c, replies) == \A i \in 1 .. Len(replies) : Allowed(c, replies[i])

RepliesFit(c) == AllAllowed(c, out[c])

SocketsFit ==
  /\ state \in {"stopped", "connect", "listen", "closeUdp", "disconnect", "crashed"} =>
       tcp = "closed"
  /\ tcp = "closed" => \A c \in Conns : conn[c] # "open"
  /\ udp = "bound" => state \in {"running", "closeTcp", "closeUdp"}
  /\ checks + stale <= datagrams
  /\ state = "stopped" /\ ~late => ~sourceOpen /\ \A c \in Conns : busy[c] = {}

IInv ==
  /\ TypeOK
  /\ \A c \in Conns : StreamFits(c) /\ RepliesFit(c)
  /\ SocketsFit

-----------------------------------------------------------------------------
(* Numbers: a set that has 0, and the successor of each number that it has, *)
(* has all of Nat, since its complement would have a least element.         *)
LEMMA LessThan == \A x, y \in Nat : y < x => <<y, x>> \in OpToRel(<, Nat)
<1> SUFFICES ASSUME NEW x \in Nat, NEW y \in Nat, y < x
             PROVE  <<y, x>> \in OpToRel(<, Nat)
  OBVIOUS
<1>1. OpToRel(<, Nat) = {p \in Nat \X Nat : p[1] < p[2]}
  BY DEF OpToRel
<1>2. <<y, x>> \in {p \in Nat \X Nat : p[1] < p[2]}
  OBVIOUS
<1> QED
  BY <1>1, <1>2

LEMMA Least ==
  ASSUME NEW T, T \subseteq Nat, T # {}
  PROVE  \E x \in T : \A y \in T : x <= y
<1>1. PICK x \in T : \A y \in T : ~(<<y, x>> \in OpToRel(<, Nat))
  BY NatLessThanWellFounded, WFMin
<1>2. \A y \in T : ~(y < x)
  BY <1>1, LessThan
<1> QED
  BY <1>2

LEMMA Induction ==
  ASSUME NEW S, 0 \in S, \A n \in Nat : n \in S => n + 1 \in S
  PROVE  Nat \subseteq S
<1> SUFFICES ASSUME NEW k \in Nat, k \notin S
             PROVE  FALSE
  OBVIOUS
<1> DEFINE T == {n \in Nat : n \notin S}
<1>1. PICK x \in T : \A y \in T : x <= y
  <2>1. T \subseteq Nat /\ k \in T
    OBVIOUS
  <2> HIDE DEF T
  <2> QED
    BY <2>1, Least
<1>2. x # 0 /\ x \in Nat
  BY <1>1
<1>3. x - 1 \in Nat /\ x - 1 \notin T
  BY <1>1, <1>2
<1>4. x - 1 \in S
  BY <1>3
<1> QED
  BY <1>1, <1>2, <1>3, <1>4

LEMMA MinIs ==
  ASSUME NEW S, S \subseteq Nat, S # {}
  PROVE  Min(S) \in S /\ \A y \in S : Min(S) <= y
<1>1. \E x \in S : \A y \in S : x =< y
  BY Least
<1> QED
  BY <1>1 DEF Min

LEMMA Halves ==
  ASSUME NEW a \in Nat
  PROVE  /\ Complete(a) \in Nat
         /\ \A b \in Nat : a <= b => Complete(a) <= Complete(b)
         /\ \A n \in Nat : a <= 2 * n => Complete(a) <= n
  BY DEF Complete

(* The numbers of a stretch of Nat that come before those of a set: a       *)
(* stretch, that begins where the first does.                               *)
EndsBefore(t, r, G, k) ==
  /\ {m \in t + 1 .. r : \A g \in G : m < g} = t + 1 .. k
  /\ G = {} => k = r

LEMMA BeforeAll ==
  ASSUME NEW t \in Nat, NEW r \in Nat, t <= r, NEW G, G \subseteq t + 1 .. r
  PROVE  \E k \in t .. r : EndsBefore(t, r, G, k)
<1>1. CASE G = {}
  BY <1>1 DEF EndsBefore
<1>2. CASE G # {}
  <2>1. G \subseteq Nat
    OBVIOUS
  <2>2. PICK g \in G : \A h \in G : g <= h
    BY <1>2, <2>1, Least
  <2>3. g - 1 \in t .. r /\ g - 1 + 1 = g
    BY <2>1
  <2>4. {m \in t + 1 .. r : \A h \in G : m < h} = t + 1 .. g - 1
    BY <2>1, <2>2
  <2> QED
    BY <1>2, <2>3, <2>4 DEF EndsBefore
<1> QED
  BY <1>1, <1>2

-----------------------------------------------------------------------------
(* What a handler does between two awaits.                                  *)
LEMMA ReachesFits ==
  ASSUME NEW c, NEW units \in Nat, taken[c] \in Nat, taken[c] <= Complete(units)
  PROVE  /\ Reaches(c, units) \in taken[c] .. Complete(units)
         /\ \A m \in taken[c] + 1 .. Reaches(c, units) : m # Reaches(c, units) => ~Awaits(c, m)
         /\ Reaches(c, units) < Complete(units) =>
              Reaches(c, units) > taken[c] /\ Awaits(c, Reaches(c, units))
<1> DEFINE waiting == {m \in taken[c] + 1 .. Complete(units) : Awaits(c, m)}
<1>1. Complete(units) \in Nat
  BY Halves
<1>2. Reaches(c, units) = IF waiting = {} THEN Complete(units) ELSE Min(waiting)
  BY DEF Reaches
<1>3. CASE waiting = {}
  <2>1. \A m \in taken[c] + 1 .. Complete(units) : ~Awaits(c, m)
    BY <1>3
  <2> QED
    BY <1>1, <1>2, <1>3, <2>1
<1>4. CASE waiting # {}
  <2>1. waiting \subseteq Nat
    BY <1>1
  <2>2. Min(waiting) \in waiting /\ \A m \in waiting : Min(waiting) <= m
    <3> HIDE DEF waiting
    <3> QED
      BY <1>4, <2>1, MinIs
  <2>3. Reaches(c, units) = Min(waiting)
    BY <1>2, <1>4
  <2> DEFINE r == Reaches(c, units)
  <2> HIDE DEF r
  <2>4. r \in waiting /\ \A m \in waiting : r <= m
    BY <2>2, <2>3 DEF r
  <2>5. r \in taken[c] + 1 .. Complete(units) /\ Awaits(c, r)
    BY <2>4
  <2>6. ASSUME NEW m \in taken[c] + 1 .. r, m # r PROVE ~Awaits(c, m)
    BY <1>1, <2>4, <2>5, <2>6
  <2> QED
    BY <1>1, <2>5, <2>6 DEF r
<1> QED
  BY <1>3, <1>4

LEMMA SaysFits ==
  ASSUME NEW c, NEW m, asks[c][m] \in Requests, zone \in ZoneKinds
  PROVE  /\ ~Awaits(c, m) /\ asks[c][m] # "garbled" => Says(c, m) \in Errors
         /\ Awaits(c, m) => /\ Says(c, m) \in Errors \cup {"serial"} \cup Assigned
                            /\ Allowed(c, [message |-> m, says |-> Says(c, m)])
<1>1. CASE ~Awaits(c, m) /\ asks[c][m] # "garbled"
  BY <1>1 DEF Awaits, Says, Refusal, Errors
<1>2. CASE Awaits(c, m)
  <2>1. c \in Known /\ asks[c][m] \in {"transfer", "serial", "other"}
    BY <1>2 DEF Awaits, Requests
  <2>2. CASE zone = "unassigned"
    <3>1. Says(c, m) = "NOTAUTH"
      <4>1. Refusal(c) = "NOTAUTH"
        BY <2>1, <2>2 DEF Refusal, Assigned
      <4> QED
        BY <2>1, <4>1 DEF Says
    <3> QED
      BY <1>2, <3>1 DEF Errors, Allowed, Assigned
  <2>3. CASE zone \in Assigned
    <3>1. Refusal(c) = "none"
      BY <2>1, <2>3 DEF Refusal, Assigned
    <3>2. CASE asks[c][m] = "transfer"
      <4>1. Says(c, m) = Transfer
        BY <3>1, <3>2 DEF Says
      <4>2. Transfer = "SERVFAIL" \/ (Transfer = zone /\ CanEncode(Rows(zone)))
        BY DEF Transfer
      <4> QED
        BY <1>2, <2>1, <2>3, <3>2, <4>1, <4>2 DEF Errors, Allowed, Assigned
    <3>3. CASE asks[c][m] # "transfer"
      <4>1. Says(c, m) \in {"serial", "NOTIMP"}
        BY <2>1, <3>1, <3>3 DEF Says
      <4> QED
        BY <1>2, <4>1 DEF Errors, Allowed, Assigned
    <3> QED
      BY <3>2, <3>3
  <2> QED
    BY <2>2, <2>3 DEF ZoneKinds
<1> QED
  BY <1>1, <1>2

(* A handler comes from one message to another: it answers those between    *)
(* that it need not await, to the first that does not parse.                *)
Answers(c, before, r, k, new) ==
  /\ Len(new) = k - taken[c]
  /\ \A i \in 1 .. Len(new) : new[i].message = taken[c] + i /\ new[i].says \in Errors
  /\ \A m \in taken[c] + 1 .. k : ~Awaits(c, m)
  /\ out' = IF conn[c] = "open" THEN [out EXCEPT ![c] = @ \o before \o new] ELSE out
  /\ conn' = conn \/ conn' = [conn EXCEPT ![c] = "gone"]
  /\ conn'[c] # "gone" => k = r \/ (k = r - 1 /\ Awaits(c, r))

LEMMA WritesWhat ==
  ASSUME NEW c \in Conns, TypeOK, NEW before,
         NEW r \in Nat, taken'[c] = r, taken[c] <= r, r <= Len(asks[c]),
         \A m \in taken[c] + 1 .. r : m # r => ~Awaits(c, m),
         Writes(c, before)
  PROVE  \E k \in taken[c] .. r, new \in Seq(Replies) : Answers(c, before, r, k, new)
<1> DEFINE t       == taken[c]
           passed  == {m \in taken[c] + 1 .. taken'[c] : ~Awaits(c, m)}
           garbled == {m \in passed : asks[c][m] = "garbled"}
           read    == {m \in passed : \A g \in garbled : m < g}
           replies == [i \in 1 .. Cardinality(read) |->
                         [message |-> taken[c] + i, says |-> Says(c, taken[c] + i)]]
<1>1. /\ out' = IF conn[c] = "open" THEN [out EXCEPT ![c] = @ \o before \o replies] ELSE out
      /\ conn' = IF garbled = {} THEN conn ELSE [conn EXCEPT ![c] = "gone"]
  BY DEF Writes
<1>2. /\ t \in Nat /\ asks[c] \in Seq(Requests) /\ zone \in ZoneKinds
      /\ Len(asks[c]) \in Nat /\ Len(asks[c]) <= MaxRequests /\ MaxRequests \in Nat
  BY AxfrServerAssumption, LenProperties DEF AxfrServerAssumption, TypeOK
<1>3. \A m \in t + 1 .. r : m \in Messages /\ asks[c][m] \in Requests
  BY <1>2, ElementOfSeq DEF Messages
<1>4. PICK last \in t .. r : passed = t + 1 .. last /\ (last = r \/ (last = r - 1 /\ Awaits(c, r)))
  <2>1. CASE r > t /\ Awaits(c, r)
    <3>1. passed = t + 1 .. r - 1
      BY <1>2, <2>1
    <3> QED
      BY <1>2, <2>1, <3>1
  <2>2. CASE ~(r > t /\ Awaits(c, r))
    <3>1. passed = t + 1 .. r
      BY <1>2, <2>2
    <3> QED
      BY <1>2, <3>1
  <2> QED
    BY <2>1, <2>2
<1>5. garbled \subseteq t + 1 .. last
  BY <1>4
<1> HIDE DEF t, passed
<1> HIDE DEF garbled
<1>6. PICK k \in t .. last : EndsBefore(t, last, garbled, k)
  <2>1. t \in Nat /\ last \in Nat /\ t <= last
    BY <1>2
  <2> QED
    BY <1>5, <2>1, BeforeAll
<1>7. read = t + 1 .. k
  <2>1. read = {m \in t + 1 .. last : \A g \in garbled : m < g}
    BY <1>4
  <2> HIDE DEF read
  <2> QED
    BY <1>6, <2>1 DEF EndsBefore
<1> HIDE DEF read
<1>8. Cardinality(read) = k - t
  <2>1. k \in Int /\ t + 1 \in Int /\ t <= k
    BY <1>2
  <2>2. Cardinality(t + 1 .. k) = IF t + 1 > k THEN 0 ELSE k - (t + 1) + 1
    BY <2>1, FS_Interval
  <2>3. Cardinality(t + 1 .. k) = k - t
    BY <1>2, <2>1, <2>2
  <2> QED
    BY <1>7, <2>3
<1>9. \A i \in 1 .. k - t : /\ t + i \in t + 1 .. r /\ ~Awaits(c, t + i)
                            /\ asks[c][t + i] # "garbled"
  <2>1. SUFFICES ASSUME NEW i \in 1 .. k - t
                 PROVE  /\ t + i \in t + 1 .. r /\ ~Awaits(c, t + i)
                        /\ asks[c][t + i] # "garbled"
    OBVIOUS
  <2>2. t + i \in t + 1 .. k /\ t + i \in t + 1 .. r
    BY <1>2, <1>4, <1>6
  <2>3. t + i \in read
    BY <1>7, <2>2
  <2>4. t + i \in passed /\ t + i \notin garbled
    BY <1>2, <2>3 DEF read
  <2> QED
    BY <2>2, <2>4 DEF passed, garbled
<1>10. \A i \in 1 .. k - t : Says(c, t + i) \in Errors
  BY <1>2, <1>3, <1>9, SaysFits
<1>11. replies = [i \in 1 .. k - t |-> [message |-> t + i, says |-> Says(c, t + i)]]
  BY <1>8 DEF t
<1>12. k - t \in Nat
  BY <1>2, <1>6
<1> HIDE DEF replies
<1>13. replies \in Seq(Replies) /\ Len(replies) = k - t
  <2>1. replies \in [1 .. k - t -> Replies]
    BY <1>3, <1>9, <1>10, <1>11 DEF Replies
  <2> QED
    BY <1>12, <2>1, SeqDef
<1>14. \A i \in 1 .. Len(replies) : replies[i].message = t + i /\ replies[i].says \in Errors
  BY <1>10, <1>11, <1>13
<1>15. conn' = conn \/ conn' = [conn EXCEPT ![c] = "gone"]
  BY <1>1
<1>16. conn'[c] # "gone" => k = r \/ (k = r - 1 /\ Awaits(c, r))
  <2>1. c \in DOMAIN conn
    BY DEF TypeOK
  <2>2. conn'[c] # "gone" => garbled = {}
    BY <1>1, <2>1
  <2>3. garbled = {} => k = last
    BY <1>6 DEF EndsBefore
  <2>4. last = r \/ (last = r - 1 /\ Awaits(c, r))
    BY <1>4
  <2> QED
    BY <2>2, <2>3, <2>4, Zenon
<1>17. k \in t .. r
  BY <1>2, <1>4, <1>6
<1>18. \A m \in t + 1 .. k : ~Awaits(c, m)
  BY <1>7 DEF read, passed
<1> QED
  BY <1>1, <1>13, <1>14, <1>15, <1>16, <1>17, <1>18 DEF t, Answers

LEMMA Concatenated ==
  ASSUME NEW s \in Seq(Replies), NEW new \in Seq(Replies),
         OnceEach(s), OnceEach(new), MessagesOf(s) \cap MessagesOf(new) = {}
  PROVE  /\ s \o new \in Seq(Replies) /\ OnceEach(s \o new)
         /\ MessagesOf(s \o new) = MessagesOf(s) \cup MessagesOf(new)
         /\ \A c : AllAllowed(c, s) /\ AllAllowed(c, new) => AllAllowed(c, s \o new)
<1> DEFINE all == s \o new
<1>1. /\ all \in Seq(Replies) /\ Len(all) = Len(s) + Len(new)
      /\ \A i \in 1 .. Len(s) + Len(new) :
           all[i] = IF i <= Len(s) THEN s[i] ELSE new[i - Len(s)]
  BY ConcatProperties
<1>2. Len(s) \in Nat /\ Len(new) \in Nat
  BY LenProperties
<1> HIDE DEF all
<1>3. ASSUME NEW i \in 1 .. Len(all)
      PROVE  \/ i \in 1 .. Len(s) /\ all[i] = s[i]
             \/ i - Len(s) \in 1 .. Len(new) /\ all[i] = new[i - Len(s)]
  <2>1. i \in 1 .. Len(s) + Len(new)
    BY <1>1
  <2>2. CASE i <= Len(s)
    BY <1>1, <1>2, <2>1, <2>2
  <2>3. CASE ~(i <= Len(s))
    <3>1. i - Len(s) \in 1 .. Len(new)
      BY <1>2, <2>1, <2>3
    <3> QED
      BY <1>1, <2>1, <2>3, <3>1
  <2> QED
    BY <2>2, <2>3
<1>4. \A i \in 1 .. Len(s) : i \in 1 .. Len(all) /\ all[i] = s[i]
  BY <1>1, <1>2
<1>5. \A i \in 1 .. Len(new) : i + Len(s) \in 1 .. Len(all) /\ all[i + Len(s)] = new[i]
  <2>1. SUFFICES ASSUME NEW i \in 1 .. Len(new)
                 PROVE  i + Len(s) \in 1 .. Len(all) /\ all[i + Len(s)] = new[i]
    OBVIOUS
  <2>2. i + Len(s) \in 1 .. Len(s) + Len(new) /\ ~(i + Len(s) <= Len(s)) /\ i + Len(s) - Len(s) = i
    BY <1>2
  <2> QED
    BY <1>1, <2>2
<1>6. MessagesOf(all) = MessagesOf(s) \cup MessagesOf(new)
  <2>1. MessagesOf(all) \subseteq MessagesOf(s) \cup MessagesOf(new)
    BY <1>3 DEF MessagesOf
  <2>2. MessagesOf(s) \subseteq MessagesOf(all)
    BY <1>4 DEF MessagesOf
  <2>3. MessagesOf(new) \subseteq MessagesOf(all)
    <3>1. SUFFICES ASSUME NEW i \in 1 .. Len(new) PROVE new[i].message \in MessagesOf(all)
      BY DEF MessagesOf
    <3>2. i + Len(s) \in 1 .. Len(all) /\ all[i + Len(s)].message = new[i].message
      BY <1>5
    <3> QED
      BY <3>2 DEF MessagesOf
  <2> QED
    BY <2>1, <2>2, <2>3
<1>7. OnceEach(all)
  <2>1. SUFFICES ASSUME NEW i \in 1 .. Len(all), NEW j \in 1 .. Len(all), i # j
                 PROVE  all[i].message # all[j].message
    BY DEF OnceEach
  <2>2. CASE i \in 1 .. Len(s) /\ all[i] = s[i] /\ j \in 1 .. Len(s) /\ all[j] = s[j]
    BY <2>1, <2>2 DEF OnceEach
  <2>3. CASE /\ i - Len(s) \in 1 .. Len(new) /\ all[i] = new[i - Len(s)]
             /\ j - Len(s) \in 1 .. Len(new) /\ all[j] = new[j - Len(s)]
    <3>1. i - Len(s) # j - Len(s)
      BY <1>2, <2>1
    <3> QED
      BY <2>3, <3>1 DEF OnceEach
  <2>4. CASE /\ i \in 1 .. Len(s) /\ all[i] = s[i]
             /\ j - Len(s) \in 1 .. Len(new) /\ all[j] = new[j - Len(s)]
    <3>1. all[i].message \in MessagesOf(s) /\ all[j].message \in MessagesOf(new)
      BY <2>4 DEF MessagesOf
    <3> QED
      BY <3>1
  <2>5. CASE /\ j \in 1 .. Len(s) /\ all[j] = s[j]
             /\ i - Len(s) \in 1 .. Len(new) /\ all[i] = new[i - Len(s)]
    <3>1. all[j].message \in MessagesOf(s) /\ all[i].message \in MessagesOf(new)
      BY <2>5 DEF MessagesOf
    <3> QED
      BY <3>1
  <2> QED
    BY <1>3, <2>2, <2>3, <2>4, <2>5
<1>8. \A c : AllAllowed(c, s) /\ AllAllowed(c, new) => AllAllowed(c, all)
  BY <1>3 DEF AllAllowed
<1> QED
  BY <1>1, <1>6, <1>7, <1>8 DEF all

(* A handler that is new, or that has the answer for its message.           *)
HandlerGoesOn(c, done, before) ==
  \/ done = {} /\ before = <<>>
  \/ \E m \in busy[c] :
       done = {m} /\ before = <<[message |-> m, says |-> Says(c, m)]>>

LEMMA BeforeFits ==
  ASSUME IInv, NEW c \in Conns, NEW done, NEW before, HandlerGoesOn(c, done, before)
  PROVE  /\ done \subseteq busy[c] /\ before \in Seq(Replies)
         /\ OnceEach(before) /\ MessagesOf(before) = done /\ AllAllowed(c, before)
<1>1. CASE done = {} /\ before = <<>>
  <2>1. before \in Seq(Replies) /\ Len(before) = 0
    BY <1>1, EmptySeq
  <2> QED
    BY <1>1, <2>1 DEF OnceEach, MessagesOf, AllAllowed
<1>2. ASSUME NEW m \in busy[c], done = {m},
             before = <<[message |-> m, says |-> Says(c, m)]>>
      PROVE  /\ done \subseteq busy[c] /\ before \in Seq(Replies)
             /\ OnceEach(before) /\ MessagesOf(before) = done /\ AllAllowed(c, before)
  <2>1. m \in Messages /\ Awaits(c, m) /\ m \in 1 .. taken[c]
    BY DEF IInv, TypeOK, StreamFits
  <2>2. asks[c][m] \in Requests /\ zone \in ZoneKinds
    <3>1. asks[c] \in Seq(Requests) /\ arrived[c] \in Nat /\ taken[c] \in Nat /\ zone \in ZoneKinds
      BY DEF IInv, TypeOK
    <3>2. Len(asks[c]) \in Nat
      BY <3>1, LenProperties
    <3>3. arrived[c] <= 2 * Len(asks[c]) /\ taken[c] <= Complete(arrived[c])
      BY DEF IInv, StreamFits
    <3>4. Complete(arrived[c]) \in Nat /\ Complete(arrived[c]) <= Len(asks[c])
      BY <3>1, <3>2, <3>3, Halves
    <3>5. m \in 1 .. Len(asks[c])
      BY <2>1, <3>1, <3>2, <3>3, <3>4
    <3> QED
      BY <3>1, <3>5, ElementOfSeq
  <2> DEFINE reply == [message |-> m, says |-> Says(c, m)]
  <2>3. reply \in Replies /\ Allowed(c, reply)
    BY <2>1, <2>2, SaysFits DEF Replies
  <2>4. reply.message = m /\ before = <<reply>>
    BY <1>2
  <2> HIDE DEF reply
  <2>5. before \in Seq(Replies) /\ Len(before) = 1 /\ before[1] = reply
    BY <2>3, <2>4
  <2> QED
    BY <1>2, <2>3, <2>4, <2>5 DEF OnceEach, MessagesOf, AllAllowed
<1> QED
  BY <1>1, <1>2 DEF HandlerGoesOn

(* It takes messages from the buffer until it has one to await.             *)
LEMMA HandlerMoves ==
  ASSUME IInv, NEW c \in Conns, conn[c] # "none", asks' = asks,
         NEW units \in Nat, arrived'[c] = units, arrived[c] <= units,
         units <= 2 * Len(asks[c]),
         NEW done, NEW before, HandlerGoesOn(c, done, before),
         Comes(c, Reaches(c, units), done), Writes(c, before)
  PROVE  /\ StreamFits(c)' /\ RepliesFit(c)'
         /\ taken' \in [Conns -> 0 .. MaxRequests]
         /\ busy' \in [Conns -> SUBSET Messages] /\ \A d \in Conns \ Known : busy'[d] = {}
         /\ out' \in [Conns -> Seq(Replies)]
         /\ conn' \in [Conns -> {"none", "open", "gone"}]
         /\ conn' = conn \/ conn' = [conn EXCEPT ![c] = "gone"]
         /\ \A d \in Conns \ {c} : /\ taken'[d] = taken[d] /\ busy'[d] = busy[d]
                                  /\ out'[d] = out[d] /\ conn'[d] = conn[d]
<1> DEFINE r == Reaches(c, units)
<1>1. /\ asks[c] \in Seq(Requests) /\ arrived[c] \in Nat /\ taken[c] \in Nat
      /\ Len(asks[c]) \in Nat /\ Len(asks[c]) <= MaxRequests /\ MaxRequests \in Nat
  <2>1. /\ asks[c] \in Seq(Requests) /\ arrived[c] \in 0 .. 2 * MaxRequests
        /\ taken[c] \in 0 .. MaxRequests /\ asks[c] \in Scripts[c]
    BY DEF IInv, TypeOK
  <2>2. MaxRequests \in Nat /\ Len(asks[c]) <= MaxRequests
    BY <2>1, AxfrServerAssumption DEF AxfrServerAssumption
  <2> QED
    BY <2>1, <2>2, LenProperties
<1>2. taken[c] <= Complete(units) /\ Complete(units) <= Len(asks[c]) /\ Complete(units) \in Nat
  <2>1. taken[c] <= Complete(arrived[c]) /\ Complete(arrived[c]) <= Complete(units)
    BY <1>1, Halves DEF IInv, StreamFits
  <2>2. Complete(arrived[c]) \in Nat /\ Complete(units) \in Nat /\ Complete(units) <= Len(asks[c])
    BY <1>1, Halves
  <2> QED
    BY <1>1, <2>1, <2>2
<1>3. /\ r \in taken[c] .. Complete(units)
      /\ \A m \in taken[c] + 1 .. r : m # r => ~Awaits(c, m)
      /\ r < Complete(units) => r > taken[c] /\ Awaits(c, r)
  BY <1>1, <1>2, ReachesFits
<1>4. /\ taken' = [taken EXCEPT ![c] = r]
      /\ busy' = [busy EXCEPT ![c] =
                    (@ \ done) \cup (IF r > taken[c] /\ Awaits(c, r) THEN {r} ELSE {})]
  BY DEF Comes
<1> HIDE DEF r
<1>5. r \in Nat /\ taken[c] <= r /\ r <= Len(asks[c])
  BY <1>1, <1>2, <1>3
<1>6. /\ taken \in [Conns -> 0 .. MaxRequests] /\ busy \in [Conns -> SUBSET Messages]
      /\ out \in [Conns -> Seq(Replies)] /\ conn \in [Conns -> {"none", "open", "gone"}]
      /\ TypeOK
  BY DEF IInv, TypeOK
<1>7. taken'[c] = r
  BY <1>4, <1>6
<1>8. PICK k \in taken[c] .. r, new \in Seq(Replies) : Answers(c, before, r, k, new)
  BY <1>3, <1>5, <1>6, <1>7, WritesWhat
<1>9. /\ done \subseteq busy[c] /\ before \in Seq(Replies)
      /\ OnceEach(before) /\ MessagesOf(before) = done /\ AllAllowed(c, before)
  BY BeforeFits
<1> DEFINE last == IF r > taken[c] /\ Awaits(c, r) THEN {r} ELSE {}
<1>10. busy'[c] = (busy[c] \ done) \cup last /\ \A d \in Conns \ {c} : busy'[d] = busy[d]
  BY <1>4, <1>6
<1>11. busy[c] \subseteq 1 .. taken[c] /\ \A m \in busy[c] : Awaits(c, m)
  BY DEF IInv, StreamFits
<1>12. last \subseteq taken[c] + 1 .. r /\ \A m \in last : Awaits(c, m)
  BY <1>1, <1>5
<1> HIDE DEF last
<1>13. busy'[c] \subseteq 1 .. r /\ \A m \in busy'[c] : Awaits(c, m)
  <2>1. 1 .. taken[c] \subseteq 1 .. r /\ taken[c] + 1 .. r \subseteq 1 .. r
    BY <1>1, <1>5
  <2> QED
    BY <2>1, <1>10, <1>11, <1>12
<1>14. busy' \in [Conns -> SUBSET Messages] /\ \A d \in Conns \ Known : busy'[d] = {}
  <2>1. busy'[c] \subseteq Messages
    BY <1>1, <1>5, <1>13 DEF Messages
  <2>2. busy' \in [Conns -> SUBSET Messages]
    BY <1>4, <1>6, <1>10, <2>1
  <2>3. c \notin Known => busy'[c] = {}
    BY <1>13 DEF Awaits
  <2> QED
    BY <1>10, <2>2, <2>3 DEF IInv, TypeOK
<1>15. MessagesOf(new) = taken[c] + 1 .. k /\ OnceEach(new) /\ AllAllowed(c, new)
  <2>1. k \in Nat /\ Len(new) \in Nat
    BY <1>1, <1>5, LenProperties
  <2>2. \A i \in 1 .. Len(new) : new[i].message = taken[c] + i /\ new[i].says \in Errors
    BY <1>8 DEF Answers
  <2>3. OnceEach(new)
    BY <1>1, <2>1, <2>2 DEF OnceEach
  <2>4. AllAllowed(c, new)
    BY <2>2 DEF AllAllowed, Allowed, Errors, Assigned
  <2>5. \A m \in taken[c] + 1 .. k : m - taken[c] \in 1 .. Len(new) /\ taken[c] + (m - taken[c]) = m
    BY <1>1, <1>8, <2>1 DEF Answers
  <2>6. taken[c] + 1 .. k \subseteq MessagesOf(new)
    BY <2>2, <2>5 DEF MessagesOf
  <2>7. \A i \in 1 .. Len(new) : taken[c] + i \in taken[c] + 1 .. k
    BY <1>1, <1>8, <2>1 DEF Answers
  <2>8. MessagesOf(new) \subseteq taken[c] + 1 .. k
    BY <2>2, <2>7 DEF MessagesOf
  <2> QED
    BY <2>3, <2>4, <2>6, <2>8
<1>16. /\ conn' \in [Conns -> {"none", "open", "gone"}]
       /\ conn' = conn \/ conn' = [conn EXCEPT ![c] = "gone"]
       /\ conn'[c] \in {conn[c], "gone"} /\ \A d \in Conns \ {c} : conn'[d] = conn[d]
  <2>1. conn' = conn \/ conn' = [conn EXCEPT ![c] = "gone"]
    BY <1>8 DEF Answers
  <2>2. CASE conn' = conn
    BY <1>6, <2>2
  <2>3. CASE conn' = [conn EXCEPT ![c] = "gone"]
    BY <1>6, <2>3
  <2> QED
    BY <2>1, <2>2, <2>3
<1>17. /\ OnceEach(out[c]) /\ AllAllowed(c, out[c]) /\ out[c] \in Seq(Replies)
       /\ MessagesOf(out[c]) \subseteq (1 .. taken[c]) \ busy[c]
       /\ conn[c] # "gone" => 1 .. taken[c] \subseteq MessagesOf(out[c]) \cup busy[c]
  BY <1>6 DEF IInv, StreamFits, RepliesFit, Answered
<1>18. /\ out' \in [Conns -> Seq(Replies)] /\ \A d \in Conns \ {c} : out'[d] = out[d]
       /\ OnceEach(out'[c]) /\ AllAllowed(c, out'[c])
       /\ MessagesOf(out'[c]) = IF conn[c] = "open"
                               THEN MessagesOf(out[c]) \cup done \cup (taken[c] + 1 .. k)
                               ELSE MessagesOf(out[c])
  <2>1. out' = IF conn[c] = "open" THEN [out EXCEPT ![c] = @ \o before \o new] ELSE out
    BY <1>8 DEF Answers
  <2>2. CASE conn[c] = "open"
    <3> DEFINE first == out[c] \o before
    <3>1. out'[c] = first \o new /\ \A d \in Conns \ {c} : out'[d] = out[d]
      BY <1>6, <2>1, <2>2
    <3>2. MessagesOf(out[c]) \cap MessagesOf(before) = {}
      BY <1>9, <1>17
    <3>3. /\ first \in Seq(Replies) /\ OnceEach(first) /\ AllAllowed(c, first)
          /\ MessagesOf(first) = MessagesOf(out[c]) \cup done
      BY <1>9, <1>17, <3>2, Concatenated
    <3> HIDE DEF first
    <3>4. MessagesOf(first) \cap MessagesOf(new) = {}
      <4>1. MessagesOf(first) \subseteq 1 .. taken[c]
        BY <1>9, <1>11, <1>17, <3>3
      <4>2. (1 .. taken[c]) \cap (taken[c] + 1 .. k) = {}
        BY <1>1
      <4> QED
        BY <1>15, <4>1, <4>2
    <3>5. /\ first \o new \in Seq(Replies) /\ OnceEach(first \o new)
          /\ AllAllowed(c, first \o new)
          /\ MessagesOf(first \o new) = MessagesOf(first) \cup (taken[c] + 1 .. k)
      BY <1>15, <3>3, <3>4, Concatenated
    <3>6. out' \in [Conns -> Seq(Replies)]
      BY <1>6, <2>1, <2>2, <3>1, <3>5
    <3> QED
      BY <2>2, <3>1, <3>3, <3>5, <3>6
  <2>3. CASE conn[c] # "open"
    BY <1>6, <1>17, <2>1, <2>3
  <2> QED
    BY <2>2, <2>3
<1>19. \A m \in taken[c] + 1 .. k : ~Awaits(c, m)
  BY <1>8 DEF Answers
<1>20. k \in Nat /\ taken[c] <= k /\ k <= r
  BY <1>1, <1>5
<1>21. conn'[c] # "gone" => k = r \/ (k = r - 1 /\ Awaits(c, r))
  BY <1>8 DEF Answers
<1>22. MessagesOf(out'[c]) \subseteq (1 .. r) \ busy'[c]
  <2>1. /\ 1 .. taken[c] \subseteq 1 .. r /\ taken[c] + 1 .. k \subseteq 1 .. r
        /\ (1 .. taken[c]) \cap (taken[c] + 1 .. r) = {}
        /\ (1 .. taken[c]) \cap (taken[c] + 1 .. k) = {}
    BY <1>1, <1>5, <1>20
  <2>2. last \cap (taken[c] + 1 .. k) = {}
    BY <1>12, <1>19
  <2>3. (taken[c] + 1 .. k) \cap busy'[c] = {}
    BY <1>10, <1>11, <2>1, <2>2
  <2>4. (1 .. taken[c]) \cap busy'[c] = busy[c] \ done
    BY <1>10, <1>11, <1>12, <2>1
  <2>5. MessagesOf(out[c]) \subseteq 1 .. taken[c] /\ done \subseteq 1 .. taken[c]
    BY <1>9, <1>11, <1>17
  <2> QED
    BY <1>9, <1>17, <1>18, <2>1, <2>3, <2>4, <2>5
<1>23. r > taken[c] /\ Awaits(c, r) => r \in busy'[c]
  BY <1>10 DEF last
<1>24. conn'[c] # "gone" => 1 .. r \subseteq MessagesOf(out'[c]) \cup busy'[c]
  <2>1. SUFFICES ASSUME conn'[c] # "gone"
                 PROVE  1 .. r \subseteq MessagesOf(out'[c]) \cup busy'[c]
    OBVIOUS
  <2>2. conn[c] = "open"
    BY <1>6, <1>16, <2>1
  <2>3. 1 .. taken[c] \subseteq MessagesOf(out'[c]) \cup busy'[c]
    BY <1>10, <1>17, <1>18, <2>2
  <2>4. taken[c] + 1 .. k \subseteq MessagesOf(out'[c])
    BY <1>18, <2>2
  <2>5. k = r \/ (k = r - 1 /\ r \in busy'[c])
    BY <1>1, <1>5, <1>20, <1>21, <1>23, <2>1
  <2>6. \A m \in 1 .. r : m \in 1 .. taken[c] \/ m \in taken[c] + 1 .. k \/ (m = r /\ k # r)
    BY <1>1, <1>5, <1>20, <2>5
  <2> QED
    BY <2>3, <2>4, <2>5, <2>6
<1>25. Complete(units) > r => busy'[c] # {}
  <2>1. Complete(units) > r => r < Complete(units)
    BY <1>2, <1>5
  <2> QED
    BY <1>3, <1>23, <2>1
<1>26. StreamFits(c)'
  <2>1. arrived'[c] <= 2 * Len(asks'[c]) /\ taken'[c] <= Complete(arrived'[c])
    BY <1>2, <1>3, <1>5, <1>7
  <2>2. \A m : Awaits(c, m)' <=> Awaits(c, m)
    BY DEF Awaits
  <2>3. conn'[c] # "none"
    BY <1>16
  <2> HIDE DEF Awaits
  <2> QED
    BY <1>7, <1>13, <1>18, <1>22, <1>24, <1>25, <2>1, <2>2, <2>3
    DEF StreamFits, Answered, OnceEach, MessagesOf
<1>27. RepliesFit(c)'
  BY <1>18 DEF RepliesFit, AllAllowed, Allowed
<1>28. taken' \in [Conns -> 0 .. MaxRequests] /\ \A d \in Conns \ {c} : taken'[d] = taken[d]
  <2>1. r \in 0 .. MaxRequests
    BY <1>1, <1>5
  <2> QED
    BY <1>4, <1>6, <2>1
<1> QED
  BY <1>10, <1>14, <1>16, <1>18, <1>26, <1>27, <1>28

-----------------------------------------------------------------------------
(* The steps of the connections.                                            *)
ServerTypes ==
  /\ zone \in ZoneKinds
  /\ edits \in 0 .. MaxEdits /\ failures \in 0 .. MaxFailures
  /\ datagrams \in 0 .. MaxDatagrams /\ starts \in 0 .. MaxStarts
  /\ state \in {"stopped", "failed", "connect", "listen", "bind", "running",
                "closeTcp", "closeUdp", "disconnect", "crashed"}
  /\ tcp \in {"closed", "listening", "closing"}
  /\ udp \in {"closed", "bound"}
  /\ sourceOpen \in BOOLEAN
  /\ checks \in 0 .. MaxDatagrams
  /\ stale \in 0 .. MaxDatagrams
  /\ late \in BOOLEAN

StreamTypes ==
  /\ conn \in [Conns -> {"none", "open", "gone"}]
  /\ arrived \in [Conns -> 0 .. 2 * MaxRequests]
  /\ taken \in [Conns -> 0 .. MaxRequests]
  /\ busy \in [Conns -> SUBSET Messages]
  /\ \A c \in Conns \ Known : busy[c] = {}
  /\ out \in [Conns -> Seq(Replies)]

LEMMA AllTypes ==
  TypeOK <=> /\ asks \in [Conns -> Seq(Requests)] /\ \A c \in Conns : asks[c] \in Scripts[c]
             /\ ServerTypes /\ StreamTypes
  BY DEF TypeOK, ServerTypes, StreamTypes

Same(c) ==
  /\ conn'[c] = conn[c] /\ arrived'[c] = arrived[c] /\ taken'[c] = taken[c]
  /\ busy'[c] = busy[c] /\ out'[c] = out[c]

LEMMA StreamKept ==
  ASSUME IInv, NEW c \in Conns, asks' = asks, Same(c)
  PROVE  StreamFits(c)' /\ RepliesFit(c)'
<1>1. StreamFits(c) /\ RepliesFit(c)
  BY DEF IInv
<1>2. \A m : Awaits(c, m)' <=> Awaits(c, m)
  BY DEF Awaits
<1>3. StreamFits(c)'
  <2> HIDE DEF Awaits
  <2> QED
    BY <1>1, <1>2 DEF Same, StreamFits, Answered, MessagesOf, OnceEach
<1> QED
  BY <1>1, <1>3 DEF Same, RepliesFit, AllAllowed, Allowed

LEMMA StreamLost ==
  ASSUME IInv, NEW c \in Conns, asks' = asks, conn'[c] = "gone", arrived'[c] = arrived[c],
         taken'[c] = taken[c], out'[c] = out[c], busy'[c] \subseteq busy[c]
  PROVE  StreamFits(c)' /\ RepliesFit(c)'
<1>1. StreamFits(c) /\ RepliesFit(c)
  BY DEF IInv
<1>2. \A m : Awaits(c, m)' <=> Awaits(c, m)
  BY DEF Awaits
<1>3. StreamFits(c)'
  <2> HIDE DEF Awaits
  <2> QED
    BY <1>1, <1>2 DEF StreamFits, Answered, MessagesOf, OnceEach
<1> QED
  BY <1>1, <1>3 DEF RepliesFit, AllAllowed, Allowed

(* A step of one connection.                                                *)
LEMMA StreamStep ==
  ASSUME IInv, NEW c \in Conns,
         UNCHANGED <<asks, zone, edits, datagrams, starts, state, tcp, udp, checks, stale, late>>,
         failures' \in 0 .. MaxFailures, sourceOpen' \in BOOLEAN,
         StreamTypes', StreamFits(c)', RepliesFit(c)', \A d \in Conns \ {c} : Same(d),
         tcp = "closed" => conn'[c] # "open",
         state = "stopped" /\ ~late => sourceOpen' = sourceOpen /\ busy'[c] = busy[c]
  PROVE  IInv'
<1>1. TypeOK'
  <2>1. asks \in [Conns -> Seq(Requests)] /\ ServerTypes /\ \A d \in Conns : asks[d] \in Scripts[d]
    BY AllTypes DEF IInv
  <2>2. ServerTypes'
    BY <2>1, Zenon DEF ServerTypes
  <2> QED
    BY <2>1, <2>2, Zenon DEF TypeOK, ServerTypes, StreamTypes
<1>2. \A d \in Conns : StreamFits(d)' /\ RepliesFit(d)'
  BY StreamKept
<1>3. SocketsFit'
  <2>1. SocketsFit
    BY DEF IInv
  <2>2. tcp = "closed" => \A d \in Conns : conn'[d] # "open"
    BY <2>1 DEF SocketsFit, Same
  <2>3. state = "stopped" /\ ~late => ~sourceOpen' /\ \A d \in Conns : busy'[d] = {}
    BY <2>1 DEF SocketsFit, Same
  <2> QED
    BY <2>1, <2>2, <2>3 DEF SocketsFit
<1> QED
  BY <1>1, <1>2, <1>3 DEF IInv

LEMMA AcceptKeeps == ASSUME IInv, NEW c \in Conns, Accept(c) PROVE IInv'
<1>1. /\ tcp = "listening" /\ conn[c] = "none" /\ conn' = [conn EXCEPT ![c] = "open"]
      /\ UNCHANGED <<serverVars, arrived, taken, busy, out, envVars, sourceOpen, udpVars, late>>
  BY DEF Accept
<1>2. /\ UNCHANGED <<asks, zone, edits, datagrams, starts, state, tcp, udp, checks, stale, late>>
      /\ UNCHANGED <<failures, sourceOpen, arrived, taken, busy, out>>
  BY <1>1, Zenon DEF serverVars, envVars, udpVars
<1>3. StreamTypes /\ ServerTypes
  BY AllTypes DEF IInv
<1>4. StreamTypes' /\ conn'[c] = "open" /\ \A d \in Conns \ {c} : conn'[d] = conn[d]
  BY <1>1, <1>2, <1>3 DEF StreamTypes
<1>5. StreamFits(c)' /\ RepliesFit(c)'
  <2>1. StreamFits(c) /\ RepliesFit(c)
    BY DEF IInv
  <2>2. \A m : Awaits(c, m)' <=> Awaits(c, m)
    BY <1>2 DEF Awaits
  <2>3. Complete(arrived[c]) <= taken[c]
    <3>1. Complete(0) = 0
      BY DEF Complete
    <3> QED
      BY <1>1, <1>3, <2>1, <3>1 DEF StreamFits, StreamTypes
  <2>4. StreamFits(c)'
    <3>1. ~(Complete(arrived[c]) > taken[c])
      BY <1>3, <2>3, Halves DEF StreamTypes
    <3>2. conn[c] # "gone"
      BY <1>1
    <3> HIDE DEF Awaits
    <3> QED
      BY <1>2, <1>4, <2>1, <2>2, <3>1, <3>2 DEF StreamFits, Answered, MessagesOf, OnceEach
  <2> QED
    BY <1>2, <2>1, <2>4 DEF RepliesFit, AllAllowed, Allowed
<1>6. \A d \in Conns \ {c} : Same(d)
  BY <1>2, <1>4 DEF Same
<1>7. failures' \in 0 .. MaxFailures /\ sourceOpen' \in BOOLEAN
  BY <1>2, <1>3 DEF ServerTypes
<1> QED
  BY <1>1, <1>2, <1>4, <1>5, <1>6, <1>7, StreamStep

LEMMA GoneKeeps == ASSUME IInv, NEW c \in Conns, Gone(c) PROVE IInv'
<1>1. /\ conn' = [conn EXCEPT ![c] = "gone"]
      /\ UNCHANGED <<serverVars, arrived, taken, busy, out, envVars, sourceOpen, udpVars, late>>
  BY DEF Gone
<1>2. /\ UNCHANGED <<asks, zone, edits, datagrams, starts, state, tcp, udp, checks, stale, late>>
      /\ UNCHANGED <<failures, sourceOpen, arrived, taken, busy, out>>
  BY <1>1, Zenon DEF serverVars, envVars, udpVars
<1>3. StreamTypes /\ ServerTypes
  BY AllTypes DEF IInv
<1>4. StreamTypes' /\ conn'[c] = "gone" /\ \A d \in Conns \ {c} : conn'[d] = conn[d]
  BY <1>1, <1>2, <1>3 DEF StreamTypes
<1>5. StreamFits(c)' /\ RepliesFit(c)'
  BY <1>2, <1>4, StreamLost
<1>6. \A d \in Conns \ {c} : Same(d)
  BY <1>2, <1>4 DEF Same
<1>7. failures' \in 0 .. MaxFailures /\ sourceOpen' \in BOOLEAN
  BY <1>2, <1>3 DEF ServerTypes
<1> QED
  BY <1>2, <1>4, <1>5, <1>6, <1>7, StreamStep

LEMMA HandleFailsKeeps == ASSUME IInv, NEW c \in Conns, NEW m, HandleFails(c, m) PROVE IInv'
<1>1. /\ m \in busy[c] /\ failures < MaxFailures /\ failures' = failures + 1
      /\ busy' = [busy EXCEPT ![c] = @ \ {m}] /\ conn' = [conn EXCEPT ![c] = "gone"]
      /\ UNCHANGED <<serverVars, arrived, taken, out, asks, zone, edits, datagrams, sourceOpen,
                     udpVars, late>>
  BY DEF HandleFails
<1>2. /\ UNCHANGED <<asks, zone, edits, datagrams, starts, state, tcp, udp, checks, stale, late>>
      /\ UNCHANGED <<sourceOpen, arrived, taken, out>>
  BY <1>1, Zenon DEF serverVars, udpVars
<1>3. StreamTypes /\ ServerTypes
  BY AllTypes DEF IInv
<1>4. /\ conn'[c] = "gone" /\ \A d \in Conns \ {c} : conn'[d] = conn[d]
      /\ busy'[c] \subseteq busy[c] /\ \A d \in Conns \ {c} : busy'[d] = busy[d]
  BY <1>1, <1>3 DEF StreamTypes
<1>5. StreamTypes'
  BY <1>1, <1>2, <1>3, <1>4 DEF StreamTypes
<1>6. StreamFits(c)' /\ RepliesFit(c)'
  BY <1>2, <1>4, StreamLost
<1>7. \A d \in Conns \ {c} : Same(d)
  BY <1>2, <1>4 DEF Same
<1>8. failures' \in 0 .. MaxFailures /\ sourceOpen' \in BOOLEAN
  <2>1. failures' \in 0 .. MaxFailures
    BY <1>1, <1>3, AxfrServerAssumption DEF ServerTypes, AxfrServerAssumption
  <2> QED
    BY <1>2, <1>3, <2>1 DEF ServerTypes
<1>9. ~(state = "stopped" /\ ~late)
  BY <1>1 DEF IInv, SocketsFit
<1> QED
  BY <1>2, <1>4, <1>5, <1>6, <1>7, <1>8, <1>9, StreamStep

(* A chunk starts a handler, and an answer lets one go on.                  *)
LEMMA DataKeeps == ASSUME IInv, NEW c \in Conns, NEW k \in Nat, Data(c, k) PROVE IInv'
<1>1. /\ conn[c] = "open" /\ arrived[c] + k <= 2 * Len(asks[c])
      /\ arrived' = [arrived EXCEPT ![c] = @ + k]
      /\ Comes(c, Reaches(c, arrived[c] + k), {}) /\ Writes(c, <<>>)
      /\ sourceOpen' = (sourceOpen \/ busy' # busy)
      /\ UNCHANGED <<serverVars, envVars, udpVars, late>>
  BY DEF Data, TakeFirst
<1>2. /\ UNCHANGED <<asks, zone, edits, datagrams, starts, state, tcp, udp, checks, stale, late>>
      /\ UNCHANGED failures
  BY <1>1, Zenon DEF serverVars, envVars, udpVars
<1>3. StreamTypes /\ ServerTypes /\ asks[c] \in Seq(Requests) /\ asks[c] \in Scripts[c]
  BY AllTypes DEF IInv
<1>4. arrived[c] \in 0 .. 2 * MaxRequests
  BY <1>3 DEF StreamTypes
<1> DEFINE units == arrived[c] + k
<1>5. units \in Nat /\ arrived[c] <= units
  BY <1>4
<1>6. /\ arrived'[c] = units /\ \A d \in Conns \ {c} : arrived'[d] = arrived[d]
      /\ units <= 2 * Len(asks[c]) /\ Comes(c, Reaches(c, units), {})
  BY <1>1, <1>3 DEF StreamTypes
<1>7. arrived' \in [Conns -> 0 .. 2 * MaxRequests]
  <2>1. Len(asks[c]) <= MaxRequests /\ MaxRequests \in Nat /\ Len(asks[c]) \in Nat
    BY <1>3, AxfrServerAssumption, LenProperties DEF AxfrServerAssumption
  <2>2. units \in 0 .. 2 * MaxRequests
    BY <1>5, <1>6, <2>1
  <2> QED
    BY <1>1, <1>3, <2>2 DEF StreamTypes
<1> HIDE DEF units
<1>8. HandlerGoesOn(c, {}, <<>>) /\ conn[c] # "none" /\ asks' = asks
  BY <1>1, <1>2 DEF HandlerGoesOn
<1>9. /\ StreamFits(c)' /\ RepliesFit(c)'
      /\ taken' \in [Conns -> 0 .. MaxRequests]
      /\ busy' \in [Conns -> SUBSET Messages] /\ \A d \in Conns \ Known : busy'[d] = {}
      /\ out' \in [Conns -> Seq(Replies)]
      /\ conn' \in [Conns -> {"none", "open", "gone"}]
      /\ \A d \in Conns \ {c} : /\ taken'[d] = taken[d] /\ busy'[d] = busy[d]
                               /\ out'[d] = out[d] /\ conn'[d] = conn[d]
  BY <1>1, <1>5, <1>6, <1>8, HandlerMoves
<1>10. StreamTypes' /\ \A d \in Conns \ {c} : Same(d)
  BY <1>6, <1>7, <1>9 DEF StreamTypes, Same
<1>11. tcp # "closed"
  BY <1>1 DEF IInv, SocketsFit
<1>12. ~(state = "stopped" /\ ~late)
  BY <1>11 DEF IInv, SocketsFit
<1>13. failures' \in 0 .. MaxFailures /\ sourceOpen' \in BOOLEAN
  BY <1>1, <1>2, <1>3 DEF ServerTypes
<1> QED
  BY <1>2, <1>9, <1>10, <1>11, <1>12, <1>13, StreamStep

LEMMA HandledKeeps == ASSUME IInv, NEW c \in Conns, NEW m, Handled(c, m) PROVE IInv'
<1> DEFINE before == <<[message |-> m, says |-> Says(c, m)]>>
           done   == {m}
<1>1. /\ m \in busy[c]
      /\ Comes(c, Reaches(c, arrived[c]), done) /\ Writes(c, before)
      /\ sourceOpen' = (sourceOpen \/ busy'[c] \ busy[c] # {})
      /\ UNCHANGED <<serverVars, arrived, envVars, udpVars, late>>
  BY DEF Handled, LoopsOn
<1>2. /\ UNCHANGED <<asks, zone, edits, datagrams, starts, state, tcp, udp, checks, stale, late>>
      /\ UNCHANGED <<failures, arrived>>
  BY <1>1, Zenon DEF serverVars, envVars, udpVars
<1>3. StreamTypes /\ ServerTypes
  BY AllTypes DEF IInv
<1>4. /\ arrived[c] \in Nat /\ arrived'[c] = arrived[c] /\ arrived[c] <= arrived[c]
      /\ arrived[c] <= 2 * Len(asks[c])
  <2>1. arrived[c] \in 0 .. 2 * MaxRequests
    BY <1>3 DEF StreamTypes
  <2> QED
    BY <1>2, <2>1 DEF IInv, StreamFits
<1>5. HandlerGoesOn(c, done, before) /\ conn[c] # "none" /\ asks' = asks
  BY <1>1, <1>2 DEF HandlerGoesOn, IInv, StreamFits
<1> HIDE DEF before, done
<1>6. /\ StreamFits(c)' /\ RepliesFit(c)'
      /\ taken' \in [Conns -> 0 .. MaxRequests]
      /\ busy' \in [Conns -> SUBSET Messages] /\ \A d \in Conns \ Known : busy'[d] = {}
      /\ out' \in [Conns -> Seq(Replies)]
      /\ conn' \in [Conns -> {"none", "open", "gone"}]
      /\ conn' = conn \/ conn' = [conn EXCEPT ![c] = "gone"]
      /\ \A d \in Conns \ {c} : /\ taken'[d] = taken[d] /\ busy'[d] = busy[d]
                               /\ out'[d] = out[d] /\ conn'[d] = conn[d]
  BY <1>1, <1>4, <1>5, HandlerMoves
<1>7. StreamTypes' /\ \A d \in Conns \ {c} : Same(d)
  BY <1>2, <1>3, <1>6 DEF StreamTypes, Same
<1>8. tcp = "closed" => conn'[c] # "open"
  <2>1. conn'[c] \in {conn[c], "gone"}
    BY <1>3, <1>6 DEF StreamTypes
  <2> QED
    BY <2>1 DEF IInv, SocketsFit
<1>9. ~(state = "stopped" /\ ~late)
  BY <1>1 DEF IInv, SocketsFit
<1>10. failures' \in 0 .. MaxFailures /\ sourceOpen' \in BOOLEAN
  BY <1>1, <1>2, <1>3 DEF ServerTypes
<1> QED
  BY <1>2, <1>6, <1>7, <1>8, <1>9, <1>10, StreamStep

-----------------------------------------------------------------------------
(* The steps of start(), stop() and of UDP.                                 *)
LEMMA ServerStep ==
  ASSUME IInv, UNCHANGED <<asks, conn, arrived, taken, busy, out>>, ServerTypes', SocketsFit'
  PROVE  IInv'
<1>1. StreamTypes /\ asks \in [Conns -> Seq(Requests)] /\ \A c \in Conns : asks[c] \in Scripts[c]
  BY AllTypes DEF IInv
<1>2. TypeOK'
  BY <1>1, Zenon DEF TypeOK, ServerTypes, StreamTypes
<1>3. \A c \in Conns : StreamFits(c)' /\ RepliesFit(c)'
  BY StreamKept DEF Same
<1> QED
  BY <1>2, <1>3 DEF IInv

(* Start, and what it awaits.                                               *)
LEMMA StartKeeps ==
  ASSUME IInv, \/ Start \/ SourceConnected \/ Listening \/ Bound
               \/ ConnectFails \/ ListenFails \/ BindFails
  PROVE  IInv'
<1>1. ServerTypes /\ SocketsFit
  BY AllTypes DEF IInv
<1>2. CASE Start
  <2>1. /\ state \in {"stopped", "failed"} /\ tcp = "closed"
        /\ starts < MaxStarts /\ starts' = starts + 1 /\ state' = "connect"
        /\ UNCHANGED <<asks, conn, arrived, taken, busy, out>>
        /\ UNCHANGED <<zone, edits, failures, datagrams, tcp, udp, sourceOpen, checks, stale, late>>
    BY <1>2, Zenon DEF Start, streamVars, envVars, udpVars
  <2>2. starts' \in 0 .. MaxStarts
    BY <1>1, <2>1, AxfrServerAssumption DEF ServerTypes, AxfrServerAssumption
  <2>3. ServerTypes'
    BY <1>1, <2>1, <2>2, Zenon DEF ServerTypes
  <2>4. SocketsFit'
    BY <1>1, <2>1 DEF SocketsFit, ServerTypes
  <2> QED
    BY <2>1, <2>3, <2>4, ServerStep
<1>3. CASE SourceConnected
  <2>1. /\ state = "connect" /\ state' = "listen" /\ sourceOpen' = TRUE /\ late' = FALSE
        /\ UNCHANGED <<asks, conn, arrived, taken, busy, out>>
        /\ UNCHANGED <<zone, edits, failures, datagrams, starts, tcp, udp, checks, stale>>
    BY <1>3, Zenon DEF SourceConnected, streamVars, envVars, udpVars
  <2>2. ServerTypes'
    BY <1>1, <2>1, Zenon DEF ServerTypes
  <2>3. SocketsFit'
    BY <1>1, <2>1 DEF SocketsFit, ServerTypes
  <2> QED
    BY <2>1, <2>2, <2>3, ServerStep
<1>4. CASE Listening
  <2>1. /\ state = "listen" /\ state' = "bind" /\ tcp' = "listening"
        /\ UNCHANGED <<asks, conn, arrived, taken, busy, out>>
        /\ UNCHANGED <<zone, edits, failures, datagrams, starts, udp, sourceOpen, checks, stale,
                       late>>
    BY <1>4, Zenon DEF Listening, streamVars, envVars, udpVars
  <2>2. ServerTypes'
    BY <1>1, <2>1, Zenon DEF ServerTypes
  <2>3. SocketsFit'
    BY <1>1, <2>1 DEF SocketsFit, ServerTypes
  <2> QED
    BY <2>1, <2>2, <2>3, ServerStep
<1>5. CASE Bound
  <2>1. /\ state = "bind" /\ state' = "running" /\ udp' = "bound"
        /\ UNCHANGED <<asks, conn, arrived, taken, busy, out>>
        /\ UNCHANGED <<zone, edits, failures, datagrams, starts, tcp, sourceOpen, checks, stale,
                       late>>
    BY <1>5, Zenon DEF Bound, streamVars, envVars, udpVars
  <2>2. ServerTypes'
    BY <1>1, <2>1, Zenon DEF ServerTypes
  <2>3. SocketsFit'
    BY <1>1, <2>1 DEF SocketsFit, ServerTypes
  <2> QED
    BY <2>1, <2>2, <2>3, ServerStep
<1>6. CASE ConnectFails \/ ListenFails \/ BindFails
  <2>1. /\ state \in {"connect", "listen", "bind"} /\ state' = "failed"
        /\ failures < MaxFailures /\ failures' = failures + 1
        /\ UNCHANGED <<asks, conn, arrived, taken, busy, out>>
        /\ UNCHANGED <<zone, edits, datagrams, starts, tcp, udp, sourceOpen, checks, stale, late>>
    BY <1>6, Zenon DEF ConnectFails, ListenFails, BindFails, Fails, streamVars, udpVars
  <2>2. failures' \in 0 .. MaxFailures
    BY <1>1, <2>1, AxfrServerAssumption DEF ServerTypes, AxfrServerAssumption
  <2>3. ServerTypes'
    BY <1>1, <2>1, <2>2, Zenon DEF ServerTypes
  <2>4. SocketsFit'
    BY <1>1, <2>1 DEF SocketsFit, ServerTypes
  <2> QED
    BY <2>1, <2>3, <2>4, ServerStep
<1> QED
  BY <1>2, <1>3, <1>4, <1>5, <1>6

LEMMA StopKeeps ==
  ASSUME IInv, Stop \/ TcpClosed \/ UdpClosed \/ Disconnected \/ DisconnectFails
  PROVE  IInv'
<1>1. ServerTypes /\ SocketsFit
  BY AllTypes DEF IInv
<1>2. CASE Stop
  <2>1. /\ state \in {"running", "failed"} /\ state' = "closeTcp" /\ tcp' = "closing"
        /\ UNCHANGED <<asks, conn, arrived, taken, busy, out>>
        /\ UNCHANGED <<zone, edits, failures, datagrams, starts, udp, sourceOpen, checks, stale,
                       late>>
    BY <1>2, Zenon DEF Stop, streamVars, envVars, udpVars
  <2>2. ServerTypes'
    BY <1>1, <2>1, Zenon DEF ServerTypes
  <2>3. SocketsFit'
    BY <1>1, <2>1 DEF SocketsFit, ServerTypes
  <2> QED
    BY <2>1, <2>2, <2>3, ServerStep
<1>3. CASE TcpClosed
  <2>1. /\ state = "closeTcp" /\ CanClose /\ state' = "closeUdp" /\ tcp' = "closed"
        /\ UNCHANGED <<asks, conn, arrived, taken, busy, out>>
        /\ UNCHANGED <<zone, edits, failures, datagrams, starts, udp, sourceOpen, checks, stale,
                       late>>
    BY <1>3, Zenon DEF TcpClosed, streamVars, envVars, udpVars
  <2>2. ServerTypes'
    BY <1>1, <2>1, Zenon DEF ServerTypes
  <2>3. SocketsFit'
    BY <1>1, <2>1 DEF SocketsFit, ServerTypes, CanClose
  <2> QED
    BY <2>1, <2>2, <2>3, ServerStep
<1>4. CASE UdpClosed
  <2>1. /\ state = "closeUdp" /\ state' = "disconnect" /\ udp' = "closed"
        /\ stale' = stale + checks /\ checks' = 0
        /\ UNCHANGED <<asks, conn, arrived, taken, busy, out>>
        /\ UNCHANGED <<zone, edits, failures, datagrams, starts, tcp, sourceOpen, late>>
    BY <1>4, Zenon DEF UdpClosed, streamVars, envVars
  <2>2. stale' \in 0 .. MaxDatagrams /\ checks' \in 0 .. MaxDatagrams /\ checks' + stale' <= datagrams
    BY <1>1, <2>1, AxfrServerAssumption DEF ServerTypes, SocketsFit, AxfrServerAssumption
  <2>3. ServerTypes'
    BY <1>1, <2>1, <2>2, Zenon DEF ServerTypes
  <2>4. SocketsFit'
    BY <1>1, <2>1, <2>2 DEF SocketsFit
  <2> QED
    BY <2>1, <2>3, <2>4, ServerStep
<1>5. CASE Disconnected
  <2>1. /\ state = "disconnect" /\ state' = "stopped" /\ sourceOpen' = FALSE
        /\ late' = (stale > 0 \/ \E c \in Conns : busy[c] # {})
        /\ UNCHANGED <<asks, conn, arrived, taken, busy, out>>
        /\ UNCHANGED <<zone, edits, failures, datagrams, starts, tcp, udp, checks, stale>>
    BY <1>5, Zenon DEF Disconnected, streamVars, envVars, udpVars
  <2>2. late' \in BOOLEAN /\ (~late' => \A c \in Conns : busy[c] = {})
    BY <2>1
  <2>3. ServerTypes'
    BY <1>1, <2>1, <2>2, Zenon DEF ServerTypes
  <2>4. SocketsFit'
    BY <1>1, <2>1, <2>2 DEF SocketsFit
  <2> QED
    BY <2>1, <2>3, <2>4, ServerStep
<1>6. CASE DisconnectFails
  <2>1. /\ state = "disconnect" /\ state' = "failed" /\ sourceOpen' \in {sourceOpen, FALSE}
        /\ failures < MaxFailures /\ failures' = failures + 1
        /\ UNCHANGED <<asks, conn, arrived, taken, busy, out>>
        /\ UNCHANGED <<zone, edits, datagrams, starts, tcp, udp, checks, stale, late>>
    BY <1>6, Zenon DEF DisconnectFails, streamVars, udpVars
  <2>2. failures' \in 0 .. MaxFailures
    BY <1>1, <2>1, AxfrServerAssumption DEF ServerTypes, AxfrServerAssumption
  <2>3. ServerTypes'
    BY <1>1, <2>1, <2>2, Zenon DEF ServerTypes
  <2>4. SocketsFit'
    BY <1>1, <2>1 DEF SocketsFit, ServerTypes
  <2> QED
    BY <2>1, <2>3, <2>4, ServerStep
<1> QED
  BY <1>2, <1>3, <1>4, <1>5, <1>6

LEMMA DatagramKeeps ==
  ASSUME IInv, Datagram \/ DatagramHandled \/ Edit
  PROVE  IInv'
<1>1. ServerTypes /\ SocketsFit
  BY AllTypes DEF IInv
<1>2. CASE Datagram
  <2>1. /\ udp = "bound" /\ datagrams < MaxDatagrams /\ datagrams' = datagrams + 1
        /\ checks' = checks + 1 /\ sourceOpen' = TRUE
        /\ UNCHANGED <<asks, conn, arrived, taken, busy, out>>
        /\ UNCHANGED <<zone, edits, failures, starts, state, tcp, udp, stale, late>>
    BY <1>2, Zenon DEF Datagram, serverVars, streamVars
  <2>2. /\ datagrams' \in 0 .. MaxDatagrams /\ checks' \in 0 .. MaxDatagrams
        /\ checks' + stale' <= datagrams'
    BY <1>1, <2>1, AxfrServerAssumption DEF ServerTypes, SocketsFit, AxfrServerAssumption
  <2>3. ServerTypes'
    BY <1>1, <2>1, <2>2, Zenon DEF ServerTypes
  <2>4. state # "stopped"
    BY <1>1, <2>1 DEF SocketsFit
  <2>5. SocketsFit'
    BY <1>1, <2>1, <2>2, <2>4 DEF SocketsFit
  <2> QED
    BY <2>1, <2>3, <2>5, ServerStep
<1>3. CASE DatagramHandled
  <2>1. /\ checks > 0 /\ checks' = checks - 1
        /\ UNCHANGED <<asks, conn, arrived, taken, busy, out>>
        /\ UNCHANGED <<zone, edits, failures, datagrams, starts, state, tcp, udp, sourceOpen, stale,
                       late>>
    BY <1>3, Zenon DEF DatagramHandled, serverVars, streamVars, envVars
  <2>2. checks' \in 0 .. MaxDatagrams /\ checks' + stale' <= datagrams'
    BY <1>1, <2>1, AxfrServerAssumption DEF ServerTypes, SocketsFit, AxfrServerAssumption
  <2>3. ServerTypes'
    BY <1>1, <2>1, <2>2, Zenon DEF ServerTypes
  <2>4. SocketsFit'
    BY <1>1, <2>1, <2>2 DEF SocketsFit
  <2> QED
    BY <2>1, <2>3, <2>4, ServerStep
<1>4. CASE Edit
  <2>1. /\ edits < MaxEdits /\ edits' = edits + 1 /\ zone' \in ZoneKinds
        /\ UNCHANGED <<asks, conn, arrived, taken, busy, out>>
        /\ UNCHANGED <<failures, datagrams, starts, state, tcp, udp, sourceOpen, checks, stale,
                       late>>
    BY <1>4, Zenon DEF Edit, serverVars, streamVars, udpVars
  <2>2. edits' \in 0 .. MaxEdits
    BY <1>1, <2>1, AxfrServerAssumption DEF ServerTypes, AxfrServerAssumption
  <2>3. ServerTypes'
    BY <1>1, <2>1, <2>2, Zenon DEF ServerTypes
  <2>4. SocketsFit'
    BY <1>1, <2>1 DEF SocketsFit
  <2> QED
    BY <2>1, <2>3, <2>4, ServerStep
<1> QED
  BY <1>2, <1>3, <1>4

(* The process ends.                                                        *)
LEMMA DatagramFailsKeeps == ASSUME IInv, DatagramFails PROVE IInv'
<1>1. /\ state' = "crashed" /\ tcp' = "closed" /\ udp' = "closed" /\ sourceOpen' = FALSE
      /\ checks' = 0 /\ stale' = 0
      /\ conn' = [c \in Conns |-> "gone"] /\ busy' = [c \in Conns |-> {}]
      /\ UNCHANGED <<starts, arrived, taken, out, asks, zone, edits, datagrams, late>>
      /\ failures' = failures \/ (failures < MaxFailures /\ failures' = failures + 1)
  BY Zenon DEF DatagramFails
<1>2. ServerTypes /\ StreamTypes /\ asks \in [Conns -> Seq(Requests)]
      /\ \A c \in Conns : asks[c] \in Scripts[c]
  BY AllTypes DEF IInv
<1>3. failures' \in 0 .. MaxFailures
  BY <1>1, <1>2, AxfrServerAssumption DEF ServerTypes, AxfrServerAssumption
<1>4. 0 \in 0 .. MaxDatagrams /\ 0 <= datagrams
  BY <1>2, AxfrServerAssumption DEF ServerTypes, AxfrServerAssumption
<1>5. ServerTypes'
  BY <1>1, <1>2, <1>3, <1>4, Zenon DEF ServerTypes
<1>6. /\ conn' \in [Conns -> {"none", "open", "gone"}] /\ busy' \in [Conns -> SUBSET Messages]
      /\ \A c \in Conns : conn'[c] = "gone" /\ busy'[c] = {}
  BY <1>1
<1>7. StreamTypes'
  BY <1>1, <1>2, <1>6 DEF StreamTypes
<1>8. TypeOK'
  BY <1>1, <1>2, <1>5, <1>7, Zenon DEF TypeOK, ServerTypes, StreamTypes
<1>9. \A c \in Conns : StreamFits(c)' /\ RepliesFit(c)'
  BY <1>1, <1>6, StreamLost
<1>10. SocketsFit'
  BY <1>1, <1>4, <1>6 DEF SocketsFit
<1> QED
  BY <1>8, <1>9, <1>10 DEF IInv

-----------------------------------------------------------------------------
LEMMA IInvInit == Init => IInv
<1> SUFFICES ASSUME Init PROVE IInv
  OBVIOUS
<1>1. \A c \in Conns : asks[c] \in Scripts[c] /\ asks[c] \in Seq(Requests)
  BY AxfrServerAssumption DEF Init, AxfrServerAssumption
<1>2. asks \in [Conns -> Seq(Requests)]
  BY <1>1 DEF Init
<1>3. {MaxRequests, MaxDatagrams, MaxEdits, MaxFailures, MaxStarts} \subseteq Nat
  BY AxfrServerAssumption DEF AxfrServerAssumption
<1>4. ServerTypes
  <2>1. /\ edits \in 0 .. MaxEdits /\ failures \in 0 .. MaxFailures
        /\ datagrams \in 0 .. MaxDatagrams /\ starts \in 0 .. MaxStarts
        /\ checks \in 0 .. MaxDatagrams /\ stale \in 0 .. MaxDatagrams
    BY <1>3 DEF Init
  <2>2. /\ zone \in ZoneKinds /\ sourceOpen \in BOOLEAN /\ late \in BOOLEAN
        /\ state = "stopped" /\ tcp = "closed" /\ udp = "closed"
    BY DEF Init, ZoneKinds, Assigned
  <2> QED
    BY <2>1, <2>2 DEF ServerTypes
<1>5. /\ conn = [c \in Conns |-> "none"] /\ arrived = [c \in Conns |-> 0]
      /\ taken = [c \in Conns |-> 0] /\ busy = [c \in Conns |-> {}]
      /\ out = [c \in Conns |-> <<>>]
  BY DEF Init
<1>6. StreamTypes
  BY <1>3, <1>5, EmptySeq DEF StreamTypes
<1>7. ASSUME NEW c \in Conns PROVE StreamFits(c) /\ RepliesFit(c)
  <2>1. /\ conn[c] = "none" /\ arrived[c] = 0 /\ taken[c] = 0 /\ busy[c] = {} /\ out[c] = <<>>
    BY <1>5
  <2>2. Len(out[c]) = 0 /\ Len(asks[c]) \in Nat /\ Complete(0) = 0
    BY <1>1, <2>1, EmptySeq, LenProperties DEF Complete
  <2>3. MessagesOf(out[c]) = {} /\ OnceEach(out[c]) /\ AllAllowed(c, out[c])
    BY <2>2 DEF MessagesOf, OnceEach, AllAllowed
  <2> QED
    BY <2>1, <2>2, <2>3 DEF StreamFits, RepliesFit, Answered
<1>8. SocketsFit
  BY <1>5 DEF Init, SocketsFit
<1> QED
  BY <1>1, <1>2, <1>4, <1>6, <1>7, <1>8, AllTypes DEF IInv

LEMMA IInvStep == IInv /\ [Next]_vars => IInv'
<1> SUFFICES ASSUME IInv, [Next]_vars PROVE IInv'
  OBVIOUS
<1>1. CASE \/ Start \/ SourceConnected \/ Listening \/ Bound
           \/ ConnectFails \/ ListenFails \/ BindFails
  BY <1>1, StartKeeps
<1>2. CASE Stop \/ TcpClosed \/ UdpClosed \/ Disconnected \/ DisconnectFails
  BY <1>2, StopKeeps
<1>3. CASE \E c \in Conns : Accept(c) \/ Gone(c)
  BY <1>3, AcceptKeeps, GoneKeeps
<1>4. CASE \E c \in Conns, k \in 1 .. 2 * MaxRequests : Data(c, k)
  <2>1. PICK c \in Conns, k \in 1 .. 2 * MaxRequests : Data(c, k)
    BY <1>4
  <2>2. k \in Nat
    BY AxfrServerAssumption DEF AxfrServerAssumption
  <2> QED
    BY <2>1, <2>2, DataKeeps
<1>5. CASE \E c \in Conns, m \in Messages : Handled(c, m) \/ HandleFails(c, m)
  BY <1>5, HandledKeeps, HandleFailsKeeps
<1>6. CASE Datagram \/ DatagramHandled \/ Edit
  BY <1>6, DatagramKeeps
<1>7. CASE DatagramFails
  BY <1>7, DatagramFailsKeeps
<1>8. CASE UNCHANGED vars
  <2>1. /\ UNCHANGED <<asks, conn, arrived, taken, busy, out>>
        /\ UNCHANGED <<zone, edits, failures, datagrams, starts, state, tcp, udp, sourceOpen,
                       checks, stale, late>>
    BY <1>8, Zenon DEF vars, serverVars, streamVars, envVars, udpVars
  <2>2. ServerTypes /\ SocketsFit
    BY AllTypes DEF IInv
  <2>3. ServerTypes'
    BY <2>1, <2>2, Zenon DEF ServerTypes
  <2>4. SocketsFit'
    BY <2>1, <2>2, Zenon DEF SocketsFit
  <2> QED
    BY <2>1, <2>3, <2>4, ServerStep
<1> QED
  BY <1>1, <1>2, <1>3, <1>4, <1>5, <1>6, <1>7, <1>8 DEF Next, Lifecycle

(* The invariant the theorems below rest on.                                *)
THEOREM InductiveInvariant == Spec => []IInv
<1> QED
  BY IInvInit, IInvStep, PTL DEF Spec

(* Every variable has its type: no handler of an unknown client awaits the  *)
(* source, and no more UDP queries are awaited than there were.             *)
THEOREM TypeCorrect == Spec => []TypeOK
<1>1. IInv => TypeOK
  BY DEF IInv
<1> QED
  BY <1>1, InductiveInvariant, PTL

(* As many messages as replies, when none is answered twice.                *)
LEMMA RepliesCounted ==
  ASSUME NEW replies \in Seq(Replies), OnceEach(replies)
  PROVE  Cardinality(MessagesOf(replies)) = Len(replies)
<1> DEFINE f == [i \in 1 .. Len(replies) |-> replies[i].message]
<1>1. Len(replies) \in Nat
  BY LenProperties
<1>2. f \in Bijection(1 .. Len(replies), MessagesOf(replies))
  BY DEF Bijection, Injection, Surjection, IsInjective, MessagesOf, OnceEach
<1>3. ExistsBijection(1 .. Len(replies), MessagesOf(replies))
  BY <1>2 DEF ExistsBijection
<1> QED
  BY <1>1, <1>3, FS_CountingElements

(* Of the messages taken from a connection each is answered once, or is     *)
(* with one handler that awaits its answer, or was lost with its            *)
(* connection; and none waits in the buffer of an open connection for the   *)
(* next chunk (axfr-server.js:189-207).                                     *)
THEOREM MessagesAnsweredOnce == Spec => []EachAnswered
<1>1. IInv => EachAnswered
  <2> SUFFICES ASSUME IInv, NEW c \in Conns
               PROVE  LET answered == {out[c][i].message : i \in 1 .. Len(out[c])}
                      IN  /\ Cardinality(answered) = Len(out[c])
                          /\ answered \cap busy[c] = {}
                          /\ answered \cup busy[c] \subseteq 1 .. taken[c]
                          /\ conn[c] = "open" => answered \cup busy[c] = 1 .. taken[c]
                          /\ conn[c] = "open" /\ Complete(arrived[c]) > taken[c] => busy[c] # {}
    BY DEF EachAnswered
  <2> DEFINE answered == {out[c][i].message : i \in 1 .. Len(out[c])}
  <2>1. StreamFits(c) /\ out[c] \in Seq(Replies)
    BY DEF IInv, TypeOK
  <2>2. answered = MessagesOf(out[c]) /\ answered = Answered(c)
    BY DEF MessagesOf, Answered
  <2>3. Cardinality(MessagesOf(out[c])) = Len(out[c])
    BY <2>1, RepliesCounted DEF StreamFits
  <2> HIDE DEF answered
  <2>4. /\ answered \subseteq (1 .. taken[c]) \ busy[c] /\ busy[c] \subseteq 1 .. taken[c]
        /\ conn[c] = "open" => 1 .. taken[c] \subseteq answered \cup busy[c]
        /\ conn[c] = "open" /\ Complete(arrived[c]) > taken[c] => busy[c] # {}
    BY <2>1, <2>2 DEF StreamFits
  <2>5. Cardinality(answered) = Len(out[c])
    BY <2>2, <2>3
  <2> QED
    BY <2>4, <2>5 DEF answered
<1> QED
  BY <1>1, InductiveInvariant, PTL

(* When stop() has returned, no socket is open and no client connected, and *)
(* the source is closed unless a request of a lost connection, or of UDP,   *)
(* still awaited it when it was (axfr-server.js:116-128).                   *)
THEOREM StopLeavesNothing == Spec => []StopReleases
<1>1. IInv => StopReleases
  BY DEF IInv, TypeOK, SocketsFit, StopReleases
<1> QED
  BY <1>1, InductiveInvariant, PTL

-----------------------------------------------------------------------------
(* The messages of a transfer, for a zone of any records. The recursive     *)
(* functions of AxfrServer first: there is a function that each describes.  *)
Iterates(f, b, n, g) == f = [i \in 0 .. n |-> IF i = 0 THEN b ELSE g[<<i, f[i - 1]>>]]

LEMMA Recursion ==
  ASSUME NEW S, NEW b \in S, NEW n \in Nat, NEW g \in [(1 .. n) \X S -> S]
  PROVE  \E f \in [0 .. n -> S] : Iterates(f, b, n, g)
<1> DEFINE Value(f, i) == IF i = 0 THEN b ELSE g[<<i, f[i - 1]>>]
           Runs(f, m)  == f \in [0 .. m -> S] /\ f = [i \in 0 .. m |-> Value(f, i)]
           T           == {m \in Nat : m <= n => \E f : Runs(f, m)}
<1>1. 0 \in T
  <2> DEFINE f == [i \in 0 .. 0 |-> b]
  <2>1. \A i \in 0 .. 0 : i = 0
    OBVIOUS
  <2>2. f \in [0 .. 0 -> S] /\ f = [i \in 0 .. 0 |-> Value(f, i)]
    BY <2>1
  <2> HIDE DEF f
  <2>3. Runs(f, 0)
    BY <2>2
  <2> QED
    BY <2>3
<1>2. ASSUME NEW m \in Nat, m \in T PROVE m + 1 \in T
  <2> SUFFICES ASSUME m + 1 <= n PROVE \E f : Runs(f, m + 1)
    OBVIOUS
  <2>1. PICK f : Runs(f, m)
    BY <1>2
  <2>2. f \in [0 .. m -> S] /\ \A i \in 0 .. m : f[i] = Value(f, i)
    BY <2>1
  <2> DEFINE next == g[<<m + 1, f[m]>>]
             h    == [i \in 0 .. m + 1 |-> IF i = m + 1 THEN next ELSE f[i]]
  <2>3. next \in S
    <3>1. f[m] \in S /\ m + 1 \in 1 .. n
      BY <2>2
    <3> QED
      BY <3>1
  <2> HIDE DEF next
  <2>4. h \in [0 .. m + 1 -> S] /\ h[m + 1] = next
    BY <2>2, <2>3
  <2>5. \A i \in 0 .. m : h[i] = f[i]
    OBVIOUS
  <2> HIDE DEF h
  <2>6. ASSUME NEW i \in 0 .. m + 1 PROVE h[i] = Value(h, i)
    <3>1. CASE i = m + 1
      <4>1. i # 0 /\ i - 1 = m /\ m \in 0 .. m
        BY <3>1
      <4>2. h[i - 1] = f[m]
        BY <2>5, <4>1
      <4> QED
        BY <2>4, <3>1, <4>1, <4>2 DEF next
    <3>2. CASE i # m + 1
      <4>1. i \in 0 .. m /\ (i # 0 => i - 1 \in 0 .. m)
        BY <3>2
      <4>2. h[i] = f[i] /\ (i # 0 => h[i - 1] = f[i - 1])
        BY <2>5, <4>1
      <4> QED
        BY <2>2, <4>1, <4>2
    <3> QED
      BY <3>1, <3>2
  <2> HIDE DEF Value
  <2>7. h = [i \in 0 .. m + 1 |-> Value(h, i)]
    BY <2>4, <2>6
  <2>8. Runs(h, m + 1)
    BY <2>4, <2>7
  <2> HIDE DEF Runs
  <2> QED
    BY <2>8
<1> HIDE DEF T
<1>3. Nat \subseteq T
  BY <1>1, <1>2, Induction
<1>4. n \in T /\ n <= n
  BY <1>3
<1> QED
  BY <1>4 DEF T, Iterates

LEMMA Agree ==
  ASSUME NEW f, NEW h, NEW n \in Nat, f[0] = h[0],
         \A i \in 1 .. n : f[i - 1] = h[i - 1] => f[i] = h[i]
  PROVE  f[n] = h[n]
<1> DEFINE T == {m \in Nat : m <= n => f[m] = h[m]}
<1>1. 0 \in T
  OBVIOUS
<1>2. ASSUME NEW m \in Nat, m \in T PROVE m + 1 \in T
  <2> SUFFICES ASSUME m + 1 <= n PROVE f[m + 1] = h[m + 1]
    OBVIOUS
  <2>1. m + 1 \in 1 .. n /\ m + 1 - 1 = m /\ f[m] = h[m]
    BY <1>2
  <2> QED
    BY <2>1
<1> HIDE DEF T
<1>3. Nat \subseteq T
  BY <1>1, <1>2, Induction
<1>4. n \in T /\ n <= n
  BY <1>3
<1> QED
  BY <1>4 DEF T

(* The size of a message.                                                   *)
IsSum(f, s) ==
  f \in [0 .. Len(s) -> Nat] /\ f[0] = 0 /\ \A i \in 1 .. Len(s) : f[i] = f[i - 1] + s[i]

LEMMA TotalIs ==
  ASSUME NEW s \in Seq(Nat)
  PROVE  (\E f : IsSum(f, s)) /\ \A f : IsSum(f, s) => Total(s) = f[Len(s)]
<1> DEFINE n == Len(s)
           Sums(f) == f = [i \in 0 .. n |-> IF i = 0 THEN 0 ELSE f[i - 1] + s[i]]
<1>1. n \in Nat /\ \A i \in 1 .. n : s[i] \in Nat
  BY LenProperties
<1>2. \E f \in [0 .. n -> Nat] : Sums(f)
  <2> DEFINE g == [p \in (1 .. n) \X Nat |-> p[2] + s[p[1]]]
  <2>1. g \in [(1 .. n) \X Nat -> Nat]
    BY <1>1
  <2>2. \A i \in 1 .. n, x \in Nat : g[<<i, x>>] = x + s[i]
    OBVIOUS
  <2> HIDE DEF g, n
  <2>3. PICK f \in [0 .. n -> Nat] : Iterates(f, 0, n, g)
    BY <1>1, <2>1, Recursion
  <2>4. \A i \in 0 .. n : (i # 0 => i \in 1 .. n /\ i - 1 \in 0 .. n)
    BY <1>1
  <2>5. \A i \in 0 .. n : f[i] = IF i = 0 THEN 0 ELSE f[i - 1] + s[i]
    <3>1. SUFFICES ASSUME NEW i \in 0 .. n
                   PROVE  f[i] = IF i = 0 THEN 0 ELSE f[i - 1] + s[i]
      OBVIOUS
    <3>2. f[i] = IF i = 0 THEN 0 ELSE g[<<i, f[i - 1]>>]
      BY <2>3 DEF Iterates
    <3> QED
      BY <2>2, <2>4, <3>2
  <2>6. Sums(f)
    BY <2>5
  <2> QED
    BY <2>6
<1>3. ASSUME NEW f, Sums(f)
      PROVE  f[0] = 0 /\ \A i \in 1 .. n : f[i] = f[i - 1] + s[i]
  BY <1>1, <1>3
<1>4. \E f : IsSum(f, s)
  BY <1>2, <1>3 DEF IsSum
<1>5. PICK h : Sums(h) /\ Total(s) = h[n]
  <2>1. Total(s) = (CHOOSE f : Sums(f))[n]
    BY Zenon DEF Total
  <2>2. Sums(CHOOSE f : Sums(f))
    BY <1>2, Zenon
  <2> QED
    BY <2>1, <2>2
<1>6. ASSUME NEW f, IsSum(f, s) PROVE Total(s) = f[n]
  <2> HIDE DEF Sums, n
  <2>1. h[0] = 0 /\ \A i \in 1 .. n : h[i] = h[i - 1] + s[i]
    BY <1>3, <1>5
  <2>2. f[0] = h[0] /\ \A i \in 1 .. n : f[i - 1] = h[i - 1] => f[i] = h[i]
    BY <1>6, <2>1 DEF IsSum, n
  <2>3. f[n] = h[n]
    BY <1>1, <2>2, Agree
  <2> QED
    BY <1>5, <2>3
<1> QED
  BY <1>4, <1>6

LEMMA TotalOfOne == \A x \in Nat : Total(<<x>>) = x
<1> SUFFICES ASSUME NEW x \in Nat PROVE Total(<<x>>) = x
  OBVIOUS
<1> DEFINE s == <<x>>
<1>1. s \in Seq(Nat) /\ Len(s) = 1 /\ s[1] = x
  OBVIOUS
<1> HIDE DEF s
<1>2. PICK f : IsSum(f, s)
  BY <1>1, TotalIs
<1>3. Total(s) = f[1]
  BY <1>1, <1>2, TotalIs
<1>4. f[0] = 0 /\ f[1] = f[1 - 1] + s[1]
  BY <1>1, <1>2 DEF IsSum
<1> QED
  BY <1>1, <1>3, <1>4 DEF s

LEMMA TotalOfAppend ==
  ASSUME NEW s \in Seq(Nat), NEW x \in Nat
  PROVE  Total(Append(s, x)) = Total(s) + x /\ Total(s) \in Nat
<1> DEFINE t == Append(s, x)
           n == Len(s)
<1>1. /\ t \in Seq(Nat) /\ Len(t) = n + 1 /\ n \in Nat /\ t[n + 1] = x
      /\ \A i \in 1 .. n : t[i] = s[i]
  BY AppendProperties, LenProperties
<1> HIDE DEF t
<1>2. PICK f : IsSum(f, s)
  BY TotalIs
<1>3. f \in [0 .. n -> Nat] /\ f[0] = 0 /\ \A i \in 1 .. n : f[i] = f[i - 1] + s[i]
  BY <1>2 DEF IsSum
<1>4. Total(s) = f[n]
  BY <1>2, TotalIs
<1> DEFINE h == [i \in 0 .. n + 1 |-> IF i = n + 1 THEN f[n] + x ELSE f[i]]
<1> HIDE DEF n
<1>5. f[n] \in Nat
  BY <1>1, <1>3
<1>6. h \in [0 .. n + 1 -> Nat] /\ h[n + 1] = f[n] + x /\ \A i \in 0 .. n : h[i] = f[i]
  BY <1>1, <1>3, <1>5
<1> HIDE DEF h
<1>7. h[0] = 0
  BY <1>1, <1>3, <1>6
<1>8. ASSUME NEW i \in 1 .. n + 1 PROVE h[i] = h[i - 1] + t[i]
  <2>1. CASE i = n + 1
    <3>1. i - 1 = n /\ n \in 0 .. n
      BY <1>1, <2>1
    <3> QED
      BY <1>1, <1>6, <2>1, <3>1
  <2>2. CASE i # n + 1
    <3>1. i \in 1 .. n /\ i \in 0 .. n /\ i - 1 \in 0 .. n
      BY <1>1, <2>2
    <3> QED
      BY <1>1, <1>3, <1>6, <3>1
  <2> QED
    BY <2>1, <2>2
<1>9. IsSum(h, t)
  BY <1>1, <1>6, <1>7, <1>8 DEF IsSum
<1>10. Total(t) = h[n + 1]
  BY <1>1, <1>9, TotalIs
<1> QED
  BY <1>4, <1>5, <1>6, <1>10 DEF t

(* The records of a transfer, over its messages.                            *)
IsJoin(f, s) ==
  f \in [0 .. Len(s) -> Seq(Nat)] /\ f[0] = <<>> /\ \A i \in 1 .. Len(s) : f[i] = f[i - 1] \o s[i]

LEMMA JoinExists ==
  ASSUME NEW s \in Seq(Seq(Nat)) PROVE \E f : IsJoin(f, s)
<1> DEFINE n == Len(s)
           g == [p \in (1 .. n) \X Seq(Nat) |-> p[2] \o s[p[1]]]
<1>1. n \in Nat /\ (\A i \in 1 .. n : s[i] \in Seq(Nat)) /\ <<>> \in Seq(Nat)
  BY LenProperties, EmptySeq
<1>2. \A i \in 1 .. n, x \in Seq(Nat) : g[<<i, x>>] = x \o s[i] /\ g[<<i, x>>] \in Seq(Nat)
  <2>1. SUFFICES ASSUME NEW i \in 1 .. n, NEW x \in Seq(Nat)
                 PROVE  g[<<i, x>>] = x \o s[i] /\ g[<<i, x>>] \in Seq(Nat)
    OBVIOUS
  <2>2. g[<<i, x>>] = x \o s[i]
    OBVIOUS
  <2>3. x \o s[i] \in Seq(Nat)
    BY <1>1, ConcatProperties
  <2> QED
    BY <2>2, <2>3
<1>3. g \in [(1 .. n) \X Seq(Nat) -> Seq(Nat)]
  <2>1. \A p \in (1 .. n) \X Seq(Nat) : p[2] \o s[p[1]] \in Seq(Nat)
    <3>1. SUFFICES ASSUME NEW p \in (1 .. n) \X Seq(Nat) PROVE p[2] \o s[p[1]] \in Seq(Nat)
      OBVIOUS
    <3>2. p[2] \in Seq(Nat) /\ s[p[1]] \in Seq(Nat)
      BY <1>1
    <3> QED
      BY <3>2, ConcatProperties
  <2> QED
    BY <2>1
<1> HIDE DEF g, n
<1>4. PICK f \in [0 .. n -> Seq(Nat)] : Iterates(f, <<>>, n, g)
  BY <1>1, <1>3, Recursion
<1>5. f[0] = <<>>
  BY <1>1, <1>4 DEF Iterates
<1>6. ASSUME NEW i \in 1 .. n PROVE f[i] = f[i - 1] \o s[i]
  <2>1. i \in 0 .. n /\ i - 1 \in 0 .. n /\ i # 0
    BY <1>1
  <2>2. f[i] = g[<<i, f[i - 1]>>]
    BY <1>4, <2>1 DEF Iterates
  <2> QED
    BY <1>2, <2>1, <2>2
<1> QED
  BY <1>5, <1>6 DEF IsJoin, n

LEMMA JoinIs ==
  ASSUME NEW s \in Seq(Seq(Nat)), NEW f, IsJoin(f, s) PROVE FlattenSeq(s) = f[Len(s)]
<1> DEFINE n == Len(s)
           Flat(h) == h = [i \in 1 .. n |-> IF i = 1 THEN s[i] ELSE h[i - 1] \o s[i]]
<1>1. n \in Nat /\ \A i \in 1 .. n : s[i] \in Seq(Nat)
  BY LenProperties
<1>2. /\ f \in [0 .. n -> Seq(Nat)] /\ f[0] = <<>>
      /\ \A i \in 1 .. n : f[i] = f[i - 1] \o s[i]
  BY DEF IsJoin
<1>3. CASE n = 0
  <2>1. FlattenSeq(s) = s
    BY <1>3 DEF FlattenSeq
  <2>2. s = <<>>
    BY <1>3, EmptySeq
  <2> QED
    BY <1>2, <1>3, <2>1, <2>2
<1>4. CASE n # 0
  <2>1. FlattenSeq(s) = (CHOOSE h : Flat(h))[n]
    BY <1>4, Zenon DEF FlattenSeq
  <2>2. \E h : Flat(h)
    <3> DEFINE h == [i \in 1 .. n |-> f[i]]
    <3>1. ASSUME NEW i \in 1 .. n PROVE h[i] = IF i = 1 THEN s[i] ELSE h[i - 1] \o s[i]
      <4>1. CASE i = 1
        <5>1. i - 1 = 0
          BY <4>1
        <5>2. f[i] = f[i - 1] \o s[i] /\ f[i - 1] = <<>> /\ s[i] \in Seq(Nat)
          BY <1>1, <1>2, <5>1
        <5>3. f[i] = s[i]
          BY <5>2, ConcatEmptySeq
        <5> QED
          BY <4>1, <5>3
      <4>2. CASE i # 1
        <5>1. i - 1 \in 1 .. n
          BY <1>1, <4>2
        <5> QED
          BY <1>2, <4>2, <5>1
      <4> QED
        BY <4>1, <4>2
    <3>2. h = [i \in 1 .. n |-> h[i]]
      OBVIOUS
    <3> HIDE DEF h
    <3>3. Flat(h)
      BY <3>1, <3>2
    <3> HIDE DEF Flat
    <3> QED
      BY <3>3
  <2>3. PICK h : Flat(h) /\ FlattenSeq(s) = h[n]
    <3> HIDE DEF Flat
    <3>1. Flat(CHOOSE h : Flat(h))
      BY <2>2, Zenon
    <3> QED
      BY <2>1, <3>1
  <2>4. \A i \in 1 .. n : h[i] = IF i = 1 THEN s[i] ELSE h[i - 1] \o s[i]
    <3>1. h = [i \in 1 .. n |-> IF i = 1 THEN s[i] ELSE h[i - 1] \o s[i]]
      BY <2>3
    <3> QED
      BY <3>1
  <2> DEFINE k == [i \in 0 .. n |-> IF i = 0 THEN <<>> ELSE h[i]]
  <2>5. k[0] = <<>> /\ k[n] = h[n] /\ \A i \in 1 .. n : k[i] = h[i] /\ (i # 1 => k[i - 1] = h[i - 1])
    BY <1>1, <1>4
  <2> HIDE DEF k
  <2>6. ASSUME NEW i \in 1 .. n, f[i - 1] = k[i - 1] PROVE f[i] = k[i]
    <3>1. f[i] = f[i - 1] \o s[i] /\ k[i] = h[i]
      BY <1>2, <2>5
    <3>2. CASE i = 1
      <4>1. f[i] = s[i]
        BY <1>1, <1>2, <3>1, <3>2, ConcatEmptySeq
      <4> QED
        BY <2>4, <3>1, <3>2, <4>1
    <3>3. CASE i # 1
      BY <2>4, <2>5, <2>6, <3>1, <3>3
    <3> QED
      BY <3>2, <3>3
  <2> HIDE DEF n
  <2>7. f[0] = k[0] /\ \A i \in 1 .. n : f[i - 1] = k[i - 1] => f[i] = k[i]
    BY <1>2, <2>5, <2>6
  <2>8. f[n] = k[n]
    BY <1>1, <2>7, Agree
  <2> QED
    BY <2>3, <2>5, <2>8 DEF n
<1> QED
  BY <1>3, <1>4

LEMMA FlattenAppend ==
  ASSUME NEW s \in Seq(Seq(Nat)), NEW b \in Seq(Nat)
  PROVE  /\ FlattenSeq(s) \in Seq(Nat)
         /\ FlattenSeq(Append(s, b)) = FlattenSeq(s) \o b
<1> DEFINE t == Append(s, b)
           n == Len(s)
<1>1. /\ t \in Seq(Seq(Nat)) /\ Len(t) = n + 1 /\ n \in Nat /\ t[n + 1] = b
      /\ \A i \in 1 .. n : t[i] = s[i]
  BY AppendProperties, LenProperties
<1> HIDE DEF t
<1>2. PICK f : IsJoin(f, s)
  BY JoinExists
<1>3. /\ f \in [0 .. n -> Seq(Nat)] /\ f[0] = <<>>
      /\ \A i \in 1 .. n : f[i] = f[i - 1] \o s[i]
  BY <1>2 DEF IsJoin
<1>4. FlattenSeq(s) = f[n]
  BY <1>2, JoinIs
<1> DEFINE last == f[n] \o b
           h    == [i \in 0 .. n + 1 |-> IF i = n + 1 THEN last ELSE f[i]]
<1> HIDE DEF n
<1>5. f[n] \in Seq(Nat)
  BY <1>1, <1>3
<1>6. last \in Seq(Nat)
  BY <1>5, ConcatProperties
<1> HIDE DEF last
<1>7. h \in [0 .. n + 1 -> Seq(Nat)] /\ h[n + 1] = last /\ \A i \in 0 .. n : h[i] = f[i]
  BY <1>1, <1>3, <1>6
<1> HIDE DEF h
<1>8. h[0] = <<>>
  BY <1>1, <1>3, <1>7
<1>9. ASSUME NEW i \in 1 .. n + 1 PROVE h[i] = h[i - 1] \o t[i]
  <2>1. CASE i = n + 1
    <3>1. i - 1 = n /\ n \in 0 .. n
      BY <1>1, <2>1
    <3> QED
      BY <1>1, <1>7, <2>1, <3>1 DEF last
  <2>2. CASE i # n + 1
    <3>1. i \in 1 .. n /\ i \in 0 .. n /\ i - 1 \in 0 .. n
      BY <1>1, <2>2
    <3> QED
      BY <1>1, <1>3, <1>7, <3>1
  <2> QED
    BY <2>1, <2>2
<1>10. IsJoin(h, t)
  BY <1>1, <1>7, <1>8, <1>9 DEF IsJoin
<1>11. FlattenSeq(t) = h[n + 1]
  BY <1>1, <1>10, JoinIs
<1> QED
  BY <1>4, <1>5, <1>7, <1>11 DEF t, last

(* The messages that are full, and the one that is being filled.            *)
Parts  == [sent : Seq(Seq(Nat)), batch : Seq(Nat), size : Nat]
AllKeep(sent) == \A p \in 1 .. Len(sent) : KeepsToLimit(sent[p])
Holds(parts)  == FlattenSeq(parts.sent) \o parts.batch
Fit == {parts \in Parts : /\ parts.size = Total(parts.batch)
                          /\ AllKeep(parts.sent)
                          /\ parts.batch = <<>> \/ KeepsToLimit(parts.batch)}

LEMMA FlattenEmpty == FlattenSeq(<<>>) = <<>> /\ Total(<<>>) = 0
<1>1. <<>> \in Seq(Seq(Nat)) /\ <<>> \in Seq(Nat) /\ Len(<<>>) = 0
  OBVIOUS
<1>2. PICK f : IsSum(f, <<>>)
  BY <1>1, TotalIs
<1>3. Total(<<>>) = f[0]
  BY <1>1, <1>2, TotalIs
<1>4. f[0] = 0
  BY <1>2 DEF IsSum
<1>5. PICK g : IsJoin(g, <<>>)
  BY <1>1, JoinExists
<1>6. FlattenSeq(<<>>) = g[0]
  BY <1>1, <1>5, JoinIs
<1>7. g[0] = <<>>
  BY <1>5 DEF IsJoin
<1> QED
  BY <1>3, <1>4, <1>6, <1>7

LEMMA AddedFits ==
  ASSUME NEW parts \in Fit, NEW cost \in Nat
  PROVE  /\ Added(parts, cost) \in Fit
         /\ Added(parts, cost).batch # <<>>
         /\ Holds(Added(parts, cost)) = Append(Holds(parts), cost)
<1> DEFINE next  == Added(parts, cost)
           sent  == parts.sent
           batch == parts.batch
           size  == parts.size
           flat  == FlattenSeq(sent)
<1>1. /\ sent \in Seq(Seq(Nat)) /\ batch \in Seq(Nat) /\ size \in Nat
      /\ size = Total(batch) /\ AllKeep(sent)
      /\ batch = <<>> \/ KeepsToLimit(batch)
  BY DEF Fit, Parts
<1>2. flat \in Seq(Nat)
  BY <1>1, FlattenAppend
<1>3. <<cost>> \in Seq(Nat) /\ Len(<<cost>>) = 1 /\ <<cost>> # <<>> /\ Total(<<cost>>) = cost
  BY TotalOfOne
<1>4. CASE Flush(parts, cost)
  <2>1. next = [sent |-> Append(sent, batch), batch |-> <<cost>>, size |-> cost]
    BY <1>4 DEF Added
  <2>2. batch # <<>>
    BY <1>4 DEF Flush
  <2> HIDE DEF next, sent, batch, size
  <2>3. next.sent = Append(sent, batch) /\ next.batch = <<cost>> /\ next.size = cost
    BY <2>1
  <2>4. /\ Append(sent, batch) \in Seq(Seq(Nat)) /\ Len(Append(sent, batch)) = Len(sent) + 1
        /\ Append(sent, batch)[Len(sent) + 1] = batch
        /\ \A p \in 1 .. Len(sent) : Append(sent, batch)[p] = sent[p]
    BY <1>1, AppendProperties
  <2>5. Len(sent) \in Nat
    BY <1>1, LenProperties
  <2>6. AllKeep(Append(sent, batch))
    <3>1. SUFFICES ASSUME NEW p \in 1 .. Len(sent) + 1
                   PROVE  KeepsToLimit(Append(sent, batch)[p])
      BY <2>4 DEF AllKeep
    <3>2. CASE p = Len(sent) + 1
      BY <1>1, <2>2, <2>4, <3>2
    <3>3. CASE p # Len(sent) + 1
      <4>1. p \in 1 .. Len(sent)
        BY <2>5, <3>3
      <4> QED
        BY <1>1, <2>4, <4>1 DEF AllKeep
    <3> QED
      BY <3>2, <3>3
  <2>7. KeepsToLimit(<<cost>>)
    BY <1>3 DEF KeepsToLimit
  <2>8. next \in Parts
    BY <1>3, <2>1, <2>4 DEF Parts
  <2>9. next \in Fit
    BY <1>3, <2>3, <2>6, <2>7, <2>8, Zenon DEF Fit
  <2>10. FlattenSeq(next.sent) = flat \o batch
    BY <1>1, <2>3, FlattenAppend DEF sent
  <2>11. Holds(parts) = flat \o batch /\ Holds(next) = (flat \o batch) \o <<cost>>
    BY <2>3, <2>10 DEF Holds, sent, batch
  <2>12. flat \o batch \in Seq(Nat)
    BY <1>1, <1>2, ConcatProperties
  <2> HIDE DEF flat
  <2>13. (flat \o batch) \o <<cost>> = Append(flat \o batch, cost)
    BY <2>12, AppendIsConcat
  <2> QED
    BY <1>3, <2>3, <2>9, <2>11, <2>13 DEF next
<1>5. CASE ~Flush(parts, cost)
  <2>1. next = [sent |-> sent, batch |-> Append(batch, cost), size |-> size + cost]
    BY <1>5 DEF Added
  <2>2. batch = <<>> \/ size + cost <= MaxMessageSize
    BY <1>1, <1>5 DEF Flush, MaxMessageSize
  <2> HIDE DEF next, sent, batch, size
  <2>3. next.sent = sent /\ next.batch = Append(batch, cost) /\ next.size = size + cost
    BY <2>1
  <2>4. Append(batch, cost) \in Seq(Nat) /\ Len(Append(batch, cost)) = Len(batch) + 1
    BY <1>1, AppendProperties
  <2>5. Len(batch) \in Nat
    BY <1>1, LenProperties
  <2>6. Append(batch, cost) # <<>>
    BY <2>4, <2>5
  <2>7. Total(Append(batch, cost)) = size + cost
    BY <1>1, TotalOfAppend
  <2>8. KeepsToLimit(Append(batch, cost))
    <3>1. batch = <<>> => Len(Append(batch, cost)) = 1
      BY <2>4
    <3> QED
      BY <2>2, <2>6, <2>7, <3>1 DEF KeepsToLimit
  <2>9. next \in Parts
    BY <1>1, <2>1, <2>4 DEF Parts
  <2>10. next \in Fit
    BY <1>1, <2>3, <2>7, <2>8, <2>9, Zenon DEF Fit
  <2>11. Holds(parts) = flat \o batch /\ Holds(next) = flat \o Append(batch, cost)
    BY <2>3 DEF Holds, sent, batch
  <2> HIDE DEF flat
  <2>12. flat \o Append(batch, cost) = Append(flat \o batch, cost)
    BY <1>1, <1>2
  <2> QED
    BY <2>3, <2>6, <2>10, <2>11, <2>12 DEF next
<1> QED
  BY <1>4, <1>5

(* _sendTransfer() sends every record of the list it is given, in order     *)
(* between two SOA records, and no message of it is empty or, unless it is  *)
(* a single record, over the limit (axfr-server.js:289-310).                *)
THEOREM BatchesAreWhole ==
  ASSUME NEW sizes \in Seq(Nat)
  PROVE  /\ FlattenSeq(Batches(sizes)) = <<SoaSize>> \o sizes \o <<SoaSize>>
         /\ AllKeep(Batches(sizes))
<1> DEFINE all     == <<SoaSize>> \o sizes \o <<SoaSize>>
           n       == Len(all)
           first   == [sent |-> <<>>, batch |-> <<>>, size |-> 0]
           Adds(f) == f = [i \in 0 .. n |-> IF i = 0 THEN first ELSE Added(f[i - 1], all[i])]
<1>1. all \in Seq(Nat) /\ n \in Nat /\ n # 0
  <2>1. <<SoaSize>> \in Seq(Nat) /\ Len(<<SoaSize>>) = 1
    BY DEF SoaSize
  <2>2. <<SoaSize>> \o sizes \in Seq(Nat) /\ Len(<<SoaSize>> \o sizes) = 1 + Len(sizes)
    BY <2>1, ConcatProperties
  <2>3. all \in Seq(Nat) /\ n = Len(<<SoaSize>> \o sizes) + 1
    BY <2>1, <2>2, ConcatProperties
  <2>4. Len(sizes) \in Nat
    BY LenProperties
  <2> QED
    BY <2>2, <2>3, <2>4
<1>2. Batches(sizes) = Append((CHOOSE f : Adds(f))[n].sent, (CHOOSE f : Adds(f))[n].batch)
  BY Zenon DEF Batches
<1> HIDE DEF all, n
<1>3. \A i \in 1 .. n : all[i] \in Nat
  BY <1>1, LenProperties DEF n
<1>4. first \in Fit /\ Holds(first) = <<>>
  <2>1. first \in Parts
    BY DEF Parts
  <2>2. AllKeep(<<>>)
    BY DEF AllKeep
  <2>3. first.sent = <<>> /\ first.batch = <<>> /\ first.size = 0
    OBVIOUS
  <2> HIDE DEF first
  <2>4. first \in Fit
    BY <2>1, <2>2, <2>3, FlattenEmpty DEF Fit
  <2>5. FlattenSeq(first.sent) = <<>>
    BY <2>3, FlattenEmpty
  <2>6. Holds(first) = <<>> \o <<>>
    BY <2>3, <2>5 DEF Holds
  <2> QED
    BY <2>4, <2>6
<1> HIDE DEF first
<1> DEFINE g == [p \in (1 .. n) \X Fit |-> Added(p[2], all[p[1]])]
<1>5. g \in [(1 .. n) \X Fit -> Fit]
  <2>1. ASSUME NEW p \in (1 .. n) \X Fit PROVE Added(p[2], all[p[1]]) \in Fit
    <3>1. p[2] \in Fit /\ all[p[1]] \in Nat
      BY <1>3
    <3> QED
      BY <3>1, AddedFits
  <2> QED
    BY <2>1
<1>6. \A i \in 1 .. n, x \in Fit : g[<<i, x>>] = Added(x, all[i])
  OBVIOUS
<1> HIDE DEF g
<1>7. PICK f \in [0 .. n -> Fit] : Iterates(f, first, n, g)
  BY <1>1, <1>4, <1>5, Recursion
<1>8. f[0] = first
  BY <1>1, <1>7 DEF Iterates
<1>9. \A i \in 1 .. n : i \in 0 .. n /\ i - 1 \in 0 .. n /\ i # 0
  BY <1>1
<1>10. \A i \in 1 .. n : f[i] = Added(f[i - 1], all[i]) /\ f[i - 1] \in Fit
  <2>1. ASSUME NEW i \in 1 .. n PROVE f[i] = Added(f[i - 1], all[i]) /\ f[i - 1] \in Fit
    <3>1. f[i] = g[<<i, f[i - 1]>>]
      BY <1>7, <1>9 DEF Iterates
    <3> QED
      BY <1>6, <1>7, <1>9, <3>1
  <2> QED
    BY <2>1
<1>11. \E h : Adds(h)
  <2>1. \A i \in 0 .. n : f[i] = IF i = 0 THEN first ELSE Added(f[i - 1], all[i])
    <3>1. \A i \in 0 .. n : i # 0 => i \in 1 .. n
      BY <1>1
    <3> QED
      BY <1>8, <1>10, <3>1
  <2>2. f = [i \in 0 .. n |-> f[i]]
    BY <1>7
  <2>3. Adds(f)
    BY <2>1, <2>2
  <2> QED
    BY <2>3
<1>12. PICK h : Adds(h) /\ Batches(sizes) = Append(h[n].sent, h[n].batch)
  <2> HIDE DEF Adds
  <2>1. Adds(CHOOSE h : Adds(h))
    BY <1>11, Zenon
  <2> QED
    BY <1>2, <2>1
<1>13. h[n] = f[n]
  <2>1. h[0] = first /\ \A i \in 1 .. n : h[i] = Added(h[i - 1], all[i])
    BY <1>1, <1>9, <1>12
  <2>2. h[0] = f[0] /\ \A i \in 1 .. n : h[i - 1] = f[i - 1] => h[i] = f[i]
    BY <1>8, <1>10, <2>1
  <2> QED
    BY <1>1, <2>2, Agree
(* What the messages hold so far is what has been added.                    *)
<1>14. Holds(f[n]) = all
  <2> DEFINE held == [i \in 0 .. n |-> Holds(f[i])]
             part == [i \in 0 .. n |-> SubSeq(all, 1, i)]
  <2>1. held[0] = part[0]
    <3>1. SubSeq(all, 1, 0) = <<>>
      BY <1>1, SubSeqEmpty
    <3> QED
      BY <1>1, <1>4, <1>8, <3>1
  <2>2. ASSUME NEW i \in 1 .. n, held[i - 1] = part[i - 1] PROVE held[i] = part[i]
    <3>1. Holds(f[i]) = Append(Holds(f[i - 1]), all[i])
      BY <1>3, <1>10, AddedFits
    <3>2. SubSeq(all, 1, i) = Append(SubSeq(all, 1, i - 1), all[i])
      <4>1. SubSeq(all, 1, i) = SubSeq(all, 1, i - 1) \o <<all[i]>>
        BY <1>1, SubSeqRecursiveSecond DEF n
      <4>2. SubSeq(all, 1, i - 1) \in Seq(Nat) /\ all[i] \in Nat
        BY <1>1, <1>3, SubSeqProperties DEF n
      <4> QED
        BY <4>1, <4>2, AppendIsConcat
    <3>3. Holds(f[i - 1]) = SubSeq(all, 1, i - 1)
      BY <1>9, <2>2
    <3> QED
      BY <1>9, <3>1, <3>2, <3>3
  <2> HIDE DEF held, part
  <2>3. held[n] = part[n]
    BY <1>1, <2>1, <2>2, Agree
  <2>4. part[n] = all
    <3>1. SubSeq(all, 1, Len(all)) = all
      BY <1>1, SubSeqFull
    <3> QED
      BY <1>1, <3>1 DEF part, n
  <2> QED
    BY <1>1, <2>3, <2>4 DEF held
<1> DEFINE last == f[n]
<1>15. last \in Fit /\ last.batch # <<>>
  <2>1. n \in 1 .. n
    BY <1>1
  <2>2. last = Added(f[n - 1], all[n]) /\ f[n - 1] \in Fit /\ all[n] \in Nat
    BY <1>3, <1>10, <2>1
  <2> QED
    BY <2>2, AddedFits
<1>16. Batches(sizes) = Append(last.sent, last.batch) /\ Holds(last) = all
  BY <1>12, <1>13, <1>14
<1> HIDE DEF last
<1>17. /\ last.sent \in Seq(Seq(Nat)) /\ last.batch \in Seq(Nat)
       /\ AllKeep(last.sent) /\ KeepsToLimit(last.batch)
  BY <1>15 DEF Fit, Parts
<1>18. FlattenSeq(Batches(sizes)) = all
  BY <1>16, <1>17, FlattenAppend DEF Holds
<1>19. AllKeep(Batches(sizes))
  <2>1. /\ Len(Append(last.sent, last.batch)) = Len(last.sent) + 1 /\ Len(last.sent) \in Nat
        /\ Append(last.sent, last.batch)[Len(last.sent) + 1] = last.batch
        /\ \A p \in 1 .. Len(last.sent) : Append(last.sent, last.batch)[p] = last.sent[p]
    BY <1>17, AppendProperties, LenProperties
  <2>2. \A p \in 1 .. Len(last.sent) + 1 : p # Len(last.sent) + 1 => p \in 1 .. Len(last.sent)
    BY <2>1
  <2> QED
    BY <1>16, <1>17, <2>1, <2>2 DEF AllKeep
<1> QED
  BY <1>18, <1>19 DEF all

(* The records of a zone, in the order of the source.                       *)
Records    == [kind : {"live", "deleted", "soa"}, size : Nat]
Kept(rows) == {j \in DOMAIN rows : rows[j].kind \notin {"deleted", "soa"}}
Upto(rows, i) == Cardinality({k \in Kept(rows) : k <= i})

LEMMA UptoIs ==
  ASSUME NEW rows \in Seq(Records)
  PROVE  /\ Upto(rows, 0) = 0
         /\ Upto(rows, Len(rows)) = Cardinality(Kept(rows))
         /\ \A i \in 1 .. Len(rows) :
              /\ Upto(rows, i - 1) \in Nat
              /\ Upto(rows, i) = Upto(rows, i - 1) + (IF i \in Kept(rows) THEN 1 ELSE 0)
<1> DEFINE kept    == Kept(rows)
           till(i) == {k \in kept : k <= i}
<1>1. Len(rows) \in Nat /\ kept \subseteq 1 .. Len(rows)
  BY LenProperties DEF Kept
<1>2. IsFiniteSet(kept)
  <2>1. IsFiniteSet(1 .. Len(rows))
    BY <1>1, FS_Interval
  <2> QED
    BY <1>1, <2>1, FS_Subset
<1> HIDE DEF kept
<1>3. till(0) = {} /\ till(Len(rows)) = kept
  <2>1. \A k \in kept : ~(k <= 0) /\ k <= Len(rows)
    BY <1>1
  <2> QED
    BY <2>1, Zenon
<1>4. \A i \in 1 .. Len(rows) : till(i) = IF i \in kept THEN till(i - 1) \cup {i} ELSE till(i - 1)
  <2>1. ASSUME NEW i \in 1 .. Len(rows)
        PROVE  till(i) = IF i \in kept THEN till(i - 1) \cup {i} ELSE till(i - 1)
    <3>1. \A k \in kept : k <= i <=> (k <= i - 1 \/ k = i)
      BY <1>1
    <3>2. \A k : k \in till(i) <=> k \in till(i - 1) \/ (k \in kept /\ k = i)
      BY <3>1, <1>1
    <3> QED
      BY <3>2
  <2> QED
    BY <2>1
<1>5. \A i \in 1 .. Len(rows) : i \notin till(i - 1)
  OBVIOUS
<1>6. \A i \in Nat : IsFiniteSet(till(i)) /\ Cardinality(till(i)) \in Nat
  BY <1>2, FS_Subset, FS_CardinalityType
<1>7. \A i : Upto(rows, i) = Cardinality(till(i))
  BY DEF Upto, kept
<1> HIDE DEF till
<1>8. \A i \in 1 .. Len(rows) : i - 1 \in Nat
  OBVIOUS
<1>9. ASSUME NEW i \in 1 .. Len(rows)
      PROVE  /\ Upto(rows, i - 1) \in Nat
             /\ Upto(rows, i) = Upto(rows, i - 1) + (IF i \in kept THEN 1 ELSE 0)
  <2>1. i \in kept => Cardinality(till(i - 1) \cup {i}) = Cardinality(till(i - 1)) + 1
    BY <1>5, <1>6, <1>8, FS_AddElement
  <2>2. Cardinality(till(i - 1)) \in Nat
    BY <1>6, <1>8
  <2>3. Upto(rows, i - 1) = Cardinality(till(i - 1)) /\ Upto(rows, i) = Cardinality(till(i))
    BY <1>7
  <2>4. CASE i \in kept
    <3>1. till(i) = till(i - 1) \cup {i}
      BY <1>4, <2>4
    <3> QED
      BY <2>1, <2>2, <2>3, <2>4, <3>1
  <2>5. CASE i \notin kept
    <3>1. till(i) = till(i - 1)
      BY <1>4, <2>5
    <3> QED
      BY <2>2, <2>3, <2>5, <3>1
  <2> QED
    BY <2>4, <2>5
<1>10. Upto(rows, 0) = 0 /\ Upto(rows, Len(rows)) = Cardinality(kept)
  BY <1>3, <1>7, FS_EmptySet
<1> QED
  BY <1>9, <1>10 DEF kept

Lists(rows, i, sizes) ==
  /\ sizes \in Seq(Nat)
  /\ Len(sizes) = Upto(rows, i)
  /\ \A j \in Kept(rows) : j <= i => /\ Upto(rows, j) \in 1 .. Upto(rows, i)
                                     /\ sizes[Upto(rows, j)] = rows[j].size

LEMMA ListsNext ==
  ASSUME NEW rows \in Seq(Records), NEW i \in 1 .. Len(rows), NEW sizes,
         Lists(rows, i - 1, sizes)
  PROVE  Lists(rows, i, sizes \o (IF rows[i].kind = "live" THEN <<rows[i].size>> ELSE <<>>))
<1> DEFINE kept == Kept(rows)
           u(j) == Upto(rows, j)
<1>1. /\ rows[i] \in Records /\ Len(rows) \in Nat /\ i \in Nat
      /\ kept \subseteq 1 .. Len(rows)
      /\ i \in kept <=> rows[i].kind = "live"
  <2>1. rows[i] \in Records /\ Len(rows) \in Nat /\ DOMAIN rows = 1 .. Len(rows)
    BY LenProperties
  <2>2. rows[i].kind \in {"live", "deleted", "soa"}
    BY <2>1 DEF Records
  <2>3. i \in kept <=> rows[i].kind = "live"
    BY <2>1, <2>2 DEF Kept
  <2> QED
    BY <2>1, <2>3 DEF Kept
<1>2. rows[i].size \in Nat
  BY <1>1 DEF Records
<1>3. u(i - 1) \in Nat /\ u(i) = u(i - 1) + (IF i \in kept THEN 1 ELSE 0)
  BY UptoIs
<1>4. /\ sizes \in Seq(Nat) /\ Len(sizes) = u(i - 1)
      /\ \A j \in kept : j <= i - 1 => u(j) \in 1 .. u(i - 1) /\ sizes[u(j)] = rows[j].size
  BY DEF Lists
<1> HIDE DEF kept, u
<1>5. \A j \in kept : j <= i => j <= i - 1 \/ j = i
  BY <1>1
<1>6. CASE i \in kept
  <2> DEFINE more == sizes \o <<rows[i].size>>
  <2>1. <<rows[i].size>> \in Seq(Nat) /\ Len(<<rows[i].size>>) = 1
    BY <1>2
  <2>2. /\ more \in Seq(Nat) /\ Len(more) = u(i - 1) + 1
        /\ \A k \in 1 .. u(i - 1) : more[k] = sizes[k]
        /\ more[u(i - 1) + 1] = rows[i].size
    <3>1. Append(sizes, rows[i].size) = more
      BY <1>2, <1>4, AppendIsConcat
    <3> QED
      BY <1>2, <1>4, <3>1, AppendProperties
  <2> HIDE DEF more
  <2>3. u(i) = u(i - 1) + 1
    BY <1>3, <1>6
  <2>4. ASSUME NEW j \in kept, j <= i PROVE u(j) \in 1 .. u(i) /\ more[u(j)] = rows[j].size
    <3>1. CASE j = i
      BY <1>3, <2>2, <2>3, <3>1
    <3>2. CASE j <= i - 1
      <4>1. u(j) \in 1 .. u(i - 1) /\ sizes[u(j)] = rows[j].size
        BY <1>4, <3>2
      <4>2. u(j) \in 1 .. u(i)
        BY <1>3, <2>3, <4>1
      <4> QED
        BY <2>2, <4>1, <4>2
    <3> QED
      BY <1>5, <2>4, <3>1, <3>2
  <2>5. Lists(rows, i, more)
    BY <2>2, <2>3, <2>4 DEF Lists, u, kept
  <2> QED
    BY <1>1, <1>6, <2>5 DEF more
<1>7. CASE i \notin kept
  <2>1. sizes \o <<>> = sizes
    BY <1>4, ConcatEmptySeq
  <2>2. u(i) = u(i - 1)
    BY <1>3, <1>7
  <2>3. \A j \in kept : j <= i => j <= i - 1
    BY <1>5, <1>7
  <2>4. Lists(rows, i, sizes)
    BY <1>4, <2>2, <2>3 DEF Lists, u, kept
  <2> QED
    BY <1>1, <1>7, <2>1, <2>4
<1> QED
  BY <1>6, <1>7

LEMMA LiveSizesLists ==
  ASSUME NEW rows \in Seq(Records) PROVE Lists(rows, Len(rows), LiveSizes(rows))
<1> DEFINE n       == Len(rows)
           own(i)  == IF rows[i].kind = "live" THEN <<rows[i].size>> ELSE <<>>
           Adds(f) == f = [i \in 0 .. n |-> IF i = 0 THEN <<>> ELSE f[i - 1] \o own(i)]
<1>1. n \in Nat /\ \A i \in 1 .. n : own(i) \in Seq(Nat)
  <2>1. n \in Nat /\ \A i \in 1 .. n : rows[i] \in Records
    BY LenProperties
  <2>2. \A r \in Records : r.size \in Nat
    BY DEF Records
  <2> QED
    BY <2>1, <2>2
<1>2. LiveSizes(rows) = (CHOOSE f : Adds(f))[n]
  BY Zenon DEF LiveSizes
<1> HIDE DEF n, own
<1> DEFINE g == [p \in (1 .. n) \X Seq(Nat) |-> p[2] \o own(p[1])]
<1>3. g \in [(1 .. n) \X Seq(Nat) -> Seq(Nat)]
  <2>1. ASSUME NEW p \in (1 .. n) \X Seq(Nat) PROVE p[2] \o own(p[1]) \in Seq(Nat)
    <3>1. p[2] \in Seq(Nat) /\ own(p[1]) \in Seq(Nat)
      BY <1>1
    <3> QED
      BY <3>1, ConcatProperties
  <2> QED
    BY <2>1
<1>4. \A i \in 1 .. n, x \in Seq(Nat) : g[<<i, x>>] = x \o own(i)
  OBVIOUS
<1> HIDE DEF g
<1>5. \A i \in 0 .. n : i # 0 => i \in 1 .. n /\ i - 1 \in 0 .. n
  BY <1>1
<1>6. \E f : Adds(f)
  <2>1. <<>> \in Seq(Nat)
    OBVIOUS
  <2>2. PICK f \in [0 .. n -> Seq(Nat)] : Iterates(f, <<>>, n, g)
    BY <1>1, <1>3, <2>1, Recursion
  <2>3. ASSUME NEW i \in 0 .. n PROVE f[i] = IF i = 0 THEN <<>> ELSE f[i - 1] \o own(i)
    <3>1. f[i] = IF i = 0 THEN <<>> ELSE g[<<i, f[i - 1]>>]
      BY <2>2 DEF Iterates
    <3> QED
      BY <1>4, <1>5, <2>2, <3>1
  <2>4. f = [i \in 0 .. n |-> f[i]]
    BY <2>2
  <2>5. Adds(f)
    BY <2>3, <2>4
  <2> QED
    BY <2>5
<1>7. PICK f : Adds(f) /\ LiveSizes(rows) = f[n]
  <2> HIDE DEF Adds
  <2>1. Adds(CHOOSE f : Adds(f))
    BY <1>6, Zenon
  <2> QED
    BY <1>2, <2>1
<1>8. f[0] = <<>> /\ \A i \in 1 .. n : f[i] = f[i - 1] \o own(i)
  BY <1>1, <1>5, <1>7
<1> HIDE DEF Adds
<1> DEFINE T == {m \in Nat : m <= n => Lists(rows, m, f[m])}
<1>9. 0 \in T
  <2>1. \A j \in Kept(rows) : ~(j <= 0)
    BY LenProperties DEF Kept
  <2>2. <<>> \in Seq(Nat) /\ Len(<<>>) = 0
    OBVIOUS
  <2>3. Lists(rows, 0, <<>>)
    BY <2>1, <2>2, UptoIs DEF Lists
  <2> QED
    BY <1>8, <2>3
<1>10. ASSUME NEW m \in Nat, m \in T PROVE m + 1 \in T
  <2> SUFFICES ASSUME m + 1 <= n PROVE Lists(rows, m + 1, f[m + 1])
    OBVIOUS
  <2>1. m + 1 \in 1 .. n /\ m + 1 - 1 = m /\ m <= n
    BY <1>1
  <2>2. Lists(rows, m + 1 - 1, f[m])
    BY <1>10, <2>1
  <2>3. Lists(rows, m + 1, f[m] \o own(m + 1))
    BY <2>1, <2>2, ListsNext DEF own, n
  <2> DEFINE k == m + 1
  <2>4. k \in 1 .. n /\ k - 1 = m
    BY <2>1
  <2> HIDE DEF k
  <2>5. f[k] = f[m] \o own(k)
    BY <1>8, <2>4
  <2> QED
    BY <2>3, <2>5 DEF k
<1> HIDE DEF T
<1>11. Nat \subseteq T
  BY <1>9, <1>10, Induction
<1>12. Lists(rows, n, f[n])
  <2>1. n \in T /\ n <= n
    BY <1>1, <1>11
  <2> QED
    BY <2>1 DEF T
<1> QED
  BY <1>7, <1>12 DEF n

LEMMA Enclosed ==
  ASSUME NEW list \in Seq(Nat), NEW one \in Seq(Nat), Len(one) = 1
  PROVE  LET all == one \o list \o one
         IN  /\ Len(all) = Len(list) + 2 /\ all[1] = one[1] /\ all[Len(list) + 2] = one[1]
             /\ \A k \in 1 .. Len(list) : all[1 + k] = list[k]
<1> DEFINE front == one \o list
           all   == front \o one
<1>1. /\ front \in Seq(Nat) /\ Len(front) = Len(one) + Len(list)
      /\ \A k \in 1 .. Len(one) + Len(list) :
           front[k] = IF k <= Len(one) THEN one[k] ELSE list[k - Len(one)]
  BY ConcatProperties
<1>2. /\ Len(all) = Len(front) + Len(one)
      /\ \A k \in 1 .. Len(front) + Len(one) :
           all[k] = IF k <= Len(front) THEN front[k] ELSE one[k - Len(front)]
  BY <1>1, ConcatProperties
<1> HIDE DEF all, front
<1>3. Len(list) \in Nat
  BY LenProperties
<1>4. Len(all) = Len(list) + 2 /\ Len(front) = Len(list) + 1
  BY <1>1, <1>2, <1>3
<1>5. all[1] = one[1]
  BY <1>1, <1>2, <1>3
<1>6. all[Len(list) + 2] = one[1]
  <2> DEFINE i == Len(list) + 2
  <2>1. i \in 1 .. Len(front) + Len(one) /\ ~(i <= Len(front)) /\ i - Len(front) = 1
    BY <1>3, <1>4
  <2> HIDE DEF i
  <2>2. all[i] = one[1]
    BY <1>2, <2>1
  <2> QED
    BY <2>2 DEF i
<1>7. ASSUME NEW k \in 1 .. Len(list) PROVE all[1 + k] = list[k]
  <2> DEFINE i == 1 + k
  <2>1. /\ i \in 1 .. Len(one) + Len(list) /\ i \in 1 .. Len(front) + Len(one)
        /\ ~(i <= Len(one)) /\ i <= Len(front) /\ i - Len(one) = k
    BY <1>3, <1>4
  <2> HIDE DEF i
  <2>2. all[i] = front[i] /\ front[i] = list[k]
    BY <1>1, <1>2, <2>1
  <2> QED
    BY <2>2 DEF i
<1> QED
  BY <1>4, <1>5, <1>6, <1>7 DEF all, front

(* A zone that encodes is sent as it is: its SOA record, every record that  *)
(* is not deleted in its order, and its SOA record, however the records     *)
(* are spread over messages (axfr-server.js:289-310, 345-372).              *)
THEOREM TransfersAreWhole ==
  ASSUME NEW rows \in Seq(Records), CanEncode(rows)
  PROVE  /\ WholeZone(rows, FlattenSeq(Batches(LiveSizes(rows))))
         /\ AllKeep(Batches(LiveSizes(rows)))
<1> DEFINE list == LiveSizes(rows)
           kept == Kept(rows)
           soa  == <<SoaSize>>
           all  == soa \o list \o soa
<1>1. /\ list \in Seq(Nat) /\ Len(list) = Cardinality(kept)
      /\ \A j \in kept : Upto(rows, j) \in 1 .. Len(list) /\ list[Upto(rows, j)] = rows[j].size
  <2>1. Lists(rows, Len(rows), list) /\ Upto(rows, Len(rows)) = Cardinality(kept)
    BY LiveSizesLists, UptoIs
  <2>2. \A j \in kept : j <= Len(rows)
    BY LenProperties DEF Kept
  <2> QED
    BY <2>1, <2>2 DEF Lists
<1>2. \A j \in kept : rows[j].size # 0
  <2>1. \A j \in DOMAIN rows : rows[j] \in Records
    BY LenProperties
  <2>2. \A j \in kept : j \in DOMAIN rows /\ rows[j].kind = "live"
    BY <2>1 DEF Kept, Records
  <2> QED
    BY <2>2 DEF CanEncode
<1> HIDE DEF list, kept
<1>3. Len(list) \in Nat
  BY <1>1, LenProperties
<1>4. /\ Len(all) = Len(list) + 2 /\ all[1] = SoaSize /\ all[Len(list) + 2] = SoaSize
      /\ \A k \in 1 .. Len(list) : all[1 + k] = list[k]
  <2>1. soa \in Seq(Nat) /\ Len(soa) = 1 /\ soa[1] = SoaSize
    BY DEF SoaSize
  <2> HIDE DEF soa
  <2> QED
    BY <1>1, <2>1, Enclosed
<1> HIDE DEF all, soa
<1>5. FlattenSeq(Batches(list)) = all /\ AllKeep(Batches(list))
  BY <1>1, BatchesAreWhole DEF all, soa
<1>6. WholeZone(rows, all)
  <2>1. Len(all) = Cardinality(kept) + 2 /\ all[1] = SoaSize /\ all[Len(all)] = SoaSize
    BY <1>1, <1>4
  <2>2. \A j \in kept : all[1 + Upto(rows, j)] = rows[j].size
    BY <1>1, <1>4
  <2> QED
    BY <1>2, <2>1, <2>2 DEF WholeZone, Upto, kept, Kept
<1> QED
  BY <1>5, <1>6 DEF list

(* A transfer is the zone, goes to those only who asked for one and are     *)
(* known, and keeps to the limit of a message (axfr-server.js:236-310).     *)
THEOREM TransfersGoOutWhole == Spec => []TransferIsWhole
<1>1. ASSUME NEW z \in Assigned PROVE Rows(z) \in Seq(Records)
  <2>1. /\ \A k \in Nat : Live(k) \in Records /\ Deleted(k) \in Records
        /\ SoaRow \in Records
    BY DEF Live, Deleted, SoaRow, Records
  <2>2. /\ Live(1) \in Records /\ Live(0) \in Records /\ Live(2) \in Records
        /\ Live(3) \in Records /\ Live(4) \in Records /\ Live(5) \in Records
        /\ Deleted(0) \in Records /\ Deleted(1) \in Records
    BY <2>1
  <2> QED
    BY <2>1, <2>2 DEF Rows, Assigned
<1>2. IInv => TransferIsWhole
  <2> SUFFICES ASSUME IInv, NEW c \in Conns, NEW i \in 1 .. Len(out[c]),
                      out[c][i].says \in Assigned
               PROVE  LET z == out[c][i].says
                      IN  /\ c \in Known /\ asks[c][out[c][i].message] = "transfer"
                          /\ WholeZone(Rows(z), FlattenSeq(Sent[z]))
                          /\ \A p \in 1 .. Len(Sent[z]) : KeepsToLimit(Sent[z][p])
    BY Zenon DEF TransferIsWhole
  <2> DEFINE z == out[c][i].says
  <2>1. Allowed(c, out[c][i])
    BY DEF IInv, RepliesFit, AllAllowed
  <2>2. c \in Known /\ asks[c][out[c][i].message] = "transfer" /\ CanEncode(Rows(z))
    BY <2>1 DEF Allowed
  <2> HIDE DEF z
  <2>3. z \in Assigned /\ Rows(z) \in Seq(Records)
    BY <1>1 DEF z
  <2>4. Sent[z] = Batches(LiveSizes(Rows(z)))
    BY <2>3 DEF Sent
  <2>5. WholeZone(Rows(z), FlattenSeq(Sent[z])) /\ AllKeep(Sent[z])
    BY <2>2, <2>3, <2>4, TransfersAreWhole DEF z
  <2> QED
    BY <2>2, <2>5, Zenon DEF z, AllKeep
<1> QED
  BY <1>2, InductiveInvariant, PTL
=============================================================================
