-------------------------- MODULE AxfrDeliveryProofs --------------------------
(***************************************************************************)
(* Proofs about AxfrDelivery, for every number of jobs, workers and         *)
(* attempts, and every set of names that may not encode.                    *)
(*                                                                         *)
(* EachJobOnce is nearly inductive. It needs to know that the job a worker  *)
(* waits for is handed out and open (WaitingIsOpen); ResolvesWithAll needs  *)
(* that a worker is done only when the list is at its end (DoneAtEnd), and  *)
(* that deliver() resolves when all are done (ResolvedIsDone).              *)
(* NotifiedIsTaken rests on what a signature that verifies is over, for any *)
(* keys, clocks and lengths of a MAC (VerdictIsTrue).                       *)
(***************************************************************************)
EXTENDS AxfrDelivery, FiniteSetTheorems, TLAPS

-----------------------------------------------------------------------------
(* The signatures of module Tsig, for every message, key, time and MAC.     *)

(* A MAC of a permitted length has octets to compare.                       *)
LEMMA LongIsNotEmpty ==
  ASSUME NEW length, NEW size, LongEnough(length, size) PROVE length # 0
  BY SMT DEF LongEnough

(* What verifies carries a MAC over what is read from it, made with the     *)
(* secret of the key, and for the request that was sent.                    *)
THEOREM VerifiedIsSigned ==
  ASSUME NEW signed, NEW key, NEW requestMac, NEW now,
         VerifyMessage(signed, key, requestMac, now) = "ok"
  PROVE  /\ signed.tsig.mac.over.secret = key.secret
         /\ signed.tsig.mac.over.requestMac = requestMac
         /\ signed.tsig.mac.over.message = Stripped(signed)
<1> DEFINE tsig == signed.tsig
           hash == ComputeMac(key, Stripped(signed),
                     TsigVariables(key, tsig.timeSigned, tsig.fudge, tsig.error), requestMac)
<1>1. LongEnough(tsig.mac.length, MacSize[key.algorithm]) /\ IsPrefixOf(tsig.mac, hash)
  BY DEF VerifyMessage, Comparable
<1>2. tsig.mac.length # 0
  BY <1>1, LongIsNotEmpty
<1>3. tsig.mac.over = hash.over
  BY <1>1, <1>2 DEF IsPrefixOf
<1> QED
  BY <1>3 DEF ComputeMac

(* Two fields of a message are replaced, the others stay.                   *)
LEMMA Replaced ==
  ASSUME NEW r \in [zone : Nat, id : Nat, qr : Nat, rcode : Nat, arcount : Nat],
         NEW n \in Nat, NEW i \in Nat
  PROVE  [r EXCEPT !.arcount = n, !.id = i]
         = [zone |-> r.zone, id |-> i, qr |-> r.qr, rcode |-> r.rcode, arcount |-> n]
<1>1. [r EXCEPT !.arcount = n]
        = [zone |-> r.zone, id |-> r.id, qr |-> r.qr, rcode |-> r.rcode, arcount |-> n]
  BY SMT
<1>2. [r EXCEPT !.arcount = n, !.id = i] = [[r EXCEPT !.arcount = n] EXCEPT !.id = i]
  BY SMT
<1> DEFINE q == [r EXCEPT !.arcount = n]
<1>3. /\ q \in [zone : Nat, id : Nat, qr : Nat, rcode : Nat, arcount : Nat]
      /\ q.zone = r.zone /\ q.qr = r.qr /\ q.rcode = r.rcode /\ q.arcount = n
  BY <1>1, SMT
<1> HIDE DEF q
<1>4. [q EXCEPT !.id = i]
        = [zone |-> q.zone, id |-> i, qr |-> q.qr, rcode |-> q.rcode, arcount |-> q.arcount]
  BY <1>3, SMT
<1>5. [r EXCEPT !.arcount = n, !.id = i] = [q EXCEPT !.id = i]
  BY <1>2 DEF q
<1> QED
  BY <1>3, <1>4, <1>5

(* What is signed verifies with the same key for the same request as long   *)
(* as the clocks are no further apart than the fudge, and also when its id  *)
(* has been replaced on the way (tsig.js:295-298).                          *)
THEOREM SignedVerifies ==
  ASSUME NEW message \in [zone : Nat, id : Nat, qr : Nat, rcode : Nat, arcount : Nat],
         NEW key, key.algorithm \in DOMAIN MacSize,
         NEW requestMac, NEW timeSigned \in Int, NEW now \in Int, NEW fudge \in Nat,
         Skew(now, timeSigned) <= fudge, NEW id \in Nat
  PROVE  LET sent == SignMessage(message, key, fudge, timeSigned, requestMac)
         IN  VerifyMessage([header |-> [sent.header EXCEPT !.id = id], tsig |-> sent.tsig],
                           key, requestMac, now) = "ok"
<1> DEFINE sent == SignMessage(message, key, fudge, timeSigned, requestMac)
           came == [header |-> [sent.header EXCEPT !.id = id], tsig |-> sent.tsig]
           size == MacSize[key.algorithm]
           variables == TsigVariables(key, timeSigned, fudge, 0)
<1>1. /\ came.tsig = sent.tsig
      /\ sent.header = [message EXCEPT !.arcount = message.arcount + 1]
      /\ came.header = [sent.header EXCEPT !.id = id]
  BY DEF SignMessage
<1>2. /\ came.tsig.name = key.name
      /\ came.tsig.algorithm = key.algorithm
      /\ came.tsig.error = 0
      /\ came.tsig.timeSigned = timeSigned
      /\ came.tsig.fudge = fudge
      /\ came.tsig.originalId = message.id
      /\ came.tsig.mac = ComputeMac(key, message, variables, requestMac)
  BY <1>1 DEF SignMessage
<1> HIDE DEF sent, came
<1>3. /\ message.arcount \in Nat
      /\ came.header = [zone |-> message.zone, id |-> id, qr |-> message.qr,
                        rcode |-> message.rcode, arcount |-> message.arcount + 1]
  BY <1>1
<1>4. came.header.arcount # 0
  BY <1>3, SMT
<1>5. Stripped(came) = message
  <2>1. /\ came.header.arcount = message.arcount + 1
        /\ message.arcount + 1 - 1 = message.arcount
    BY <1>3, SMT
  <2>2. Stripped(came) = [came.header EXCEPT !.arcount = message.arcount, !.id = message.id]
    <3>1. Stripped(came) = [came.header EXCEPT !.arcount = came.header.arcount - 1,
                                               !.id = came.tsig.originalId]
      BY DEF Stripped
    <3>2. came.header.arcount - 1 = message.arcount
      BY <2>1
    <3> QED
      BY <3>1, <3>2, <1>2
  <2>3. [came.header EXCEPT !.arcount = message.arcount, !.id = message.id]
          = [zone |-> message.zone, id |-> message.id, qr |-> message.qr,
             rcode |-> message.rcode, arcount |-> message.arcount]
    <3>1. /\ came.header \in [zone : Nat, id : Nat, qr : Nat, rcode : Nat, arcount : Nat]
          /\ message.id \in Nat
      BY <1>3, SMT
    <3>2. /\ came.header.zone = message.zone
          /\ came.header.qr = message.qr
          /\ came.header.rcode = message.rcode
      BY <1>3
    <3>3. [came.header EXCEPT !.arcount = message.arcount, !.id = message.id]
            = [zone |-> came.header.zone, id |-> message.id, qr |-> came.header.qr,
               rcode |-> came.header.rcode, arcount |-> message.arcount]
      BY <3>1, <1>3, Replaced
    <3> QED
      BY <3>2, <3>3
  <2> QED
    BY <2>2, <2>3
<1>6. size \in Nat /\ LongEnough(size, size)
  BY SMT DEF MacSize, LongEnough
<1>7. came.tsig.mac.length = size
  BY <1>2 DEF ComputeMac
<1>8. IsPrefixOf(came.tsig.mac, ComputeMac(key, message, variables, requestMac))
  BY <1>2 DEF IsPrefixOf
<1>9. VerifyMessage(came, key, requestMac, now) = "ok"
  <2>1. Comparable(came, key, now)
    BY <1>2, <1>4, <1>6, <1>7 DEF Comparable
  <2>2. ComputeMac(key, message, variables, requestMac).length = size
    BY DEF ComputeMac
  <2>3. ~(size > size)
    BY <1>6, SMT
  <2> QED
    BY <1>2, <1>5, <1>7, <1>8, <2>1, <2>2, <2>3 DEF VerifyMessage
<1> QED
  BY <1>9 DEF sent, came

-----------------------------------------------------------------------------
(* The delivery.                                                            *)

WaitingIsOpen ==
  \A w \in Workers : worker[w].pc = "waiting" =>
    worker[w].job < next /\ outcome[worker[w].job] = "none"

DoneAtEnd ==
  call # "called" => \A w \in Workers : worker[w] = Done => next > NumJobs

ResolvedIsDone == call = "resolved" => \A w \in Workers : worker[w] = Done

NothingBeforeCall ==
  call = "called" =>
    /\ next = 1
    /\ worker = [w \in Workers |-> Done]
    /\ \A j \in Jobs : outcome[j] = "none"

IInv ==
  /\ TypeOK
  /\ EachJobOnce
  /\ WaitingIsOpen
  /\ DoneAtEnd
  /\ ResolvedIsDone
  /\ NothingBeforeCall
  /\ NotifiedIsTaken

-----------------------------------------------------------------------------
(* The workers are the first jobs, as many as the concurrency allows, so    *)
(* the index that deliver() leaves behind is the one after their jobs.      *)
LEMMA WorkersAreFirst ==
  /\ Cardinality(Workers) \in 0 .. NumJobs
  /\ Workers = 1 .. Cardinality(Workers)
<1> DEFINE k == IF Concurrency < NumJobs THEN Concurrency ELSE NumJobs
<1>1. k \in 0 .. NumJobs /\ Workers = 1 .. k
  BY AxfrAssumption, SMT DEF AxfrAssumption, Workers, Jobs
<1>2. Cardinality(1 .. k) = k
  BY <1>1, AxfrAssumption, FS_Interval, SMT DEF AxfrAssumption
<1> QED
  BY <1>1, <1>2

(* What a worker does next is one of its states; a job it takes is the one  *)
(* it was given.                                                            *)
LEMMA TakingState ==
  ASSUME NEW n \in 1 .. NumJobs + 1
  PROVE  /\ Taking(n) \in WorkerStates
         /\ Taking(n) = Done <=> n > NumJobs
         /\ n <= NumJobs => Taking(n).job = n
         /\ Taking(n).pc = "waiting" => n <= NumJobs
<1> USE AxfrAssumption DEF AxfrAssumption, Taking, WorkerStates, Busy, Thrown, Done, Jobs
<1>1. CASE n > NumJobs
  BY <1>1, SMT
<1>2. CASE n <= NumJobs /\ n \in bad
  BY <1>2, SMT
<1>3. CASE n <= NumJobs /\ n \notin bad
  BY <1>3, SMT
<1> QED
  BY <1>1, <1>2, <1>3

(* Before the call nothing is handed out.                                   *)
LEMMA IInvInit == Init => IInv
<1> SUFFICES ASSUME Init PROVE IInv
  OBVIOUS
<1>1. TypeOK
  BY AxfrAssumption, SMT DEF AxfrAssumption, Init, TypeOK, WorkerStates, Outcomes, Jobs
<1>2. \A w \in Workers : worker[w] = Done
  BY DEF Init
<1>3. EachJobOnce
  BY <1>2, SMT DEF Init, EachJobOnce, Done, Jobs
<1> QED
  BY <1>1, <1>2, <1>3
     DEF Init, IInv, WaitingIsOpen, DoneAtEnd, ResolvedIsDone, NothingBeforeCall, Done,
         NotifiedIsTaken

-----------------------------------------------------------------------------
(* A waiting worker has a job that was handed out, and deliver() was called.*)
LEMMA Waiting ==
  ASSUME IInv, NEW w \in Workers, worker[w].pc = "waiting"
  PROVE  /\ call # "called"
         /\ worker[w].job \in Jobs
         /\ worker[w].tries \in 1 .. Attempts
         /\ worker[w] = Busy(worker[w].job, worker[w].tries)
         /\ worker[w] # Done
<1>1. worker[w] \in WorkerStates
  BY DEF IInv, TypeOK
<1>2. PICK j \in Jobs, n \in 1 .. Attempts : worker[w] = Busy(j, n)
  BY <1>1, SMT DEF WorkerStates, Thrown, Done
<1>3. worker[w].job = j /\ worker[w].tries = n /\ worker[w] # Done
  BY <1>2, SMT DEF Busy, Done
<1>4. call # "called"
  BY <1>3 DEF IInv, NothingBeforeCall
<1> QED
  BY <1>2, <1>3, <1>4

(* The first step: the workers take the first jobs.                         *)
LEMMA DeliverStep == IInv /\ Deliver => IInv'
<1> SUFFICES ASSUME IInv, Deliver PROVE IInv'
  OBVIOUS
<1> DEFINE k == Cardinality(Workers)
<1>0. k \in 0 .. NumJobs /\ Workers = 1 .. k
  BY WorkersAreFirst
<1>1. /\ next' = k + 1
      /\ worker' = [w \in Workers |-> Taking(w)]
      /\ outcome' = outcome /\ taken' = taken /\ bad' = bad
      /\ call = "called" /\ \A j \in Jobs : outcome[j] = "none"
  BY DEF Deliver, IInv, NothingBeforeCall
<1>2. \A w \in Workers : /\ w \in Jobs /\ w \in 1 .. NumJobs + 1 /\ w <= NumJobs
                         /\ w < k + 1
  BY <1>0, AxfrAssumption, SMT DEF AxfrAssumption, Jobs
<1>3. \A w \in Workers : /\ worker'[w] \in WorkerStates
                         /\ worker'[w] # Done
                         /\ worker'[w].job = w
  <2> TAKE w \in Workers
  <2>1. worker'[w] = Taking(w)
    BY <1>1
  <2>2. w \in 1 .. NumJobs + 1 /\ w <= NumJobs /\ ~(w > NumJobs)
    BY <1>2, AxfrAssumption, SMT DEF AxfrAssumption
  <2> QED
    BY <2>1, <2>2, TakingState
<1>4. TypeOK'
  <2>1. call' \in {"called", "running", "resolved", "rejected", "crashed"}
    BY DEF Deliver
  <2>2. next' \in 1 .. NumJobs + 1
    BY <1>0, <1>1, AxfrAssumption, SMT DEF AxfrAssumption
  <2> QED
    BY <1>1, <1>3, <2>1, <2>2 DEF IInv, TypeOK
<1>5. EachJobOnce'
  <2>1. \A v, w \in Workers : worker'[v] # Done /\ worker'[v].job = worker'[w].job => v = w
    BY <1>3
  <2>2. ASSUME NEW j \in Jobs
        PROVE  j < next' <=> outcome'[j] # "none" \/ \E w \in Workers : worker'[w].job = j
    <3>1. j < k + 1 <=> j \in Workers
      BY <1>0, AxfrAssumption, SMT DEF AxfrAssumption, Jobs
    <3> QED
      BY <3>1, <1>1, <1>3
  <2> QED
    BY <2>1, <2>2 DEF EachJobOnce
<1>6. call' # "called" /\ (call' = "resolved" => Workers = {})
  <2>1. Jobs = {} => Workers = {}
    BY DEF Workers
  <2> QED
    BY <2>1 DEF Deliver
<1> QED
  BY <1>1, <1>2, <1>3, <1>4, <1>5, <1>6
     DEF IInv, WaitingIsOpen, DoneAtEnd, ResolvedIsDone, NothingBeforeCall, NotifiedIsTaken

(* A NOTIFY settles: its worker takes the next job, if there is one.        *)
LEMMA FinishStep ==
  ASSUME IInv, NEW w \in Workers, worker[w].pc = "waiting",
         NEW result \in Outcomes \ {"none"},
         result = "ok" => worker[w].job \in taken,
         Finish(w, result), UNCHANGED <<bad, taken>>
  PROVE  IInv'
<1> DEFINE old == worker[w].job
<1>1. /\ outcome' = [outcome EXCEPT ![old] = result]
      /\ worker' = [worker EXCEPT ![w] = Taking(next)]
      /\ next' = IF next <= NumJobs THEN next + 1 ELSE next
      /\ call' = Settling(worker')
      /\ bad' = bad /\ taken' = taken
  BY DEF Finish, Advance
<1>2. TypeOK /\ next \in 1 .. NumJobs + 1 /\ NumJobs \in Nat
  BY AxfrAssumption DEF IInv, TypeOK, AxfrAssumption
<1>3. /\ call # "called" /\ old \in Jobs /\ worker[w] # Done
      /\ old < next /\ outcome[old] = "none"
  BY Waiting DEF IInv, WaitingIsOpen
<1>4. /\ worker'[w] = Taking(next)
      /\ \A v \in Workers : v # w => worker'[v] = worker[v]
      /\ outcome'[old] = result
      /\ \A j \in Jobs : j # old => outcome'[j] = outcome[j]
  BY <1>1, <1>2, <1>3 DEF TypeOK
<1>5. /\ Taking(next) \in WorkerStates
      /\ Taking(next) = Done <=> next > NumJobs
      /\ next <= NumJobs => Taking(next).job = next
      /\ Taking(next).pc = "waiting" => next <= NumJobs
  BY <1>2, TakingState
<1>6. next' \in 1 .. NumJobs + 1 /\ next <= next'
  BY <1>1, <1>2, SMT
<1>7. \A j \in Jobs : j \in Nat \ {0}
  BY <1>2, SMT DEF Jobs
<1>8. TypeOK'
  <2>1. call' \in {"called", "running", "resolved", "rejected", "crashed"}
    BY <1>1, <1>2 DEF TypeOK, Settling
  <2> QED
    BY <1>1, <1>2, <1>5, <1>6, <2>1 DEF TypeOK
<1>9. WaitingIsOpen'
  <2> SUFFICES ASSUME NEW v \in Workers, worker'[v].pc = "waiting"
               PROVE  worker'[v].job < next' /\ outcome'[worker'[v].job] = "none"
    BY DEF WaitingIsOpen
  <2>1. CASE v = w
    <3>1. next \in Jobs /\ worker'[v].job = next /\ next < next'
      BY <2>1, <1>1, <1>2, <1>4, <1>5, SMT DEF Jobs
    <3>2. outcome[next] = "none" /\ next # old
      BY <3>1, <1>2, <1>3, <1>7, SMT DEF IInv, EachJobOnce
    <3> QED
      BY <3>1, <3>2, <1>4
  <2>2. CASE v # w
    <3>1. worker[v].pc = "waiting" /\ worker'[v].job = worker[v].job
      BY <2>2, <1>4
    <3>2. worker[v].job < next /\ outcome[worker[v].job] = "none"
      BY <3>1 DEF IInv, WaitingIsOpen
    <3>3. worker[v].job \in Jobs /\ worker[v].job # old
      BY <3>1, <2>2, <1>3, Waiting DEF IInv, EachJobOnce
    <3>4. worker[v].job < next'
      BY <3>2, <3>3, <1>6, <1>7, <1>2, SMT
    <3> QED
      BY <3>1, <3>2, <3>3, <3>4, <1>4
  <2> QED
    BY <2>1, <2>2
<1>10. EachJobOnce'
  <2>1. Done.job = 0
    BY DEF Done
  <2>2. \A v \in Workers : worker[v] # Done => worker[v].job \in Jobs
    BY <1>2, SMT DEF TypeOK, WorkerStates, Busy, Thrown
  <2>3. \A v \in Workers : worker[v].job # next
    <3>1. next \in Jobs => \A v \in Workers : worker[v].job # next
      BY <1>2, SMT DEF IInv, EachJobOnce
    <3>2. next # 0
      BY <1>2, SMT
    <3> QED
      BY <3>1, <3>2, <2>1, <2>2
  <2>4. worker'[w].job = IF next <= NumJobs THEN next ELSE 0
    BY <1>2, <1>4, <1>5, <2>1, SMT
  <2>5. ASSUME NEW v \in Workers, NEW u \in Workers,
               worker'[v] # Done, worker'[v].job = worker'[u].job
        PROVE  v = u
    <3>1. CASE v = w /\ u # w
      BY <3>1, <2>3, <2>4, <2>5, <1>2, <1>4, <1>5, SMT
    <3>2. CASE v # w /\ u = w
      BY <3>2, <2>2, <2>3, <2>4, <2>5, <1>4, <1>7
    <3>3. CASE v # w /\ u # w
      BY <3>3, <2>5, <1>4 DEF IInv, EachJobOnce
    <3> QED
      BY <3>1, <3>2, <3>3
  <2>6. ASSUME NEW j \in Jobs
        PROVE  j < next' <=> outcome'[j] # "none" \/ \E u \in Workers : worker'[u].job = j
    <3>0. j < next <=> outcome[j] # "none" \/ \E u \in Workers : worker[u].job = j
      BY DEF IInv, EachJobOnce
    <3>1. CASE j = old
      <4>1. j < next'
        BY <3>1, <1>2, <1>3, <1>6, <1>7, SMT
      <4> QED
        BY <4>1, <3>1, <1>4
    <3>2. CASE j = next
      <4>1. j < next' /\ worker'[w].job = j
        BY <3>2, <2>4, <1>1, <1>2, SMT DEF Jobs
      <4> QED
        BY <4>1
    <3>3. CASE j # old /\ j # next
      <4>1. j < next' <=> j < next
        BY <3>3, <1>1, <1>2, <1>7, SMT
      <4>2. outcome'[j] = outcome[j]
        BY <3>3, <1>4
      <4>3. worker'[w].job # j /\ worker[w].job # j
        BY <3>3, <2>4, <1>7
      <4>4. (\E u \in Workers : worker'[u].job = j) <=> (\E u \in Workers : worker[u].job = j)
        BY <4>3, <1>4
      <4> QED
        BY <3>0, <4>1, <4>2, <4>4
    <3> QED
      BY <3>1, <3>2, <3>3
  <2> QED
    BY <2>5, <2>6 DEF EachJobOnce
<1>11. DoneAtEnd'
  <2> SUFFICES ASSUME NEW v \in Workers, worker'[v] = Done PROVE next' > NumJobs
    BY DEF DoneAtEnd
  <2>1. next > NumJobs
    <3>1. CASE v = w
      BY <3>1, <1>4, <1>5
    <3>2. CASE v # w
      BY <3>2, <1>3, <1>4 DEF IInv, DoneAtEnd
    <3> QED
      BY <3>1, <3>2
  <2> QED
    BY <2>1, <1>1, <1>2, SMT
<1>12. call' # "called" /\ ResolvedIsDone'
  <2>1. call \in {"running", "resolved", "rejected", "crashed"}
    BY <1>2, <1>3 DEF TypeOK
  <2>2. call # "resolved"
    BY <1>3 DEF IInv, ResolvedIsDone
  <2> QED
    BY <2>1, <2>2, <1>1 DEF Settling, ResolvedIsDone
<1>13. NotifiedIsTaken'
  BY <1>1, <1>3, <1>4 DEF IInv, NotifiedIsTaken
<1> QED
  BY <1>8, <1>9, <1>10, <1>11, <1>12, <1>13 DEF IInv, NothingBeforeCall

(* A NOTIFY that is sent again keeps its worker and its job.                *)
LEMMA ResendStep ==
  ASSUME IInv, NEW w \in Workers, Resend(w) PROVE IInv'
<1> DEFINE again == Busy(worker[w].job, worker[w].tries + 1)
<1>1. /\ worker[w].pc = "waiting" /\ worker[w].tries < Attempts
      /\ UNCHANGED <<bad, call, next, outcome, taken>>
  <2>1. worker[w].tries \in 1 .. Attempts
    BY Waiting DEF Resend, Waits
  <2> QED
    BY <2>1, AxfrAssumption, SMT DEF AxfrAssumption, Resend, Waits, LastTry
<1>2. /\ call # "called" /\ worker[w].job \in Jobs /\ worker[w].tries \in 1 .. Attempts
      /\ worker[w] = Busy(worker[w].job, worker[w].tries)
  BY <1>1, Waiting
<1>3. /\ again \in WorkerStates /\ again # Done /\ again.pc = "waiting"
      /\ again.job = worker[w].job /\ worker[w] # Done
  <2>1. worker[w].tries + 1 \in 1 .. Attempts
    BY <1>1, <1>2, AxfrAssumption, SMT DEF AxfrAssumption
  <2>2. again \in WorkerStates
    BY <2>1, <1>2 DEF WorkerStates
  <2>3. again # Done /\ again.pc = "waiting" /\ again.job = worker[w].job
    BY DEF Busy, Done
  <2> QED
    BY <2>2, <2>3, <1>1, Waiting
<1>4. worker' = [worker EXCEPT ![w] = again]
  BY DEF Resend, CountTry
<1>5. TypeOK /\ worker \in [Workers -> WorkerStates]
  BY DEF IInv, TypeOK
<1>6. /\ worker'[w] = again
      /\ \A v \in Workers : v # w => worker'[v] = worker[v]
  BY <1>4, <1>5
<1>7. \A v \in Workers : /\ worker'[v].job = worker[v].job
                         /\ worker'[v].pc = worker[v].pc
                         /\ worker'[v] = Done <=> worker[v] = Done
  BY <1>1, <1>3, <1>6
<1>8. TypeOK'
  BY <1>1, <1>3, <1>4, <1>5 DEF TypeOK
<1>9. EachJobOnce'
  BY <1>1, <1>7 DEF IInv, EachJobOnce
<1>10. WaitingIsOpen'
  BY <1>1, <1>7 DEF IInv, WaitingIsOpen
<1>11. DoneAtEnd' /\ ResolvedIsDone'
  BY <1>1, <1>7 DEF IInv, DoneAtEnd, ResolvedIsDone
<1> QED
  BY <1>1, <1>2, <1>8, <1>9, <1>10, <1>11 DEF IInv, NothingBeforeCall, NotifiedIsTaken

(* The MAC of a NOTIFY tells the jobs apart: it is over the zone.           *)
LEMMA RequestMacTellsJobs ==
  ASSUME NEW i, NEW j, RequestMac(i) = RequestMac(j) PROVE i = j
<1>1. RequestMac(i).over.message.zone = i
  BY DEF RequestMac, SignMessage, ComputeMac, Request, Message
<1>2. RequestMac(j).over.message.zone = j
  BY DEF RequestMac, SignMessage, ComputeMac, Request, Message
<1> QED
  BY <1>1, <1>2

(* What a MAC of a secondary is over.                                       *)
LEMMA ResponseMacIs ==
  ASSUME NEW accepted, NEW mac \in ResponseMacs(accepted)
  PROVE  \E i : /\ mac.over.requestMac = RequestMac(i)
                /\ mac.over.message.rcode = NoError => i \in accepted
<1>1. CASE \E i \in accepted, key \in Keys, t \in Clock :
             mac = SignMessage(Response(i, NoError), key, Fudge, t, RequestMac(i)).tsig.mac
  BY <1>1 DEF SignMessage, ComputeMac
<1>2. CASE \E i \in Jobs, key \in Keys, t \in Clock :
             mac = SignMessage(Response(i, Refused), key, Fudge, t, RequestMac(i)).tsig.mac
  <2>1. PICK i \in Jobs, key \in Keys, t \in Clock :
          mac = SignMessage(Response(i, Refused), key, Fudge, t, RequestMac(i)).tsig.mac
    BY <1>2
  <2>2. mac.over.requestMac = RequestMac(i) /\ mac.over.message.rcode = Refused
    BY <2>1 DEF SignMessage, ComputeMac, Response, Message
  <2> QED
    BY <2>2, SMT DEF NoError, Refused
<1> QED
  BY <1>1, <1>2 DEF ResponseMacs

(* A signed answer says "no error" to job j only when the secondary has     *)
(* taken it: the MAC is over that answer and over j's NOTIFY.               *)
LEMMA SignedOkIsTaken ==
  ASSUME NEW j, NEW accepted, NEW header, NEW tsig \in Tsigs(accepted),
         Verdict(j, [header |-> header, tsig |-> tsig]) = "ok"
  PROVE  j \in accepted
<1> DEFINE answer == [header |-> header, tsig |-> tsig]
<1>1. VerifyMessage(answer, TsigKey, RequestMac(j), 0) = "ok" /\ answer.header.rcode = NoError
  BY DEF Verdict, VerifyMessage
<1>2. PICK mac \in ResponseMacs(accepted) : answer.tsig.mac.over = mac.over
  BY DEF Tsigs
<1>3. mac.over.requestMac = RequestMac(j) /\ mac.over.message = Stripped(answer)
  BY <1>1, <1>2, VerifiedIsSigned
<1>4. Stripped(answer).rcode = NoError
  BY <1>1 DEF Stripped
<1>5. PICK i : /\ mac.over.requestMac = RequestMac(i)
               /\ mac.over.message.rcode = NoError => i \in accepted
  BY ResponseMacIs
<1> QED
  BY <1>3, <1>4, <1>5, RequestMacTellsJobs

(* Signed or not, what an answer to job j comes to is an outcome, and it is *)
(* "ok" only when the secondary has taken the NOTIFY.                       *)
LEMMA VerdictIsTrue ==
  ASSUME NEW j \in Jobs, NEW v \in Verdicts(j) \ {"throws"}
  PROVE  v \in Outcomes \ {"none"} /\ (v = "ok" => j \in taken)
<1>1. CASE Signed
  <2>1. v \in {"ok", "refused", "badTsig"} /\ <<taken, j, v>> \in SignedVerdicts
    BY <1>1 DEF Verdicts
  <2>2. PICK h \in Headers, r \in Tsigs(taken) : v = Verdict(j, [header |-> h, tsig |-> r])
    <3> DEFINE Of(a, i) == {<<a, i, Verdict(i, [header |-> h, tsig |-> r])>> :
                              h \in {x \in Headers : IsAnswer(x)}, r \in Tsigs(a)}
               Says(i, h, r) == Verdict(i, [header |-> h, tsig |-> r])
    <3>1. SignedVerdicts = UNION {Of(a, i) : a \in SUBSET Jobs, i \in Jobs}
      BY DEF SignedVerdicts
    <3> HIDE DEF Of
    <3>2. PICK a \in SUBSET Jobs, i \in Jobs : <<taken, j, v>> \in Of(a, i)
      BY <2>1, <3>1, SMT
    <3>3. Of(a, i) = {<<a, i, Says(i, h, r)>> :
                        h \in {x \in Headers : IsAnswer(x)}, r \in Tsigs(a)}
      BY DEF Of
    <3> HIDE DEF Says
    <3>4. PICK h \in Headers, r \in Tsigs(a) : <<taken, j, v>> = <<a, i, Says(i, h, r)>>
      BY <3>2, <3>3, SMT
    <3>5. taken = a /\ j = i /\ v = Says(i, h, r)
      BY <3>4
    <3> QED
      BY <3>5 DEF Says
  <2>3. v = "ok" => j \in taken
    BY <2>2, SignedOkIsTaken
  <2> QED
    BY <2>1, <2>3 DEF Outcomes
<1>2. CASE ~Signed
  BY <1>2 DEF Verdicts, Outcomes
<1> QED
  BY <1>1, <1>2

(* Every way in which a NOTIFY settles is a Finish with an outcome.         *)
LEMMA SettlingIsFinish ==
  ASSUME NEW w \in Workers, IInv,
         Answer(w) \/ ShortDatagram(w) \/ SocketError(w) \/ GiveUp(w)
  PROVE  /\ worker[w].pc = "waiting"
         /\ UNCHANGED <<bad, taken>>
         /\ \E result \in Outcomes \ {"none"} :
              Finish(w, result) /\ (result = "ok" => worker[w].job \in taken)
<1>1. CASE Answer(w)
  <2>1. worker[w].job \in Jobs
    BY <1>1, Waiting DEF Answer, Waits
  <2> QED
    BY <1>1, <2>1, VerdictIsTrue DEF Answer, Waits
<1>2. CASE ShortDatagram(w) \/ SocketError(w) \/ GiveUp(w)
  BY <1>2 DEF Waits, ShortDatagram, SocketError, GiveUp, Outcomes
<1> QED
  BY <1>1, <1>2

(* The step, one action at a time.                                          *)
LEMMA IInvStep == IInv /\ [Next]_vars => IInv'
<1> SUFFICES ASSUME IInv, [Next]_vars PROVE IInv'
  OBVIOUS
<1>1. CASE Deliver
  BY <1>1, DeliverStep
<1>2. ASSUME NEW w \in Workers,
             Answer(w) \/ ShortDatagram(w) \/ SocketError(w) \/ GiveUp(w)
      PROVE  IInv'
  BY <1>2, SettlingIsFinish, FinishStep
<1>3. ASSUME NEW w \in Workers, Resend(w) PROVE IInv'
  BY <1>3, ResendStep
<1>6. ASSUME NEW w \in Workers, AnswerThrows(w) PROVE IInv'
  BY <1>6 DEF AnswerThrows, Waits, IInv, TypeOK, EachJobOnce, WaitingIsOpen, DoneAtEnd,
              ResolvedIsDone, NothingBeforeCall, NotifiedIsTaken, Busy, Done
<1>4. ASSUME NEW j \in Jobs, SecondaryTakes(j) PROVE IInv'
  BY <1>4 DEF SecondaryTakes, IInv, TypeOK, EachJobOnce, WaitingIsOpen, DoneAtEnd,
              ResolvedIsDone, NothingBeforeCall, NotifiedIsTaken
<1>5. CASE UNCHANGED vars
  BY <1>5 DEF vars, IInv, TypeOK, EachJobOnce, WaitingIsOpen, DoneAtEnd,
              ResolvedIsDone, NothingBeforeCall, NotifiedIsTaken
<1> QED
  BY <1>1, <1>2, <1>3, <1>4, <1>5, <1>6 DEF Next, Timer

(* IInv holds of every delivery.                                            *)
THEOREM InductiveInvariant == Spec => []IInv
  BY IInvInit, IInvStep, PTL DEF Spec

(* The types hold of every delivery.                                        *)
THEOREM TypeCorrect == Spec => []TypeOK
<1>1. IInv => TypeOK
  BY DEF IInv
<1> QED
  BY <1>1, InductiveInvariant, PTL

(* Whatever the network does, each job is with one worker at a time, and    *)
(* the workers skip none: those handed out are in work, thrown or settled.  *)
THEOREM JobsHandedOutOnce == Spec => []EachJobOnce
<1>1. IInv => EachJobOnce
  BY DEF IInv
<1> QED
  BY <1>1, InductiveInvariant, PTL

(* A secondary that deliver() counts as notified has taken the NOTIFY.      *)
THEOREM OkMeansTaken == Spec => []NotifiedIsTaken
<1>1. IInv => NotifiedIsTaken
  BY DEF IInv
<1> QED
  BY <1>1, InductiveInvariant, PTL

(* deliver() resolves with an outcome for every job, for any number of      *)
(* workers: none is left to a worker, since all have come to the list's end.*)
THEOREM OutcomeForAll == Spec => []ResolvesWithAll
<1>1. ASSUME IInv PROVE ResolvesWithAll
  <2> SUFFICES ASSUME call = "resolved", NEW j \in Jobs PROVE outcome[j] # "none"
    BY DEF ResolvesWithAll
  <2>1. \A w \in Workers : worker[w] = Done /\ worker[w].job # j
    BY <1>1, SMT DEF IInv, ResolvedIsDone, Done, Jobs
  <2>2. 1 \in Workers
    BY AxfrAssumption, SMT DEF AxfrAssumption, Workers, Jobs
  <2>3. next > NumJobs
    BY <1>1, <2>1, <2>2 DEF IInv, DoneAtEnd
  <2>4. j < next
    BY <1>1, <2>3, AxfrAssumption, SMT DEF AxfrAssumption, Jobs, IInv, TypeOK
  <2> QED
    BY <1>1, <2>1, <2>4 DEF IInv, EachJobOnce
<1> QED
  BY <1>1, InductiveInvariant, PTL

(* The outcome of a NOTIFY is final: nothing that comes late changes it.    *)
THEOREM OutcomeIsFinal == Spec => SettlesOnce
<1> DEFINE Final == \A j \in Jobs : outcome[j] # "none" => outcome'[j] = outcome[j]
<1>1. ASSUME IInv, [Next]_vars PROVE [Final]_vars
  <2>1. ASSUME NEW w \in Workers,
               Answer(w) \/ ShortDatagram(w) \/ SocketError(w) \/ GiveUp(w)
        PROVE  Final
    <3>1. worker[w].pc = "waiting"
          /\ \E result \in Outcomes : outcome' = [outcome EXCEPT ![worker[w].job] = result]
      BY <1>1, <2>1, SettlingIsFinish DEF Finish
    <3>2. outcome[worker[w].job] = "none"
      BY <1>1, <3>1 DEF IInv, WaitingIsOpen
    <3> QED
      BY <1>1, <3>1, <3>2 DEF IInv, TypeOK
  <2>2. ASSUME \/ Deliver
               \/ \E w \in Workers : Resend(w) \/ AnswerThrows(w)
               \/ \E j \in Jobs : SecondaryTakes(j)
        PROVE  Final
    BY <2>2 DEF Deliver, Resend, AnswerThrows, SecondaryTakes
  <2> QED
    BY <1>1, <2>1, <2>2 DEF Next, Timer
<1>2. IInv /\ [Next]_vars => [Final]_vars
  BY <1>1
<1> QED
  BY <1>2, InductiveInvariant, PTL DEF Spec, SettlesOnce
===============================================================================
