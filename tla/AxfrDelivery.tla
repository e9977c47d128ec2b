----------------------------- MODULE AxfrDelivery -----------------------------
(***************************************************************************)
(* lib/transport/axfr.js and lib/notify.js: one deliver() of the AXFR       *)
(* transport. It sends a NOTIFY per job (a zone and a secondary), a bounded *)
(* number at a time, over UDP: datagrams and answers are lost, delayed and  *)
(* duplicated, and each NOTIFY is retried on a timer.                       *)
(*                                                                         *)
(* The workers of _runBounded share the index "next". When a NOTIFY settles *)
(* its worker goes on and sends the first datagram of its next job before   *)
(* any other callback runs, so this is one step (Finish).                   *)
(*                                                                         *)
(* Whether and when a secondary takes a NOTIFY is the network's choice. An  *)
(* answer that came back for a job of an earlier socket finds it closed,    *)
(* unless a later socket has its port. A NOTIFY may be signed; then so is   *)
(* its answer, and what is damaged on the way does not verify (module Tsig).*)
(***************************************************************************)
EXTENDS Tsig, FiniteSets

CONSTANTS
  NumJobs,      \* length of jobs
  Concurrency,  \* this.concurrency
  Attempts,     \* this.attempts
  Unsendable,   \* jobs for which sendNotify may throw: the name does not encode
  Strays,       \* whether datagrams too short for a DNS header arrive
  TsigKey,      \* this.tsigKey
  Signed,       \* whether it is set
  Keys,         \* the keys that secondaries and others sign with
  Fudge,        \* DEFAULT_FUDGE
  Clock,        \* what the time of a secondary may be, ours being 0
  MacLengths    \* the octets of a MAC that may arrive

ASSUME AxfrAssumption ==
  /\ NumJobs \in Nat
  /\ Concurrency \in Nat \ {0}
  /\ Attempts \in Nat \ {0}
  /\ Unsendable \subseteq 1 .. NumJobs
  /\ Strays \in BOOLEAN
  /\ Signed \in BOOLEAN
  /\ MacLengths \subseteq Nat

Jobs    == 1 .. NumJobs
Workers == {w \in Jobs : w <= Concurrency}

VARIABLES
  bad,      \* the jobs for which it throws in this delivery
  call,     \* the promise of deliver(), or that the process has ended
  next,     \* index of the next job to take
  worker,   \* each worker: what it does, its job, the datagrams sent for it
  outcome,  \* of each job, how its sendNotify() resolved
  taken     \* the jobs whose NOTIFY the secondary has received and accepted

vars == <<bad, call, next, worker, outcome, taken>>

Outcomes == {"none", "ok", "refused", "badTsig", "undecodable", "socketError", "silent"}
Busy(j, n) == [pc |-> "waiting", job |-> j, tries |-> n]
Thrown(j)  == [pc |-> "thrown", job |-> j, tries |-> 0]
Done       == [pc |-> "done", job |-> 0, tries |-> 0]

WorkerStates ==
  {Done} \cup {Thrown(j) : j \in Jobs} \cup {Busy(j, n) : j \in Jobs, n \in 1 .. Attempts}

TypeOK ==
  /\ bad \in SUBSET Unsendable
  /\ call \in {"called", "running", "resolved", "rejected", "crashed"}
  /\ next \in 1 .. NumJobs + 1
  /\ worker \in [Workers -> WorkerStates]
  /\ outcome \in [Jobs -> Outcomes]
  /\ taken \in SUBSET Jobs

Init ==
  /\ bad \in SUBSET Unsendable
  /\ call = "called"
  /\ next = 1
  /\ worker = [w \in Workers |-> Done]
  /\ outcome = [j \in Jobs |-> "none"]
  /\ taken = {}

(* A worker that takes job n sends its first datagram, or throws.           *)
Taking(n) ==
  IF n > NumJobs THEN Done ELSE IF n \in bad THEN Thrown(n) ELSE Busy(n, 1)

(* Promise.all of the workers: it rejects with the first that throws, and   *)
(* resolves when all are done.                                              *)
Settling(ws) ==
  IF call # "running" THEN call
  ELSE IF \E w \in Workers : ws[w].pc = "thrown" THEN "rejected"
  ELSE IF \A w \in Workers : ws[w] = Done THEN "resolved"
  ELSE "running"

(* mutants of the definitions below, for the runs of PROJECT.json *)
Advance_TooLate == UNCHANGED next

LastTry_OffByOne(w) == worker[w].tries > Attempts

CountTry_Forgotten(w) == UNCHANGED worker

(* jobs[next++] *)
Advance == next' = IF next <= NumJobs THEN next + 1 ELSE next

(* Each worker takes a job as it is created, in order.                      *)
Deliver ==
  /\ call = "called"
  /\ worker' = [w \in Workers |-> Taking(w)]
  /\ next' = Cardinality(Workers) + 1
  /\ call' = IF Jobs = {} THEN "resolved"
             ELSE IF \E w \in Workers : w \in bad THEN "rejected" ELSE "running"
  /\ UNCHANGED <<bad, outcome, taken>>

(* finish(): the NOTIFY of worker w settles, its socket and timer are gone, *)
(* and the worker takes another job.                                        *)
Finish(w, result) ==
  /\ outcome' = [outcome EXCEPT ![worker[w].job] = result]
  /\ worker' = [worker EXCEPT ![w] = Taking(next)]
  /\ Advance
  /\ call' = Settling(worker')

(* A secondary gets the datagram of a job, at any time after it was sent,   *)
(* and will accept it.                                                      *)
SecondaryTakes(j) ==
  /\ call # "called"
  /\ j < next
  /\ j \notin bad \cup taken
  /\ taken' = taken \cup {j}
  /\ UNCHANGED <<bad, call, next, worker, outcome>>

(* NOTIFY and its response. The ids of two jobs may well be the same.       *)
Message(j, id, qr, rcode) == [zone |-> j, id |-> id, qr |-> qr, rcode |-> rcode, arcount |-> 0]
Request(j)                == Message(j, 1, 0, 0)
Response(j, rcode)        == Message(j, 1, 1, rcode)

RequestMac(j) == SignMessage(Request(j), TsigKey, Fudge, 0, NoMac).tsig.mac

NoError == 0
Refused == 5

(* The MACs there are: a secondary says "no error" when it has taken the    *)
(* NOTIFY, by its own clock and with a key that may be another one.         *)
ResponseMacs(accepted) ==
  {SignMessage(Response(j, NoError), key, Fudge, t, RequestMac(j)).tsig.mac :
     j \in accepted, key \in Keys, t \in Clock}
  \cup
  {SignMessage(Response(j, Refused), key, Fudge, t, RequestMac(j)).tsig.mac :
     j \in Jobs, key \in Keys, t \in Clock}

(* What can arrive: a MAC cannot be made on the way, but it can be cut off, *)
(* and any field besides it can be another.                                 *)
Headers ==
  [zone : Jobs, id : {1, 2}, qr : {0, 1}, rcode : {NoError, Refused}, arcount : {0, 1}]

Tsigs(accepted) ==
  {[name |-> key.name, algorithm |-> key.algorithm, timeSigned |-> t, fudge |-> Fudge,
    mac |-> [over |-> mac.over, length |-> length], originalId |-> id, error |-> error] :
      key \in Keys, t \in Clock, mac \in ResponseMacs(accepted), length \in MacLengths,
      id \in {1, 2}, error \in {0, 17}}

(* A datagram with another id or without the QR bit is ignored.             *)
IsAnswer(header) == header.id = 1 /\ header.qr = 1

(* What is made of an answer to a signed NOTIFY.                            *)
Verdict(j, answer) ==
  LET verified == VerifyMessage(answer, TsigKey, RequestMac(j), 0)
  IN  CASE verified = "throws" -> "throws"
        [] verified = "fails"  -> "badTsig"
        [] OTHER -> IF answer.header.rcode = NoError THEN "ok" ELSE "refused"

(* What an answer to job j's NOTIFY can come to when it is signed, with the *)
(* NOTIFYs that have been accepted.                                         *)
SignedVerdicts ==
  UNION {{<<accepted, j, Verdict(j, [header |-> h, tsig |-> r])>> :
            h \in {x \in Headers : IsAnswer(x)}, r \in Tsigs(accepted)} :
         accepted \in SUBSET Jobs, j \in Jobs}

(* Unsigned, an answer is what the secondary has sent.                      *)
Verdicts(j) ==
  IF Signed
  THEN {v \in {"ok", "refused", "badTsig", "throws"} : <<taken, j, v>> \in SignedVerdicts}
  ELSE {"refused"} \cup (IF j \in taken THEN {"ok"} ELSE {})

Waits(w) == call # "crashed" /\ worker[w].pc = "waiting"

Answer(w) ==
  /\ Waits(w)
  /\ \E result \in Verdicts(worker[w].job) \ {"throws"} : Finish(w, result)
  /\ UNCHANGED <<bad, taken>>

(* What verifyMessage() throws is thrown by the socket's listener: nobody   *)
(* catches it, and the process ends.                                        *)
AnswerThrows(w) ==
  /\ Waits(w)
  /\ "throws" \in Verdicts(worker[w].job)
  /\ call' = "crashed"
  /\ UNCHANGED <<bad, next, worker, outcome, taken>>

(* A datagram that decodeResponse cannot read ends the NOTIFY as well.      *)
ShortDatagram(w) ==
  /\ Strays
  /\ Waits(w)
  /\ Finish(w, "undecodable")
  /\ UNCHANGED <<bad, taken>>

(* The socket reports an error, or send() does.                             *)
SocketError(w) ==
  /\ Waits(w)
  /\ Finish(w, "socketError")
  /\ UNCHANGED <<bad, taken>>

LastTry(w) == worker[w].tries >= Attempts

CountTry(w) == worker' = [worker EXCEPT ![w] = Busy(@.job, @.tries + 1)]

(* The retry timer: attempt() sends again.                                  *)
Resend(w) ==
  /\ Waits(w)
  /\ ~LastTry(w)
  /\ CountTry(w)
  /\ UNCHANGED <<bad, call, next, outcome, taken>>

(* The retry timer after the last attempt.                                  *)
GiveUp(w) ==
  /\ Waits(w)
  /\ LastTry(w)
  /\ Finish(w, "silent")
  /\ UNCHANGED <<bad, taken>>

Timer(w) == Resend(w) \/ GiveUp(w)

Next ==
  \/ Deliver
  \/ \E w \in Workers :
       Answer(w) \/ AnswerThrows(w) \/ ShortDatagram(w) \/ SocketError(w) \/ Timer(w)
  \/ \E j \in Jobs : SecondaryTakes(j)

(* Only the timers are sure to happen: a secondary may never answer.        *)
Fairness == WF_vars(Deliver) /\ \A w \in Workers : WF_vars(Timer(w))

Spec == Init /\ [][Next]_vars /\ Fairness

-----------------------------------------------------------------------------
(* A job that counts as notified was taken by its secondary: no stray       *)
(* datagram, nor the answer to another job, settles it (notify.js:155-187). *)
NotifiedIsTaken == \A j \in Jobs : outcome[j] = "ok" => j \in taken

(* The jobs already handed out are each with one worker, or have settled,   *)
(* or threw; none is with two workers and none is skipped (axfr.js:80-103). *)
EachJobOnce ==
  /\ \A v, w \in Workers : worker[v] # Done /\ worker[v].job = worker[w].job => v = w
  /\ \A j \in Jobs :
       j < next <=> outcome[j] # "none" \/ \E w \in Workers : worker[w].job = j

(* deliver() resolves only with an outcome for every job, so that the       *)
(* failures it reports to the metrics are all there are (axfr.js:64-74).    *)
ResolvesWithAll == call = "resolved" => \A j \in Jobs : outcome[j] # "none"

(* A NOTIFY settles once: whatever comes late (an answer, an error, a       *)
(* timer) changes nothing (notify.js:142-144, 191-192).                     *)
SettlesOnce ==
  [][\A j \in Jobs : outcome[j] # "none" => outcome'[j] = outcome[j]]_vars

(* Silent secondaries do not hold deliver() up forever (notify.js:191-205): *)
(* unless a name does not encode, or an answer ends the process             *)
(* (NeverThrows), it resolves with all outcomes.                            *)
DeliverSettles ==
  (call = "running")
    ~> \/ call \in {"rejected", "crashed"}
       \/ call = "resolved" /\ \A j \in Jobs : outcome[j] # "none"

(* "Resolves with the outcome instead of throwing -- one unreachable        *)
(* secondary should not fail the whole delivery" (notify.js:113-115).       *)
NeverThrows == call \notin {"rejected", "crashed"}

(* "A stray packet on this socket is not our answer; keep waiting"          *)
(* (notify.js:162).                                                         *)
StrayIsIgnored == \A j \in Jobs : outcome[j] # "undecodable"
==============================================================================
