--------------------------- MODULE FileSourceProofs ---------------------------
(***************************************************************************)
(* Proofs about FileSource, for any number of writes, connects and errors.  *)
(*                                                                         *)
(* That no write is missed is inductive only with what ties the worker to   *)
(* the watcher (WorkerOK), the watcher to its timer (WatchedFromStart), the *)
(* stamps to the files (StampsAreOld) and what was read to what was read    *)
(* before it (ReadsGoForward).                                              *)
(***************************************************************************)
EXTENDS FileSource, TLAPS

(* The worker is open while the source watches, and rests during connect(). *)
WorkerOK ==
  /\ open \in BOOLEAN
  /\ busy \in BOOLEAN
  /\ asked \in Nat /\ taken \in Nat
  /\ taken <= asked
  /\ watcher # "closed" => open
  /\ connecting # "no" => ~open /\ ~busy

(* An event comes from a stream that is live; one that is not live yet will *)
(* be compared with the stamps, and has seen nothing.                       *)
WatchedFromStart ==
  /\ watcher # "live" => event = "none"
  /\ watcher = "starting" => startTimer = "armed" /\ sawEvent = "no"
  /\ watcher = "closed" => startTimer = "off" /\ settleTimer = "off"
  /\ connecting # "no" => watcher = "closed" /\ lastCall \in {"connect", "early"}
  /\ lastCall = "disconnect" => watcher = "closed"

StampsAreOld == \A t \in Tables : before[t] <= store[t]

(* No read goes back behind the one before it, nor ahead of the files.      *)
ReadsGoForward ==
  \A t \in Tables :
    /\ result[t] <= store[t]
    /\ got[t] <= store[t]
    /\ busy /\ t < reading => result[t] <= got[t]

IInv == TypeOK /\ WorkerOK /\ WatchedFromStart /\ StampsAreOld /\ ReadsGoForward /\ NoWriteMissed

USE DEF Tables, Versions

-----------------------------------------------------------------------------
LEMMA IInvInit == Init => IInv
<1> SUFFICES ASSUME Init PROVE IInv
  OBVIOUS
<1>1. Unread \in Versions /\ \A t \in Tables : Unread[t] = 0
  BY FileSourceAssumption DEF FileSourceAssumption, Unread
<1>2. TypeOK
  BY <1>1 DEF Init, TypeOK
<1>3. WorkerOK
  <2>1. open = FALSE /\ busy = FALSE /\ watcher = "closed" /\ connecting = "no"
    BY DEF Init, W!Init
  <2>2. asked \in Nat /\ taken \in Nat /\ taken <= asked
    BY SMT DEF Init, W!Init
  <2> QED
    BY <2>1, <2>2 DEF WorkerOK
<1>4. WatchedFromStart /\ NoWriteMissed
  BY DEF Init, WatchedFromStart, NoWriteMissed
<1>5. StampsAreOld /\ ReadsGoForward
  BY <1>1 DEF Init, W!Init, StampsAreOld, ReadsGoForward
<1> QED
  BY <1>2, <1>3, <1>4, <1>5 DEF IInv

(* A cycle that begins reads every file: every write is noticed.            *)
LEMMA StartNotices ==
  ASSUME IInv, StartWorker, UNCHANGED store
  PROVE  /\ open' = TRUE /\ busy' = TRUE /\ taken' \in Nat /\ asked' \in Nat
         /\ taken' <= asked' /\ ReadsGoForward'
         /\ reading' \in 1 .. 4 /\ got' \in Versions /\ result' = result
         /\ listening' = "first" /\ lost' = "no"
         /\ \A t \in Tables : Noticed(t)'
<1> USE DEF StartWorker, W!Open, Begins, BeginReading, Unread
<1>1. busy' = TRUE /\ reading' = 1 /\ got' = Unread /\ taken' \in {taken, asked}
  BY DEF IInv, WorkerOK
<1> QED
  BY <1>1, FileSourceAssumption
     DEF FileSourceAssumption, IInv, TypeOK, WorkerOK, ReadsGoForward, Noticed

(* The worker is asked for a cycle, whether or not it begins one at once:   *)
(* from then on every write is noticed. Or nobody hears it.                 *)
LEMMA AnnounceNotices ==
  ASSUME IInv, Announce, UNCHANGED <<store, watcher, connecting>>
  PROVE  /\ WorkerOK' /\ ReadsGoForward'
         /\ reading' \in 1 .. 4 /\ got' \in Versions /\ result' = result
         /\ listening' = listening /\ lost' \in {"no", "yes"}
         /\ lost' = "yes" \/ \A t \in Tables : Noticed(t)'
<1> USE DEF Announce, BeginReading, Begins, Unread
<1>1. CASE listening = "yes" /\ open /\ UNCHANGED <<busy, taken>>
  BY <1>1 DEF W!Ask, IInv, TypeOK, WorkerOK, ReadsGoForward, Noticed
<1>2. CASE listening = "yes" /\ open /\ ~busy /\ busy' = TRUE /\ taken' = asked + 1
  <2>1. reading' = 1 /\ got' = Unread
    BY <1>2
  <2> QED
    BY <1>2, <2>1, FileSourceAssumption
       DEF FileSourceAssumption, W!Ask, IInv, TypeOK, WorkerOK, ReadsGoForward, Noticed
<1>3. CASE ~(listening = "yes" /\ open)
  BY <1>3 DEF IInv, TypeOK, WorkerOK, ReadsGoForward
<1> QED
  BY <1>1, <1>2, <1>3 DEF W!Ask
-----------------------------------------------------------------------------
(* The steps of connect() and disconnect().                                 *)
LEMMA ConnectStep == IInv /\ (Connect \/ Stamped) => IInv'
<1> SUFFICES ASSUME IInv, Connect \/ Stamped PROVE IInv'
  OBVIOUS
<1> USE DEF Connect, Stamped, workerVars, readVars, callVars
<1>1. watcher = "closed" /\ watcher' = "closed"
  BY DEF IInv, WatchedFromStart
<1>2. TypeOK' /\ WorkerOK'
  BY DEF IInv, TypeOK, WorkerOK
<1>3. WatchedFromStart' /\ NoWriteMissed'
  BY <1>1 DEF IInv, WatchedFromStart, NoWriteMissed
<1>4. StampsAreOld' /\ ReadsGoForward'
  BY DEF IInv, TypeOK, StampsAreOld, ReadsGoForward
<1> QED
  BY <1>2, <1>3, <1>4 DEF IInv

LEMMA WatchStep == IInv /\ (Watch \/ WatchFails) => IInv'
<1> SUFFICES ASSUME IInv, Watch \/ WatchFails PROVE IInv'
  OBVIOUS
<1> USE DEF Watch, WatchFails, callVars
<1>1. WorkerOK' /\ ReadsGoForward' /\ NoWriteMissed'
  BY StartNotices DEF NoWriteMissed, WorkerOK
<1>2. TypeOK'
  BY StartNotices DEF IInv, TypeOK
<1>3. WatchedFromStart' /\ StampsAreOld'
  BY DEF IInv, WatchedFromStart, StampsAreOld
<1> QED
  BY <1>1, <1>2, <1>3 DEF IInv

LEMMA SettleStep == IInv /\ SettleTimer => IInv'
<1> SUFFICES ASSUME IInv, SettleTimer PROVE IInv'
  OBVIOUS
<1> USE DEF SettleTimer, callVars
<1>1. WorkerOK' /\ ReadsGoForward' /\ NoWriteMissed'
  BY AnnounceNotices DEF NoWriteMissed
<1>2. TypeOK'
  BY AnnounceNotices DEF IInv, TypeOK
<1>3. WatchedFromStart' /\ StampsAreOld'
  BY DEF IInv, WatchedFromStart, StampsAreOld
<1> QED
  BY <1>1, <1>2, <1>3 DEF IInv

LEMMA CloseStep == IInv /\ (Disconnect \/ WatcherError) => IInv'
<1> SUFFICES ASSUME IInv, Disconnect \/ WatcherError PROVE IInv'
  OBVIOUS
<1> USE DEF Disconnect, WatcherError, StopWatching, W!Close, workerVars, readVars
<1>1. TypeOK' /\ WorkerOK'
  <2>1. TypeOK'
    BY DEF IInv, TypeOK
  <2>2. open' \in BOOLEAN /\ (watcher' # "closed" => open')
    BY DEF IInv, WorkerOK
  <2>3. connecting # "no" => ~open'
    BY DEF IInv, WorkerOK
  <2>4. UNCHANGED <<busy, asked, taken, connecting>>
    OBVIOUS
  <2> QED
    BY <2>1, <2>2, <2>3, <2>4 DEF IInv, WorkerOK
<1>2. WatchedFromStart' /\ NoWriteMissed'
  BY DEF IInv, TypeOK, WatchedFromStart, NoWriteMissed
<1>3. StampsAreOld' /\ ReadsGoForward'
  BY DEF IInv, TypeOK, StampsAreOld, ReadsGoForward
<1> QED
  BY <1>1, <1>2, <1>3 DEF IInv

-----------------------------------------------------------------------------
(* The steps of the watcher and of the comparison after it.                 *)
LEMMA StreamStep == IInv /\ (StreamLive \/ EventArrives \/ StartTimer) => IInv'
<1> SUFFICES ASSUME IInv, StreamLive \/ EventArrives \/ StartTimer PROVE IInv'
  OBVIOUS
<1> USE DEF StreamLive, EventArrives, StartTimer, workerVars, readVars, callVars
<1>1. TypeOK' /\ WorkerOK' /\ WatchedFromStart'
  BY DEF IInv, TypeOK, WorkerOK, WatchedFromStart
<1>2. StampsAreOld' /\ ReadsGoForward'
  BY DEF IInv, TypeOK, StampsAreOld, ReadsGoForward
<1>3. ASSUME NEW t \in Tables, Noticed(t) PROVE Noticed(t)'
  BY <1>3 DEF IInv, TypeOK, Noticed
<1>4. NoWriteMissed'
  BY <1>3 DEF IInv, TypeOK, NoWriteMissed
<1> QED
  BY <1>1, <1>2, <1>4 DEF IInv

LEMMA CheckStep == IInv /\ CheckDone => IInv'
<1> SUFFICES ASSUME IInv, CheckDone PROVE IInv'
  OBVIOUS
<1> USE DEF CheckDone, Recheck, workerVars, readVars, callVars
<1>0. Unread \in Versions
  BY FileSourceAssumption DEF FileSourceAssumption, Unread
<1>1. TypeOK' /\ WorkerOK' /\ WatchedFromStart'
  BY <1>0 DEF IInv, TypeOK, WorkerOK, WatchedFromStart
<1>2. StampsAreOld' /\ ReadsGoForward'
  BY DEF IInv, TypeOK, StampsAreOld, ReadsGoForward
<1>3. ASSUME watcher # "closed", NEW t \in Tables, Noticed(t) PROVE Noticed(t)'
  BY <1>3 DEF IInv, TypeOK, Noticed
<1>4. NoWriteMissed'
  BY <1>3 DEF IInv, TypeOK, NoWriteMissed
<1> QED
  BY <1>1, <1>2, <1>4 DEF IInv

-----------------------------------------------------------------------------
(* The steps of the worker.                                                 *)
LEMMA BeginCycleStep == IInv /\ BeginCycle => IInv'
<1> SUFFICES ASSUME IInv, BeginCycle PROVE IInv'
  OBVIOUS
<1> USE DEF BeginCycle, W!Begin, Begins, BeginReading, watchVars, callVars
<1>1. reading' = 1 /\ got' = Unread /\ busy' = TRUE /\ Unread \in Versions
  BY FileSourceAssumption DEF FileSourceAssumption, Unread
<1>2. TypeOK' /\ WatchedFromStart' /\ StampsAreOld'
  BY <1>1 DEF IInv, TypeOK, WatchedFromStart, StampsAreOld
<1>3. WorkerOK'
  BY <1>1 DEF IInv, WorkerOK
<1>4. ReadsGoForward' /\ NoWriteMissed'
  BY <1>1 DEF IInv, TypeOK, ReadsGoForward, NoWriteMissed, Noticed, Unread
<1> QED
  BY <1>2, <1>3, <1>4 DEF IInv

LEMMA ReadTableStep == IInv /\ ReadTable => IInv'
<1> SUFFICES ASSUME IInv, ReadTable PROVE IInv'
  OBVIOUS
<1> USE DEF ReadTable, ReadNext, workerVars, watchVars, callVars
<1>1. TypeOK' /\ WorkerOK' /\ WatchedFromStart' /\ StampsAreOld'
  BY DEF IInv, TypeOK, WorkerOK, WatchedFromStart, StampsAreOld
<1>2. ReadsGoForward' /\ NoWriteMissed'
  BY DEF IInv, TypeOK, ReadsGoForward, NoWriteMissed, Noticed
<1> QED
  BY <1>1, <1>2 DEF IInv

LEMMA FinishKeepsWorker ==
  ASSUME IInv, W!Finish, UNCHANGED <<watcher, connecting>> PROVE WorkerOK'
<1>1. /\ open' = open /\ busy /\ busy' \in BOOLEAN
      /\ asked' = asked /\ taken' \in {taken, asked}
  BY DEF W!Finish, IInv, WorkerOK
<1>2. asked' \in Nat /\ taken' \in Nat /\ taken' <= asked'
  BY <1>1, SMT DEF IInv, WorkerOK
<1> QED
  BY <1>1, <1>2 DEF IInv, WorkerOK

LEMMA CycleDoneStep == IInv /\ CycleDone => IInv'
<1> SUFFICES ASSUME IInv, CycleDone PROVE IInv'
  OBVIOUS
<1> USE DEF CycleDone, W!Finish, Begins, BeginReading, watchVars, callVars
<1>1. Unread \in Versions /\ \A t \in Tables : Unread[t] = 0
  BY FileSourceAssumption DEF FileSourceAssumption, Unread
<1>2. TypeOK' /\ WatchedFromStart' /\ StampsAreOld'
  BY <1>1 DEF IInv, TypeOK, WatchedFromStart, StampsAreOld
<1>3. WorkerOK'
  BY FinishKeepsWorker
<1>4. ReadsGoForward'
  BY <1>1 DEF IInv, TypeOK, WorkerOK, ReadsGoForward
(* What was read as it is now is the result. Any other file is noticed      *)
(* otherwise, or is one that the cycle which follows reads.                 *)
<1>5. ASSUME watcher # "closed", lost' = "no", NEW t \in Tables
      PROVE  result'[t] = store'[t] \/ Noticed(t)'
  <2>1. CASE taken' = taken
    <3>1. result[t] = store[t] => got[t] = store[t]
      BY DEF IInv, TypeOK, ReadsGoForward
    <3> QED
      BY <2>1, <3>1, <1>5 DEF IInv, TypeOK, NoWriteMissed, Noticed
  <2>2. CASE taken' = asked /\ taken < asked /\ busy' = busy
    <3>1. busy' /\ reading' = 1
      BY <2>2
    <3> QED
      BY <3>1 DEF Noticed
  <2> QED
    BY <2>1, <2>2
<1>6. NoWriteMissed'
  BY <1>5 DEF NoWriteMissed
<1> QED
  BY <1>2, <1>3, <1>4, <1>6 DEF IInv

(* A cycle that fails leaves it to the next announcement, unless one was     *)
(* asked for meanwhile.                                                     *)
LEMMA ReadFailsStep == IInv /\ ReadFails => IInv'
<1> SUFFICES ASSUME IInv, ReadFails PROVE IInv'
  OBVIOUS
<1> USE DEF ReadFails, BeginReading, watchVars
<1>1. Unread \in Versions /\ \A t \in Tables : Unread[t] = 0
  BY FileSourceAssumption DEF FileSourceAssumption, Unread
<1>2. TypeOK' /\ WatchedFromStart' /\ StampsAreOld'
  BY <1>1 DEF IInv, TypeOK, WatchedFromStart, StampsAreOld
<1>3. WorkerOK'
  BY FinishKeepsWorker
<1>4. ReadsGoForward'
  <2>1. CASE Begins
    BY <1>1, <2>1 DEF IInv, TypeOK, ReadsGoForward
  <2>2. CASE ~Begins
    <3>1. ~busy'
      BY <2>2 DEF Begins, W!Finish, IInv, WorkerOK
    <3> QED
      BY <2>2, <3>1 DEF IInv, ReadsGoForward
  <2> QED
    BY <2>1, <2>2
<1>5. NoWriteMissed'
  BY DEF NoWriteMissed, Noticed, Begins
<1> QED
  BY <1>2, <1>3, <1>4, <1>5 DEF IInv

-----------------------------------------------------------------------------
(* A write while the stream is not live differs from the stamps.            *)
LEMMA EditStep ==
  ASSUME IInv, NEW t \in Tables, Edit(t) PROVE IInv'
<1> USE DEF Edit, workerVars, readVars, callVars
<1>1. store[t] + 1 \in 0 .. MaxEdits
  BY FileSourceAssumption DEF FileSourceAssumption, IInv, TypeOK
<1>2. TypeOK' /\ WorkerOK' /\ WatchedFromStart'
  BY <1>1 DEF IInv, TypeOK, WorkerOK, WatchedFromStart
<1>3. StampsAreOld' /\ ReadsGoForward'
  BY <1>1 DEF IInv, TypeOK, StampsAreOld, ReadsGoForward
<1>4. store' # before'
  BY DEF IInv, TypeOK, StampsAreOld
<1>5. NoWriteMissed'
  BY <1>4 DEF IInv, TypeOK, WatchedFromStart, NoWriteMissed, Noticed
<1> QED
  BY <1>2, <1>3, <1>5 DEF IInv

LEMMA IInvStep == IInv /\ [Next]_vars => IInv'
<1> SUFFICES ASSUME IInv, [Next]_vars PROVE IInv'
  OBVIOUS
<1>1. CASE UNCHANGED vars
  BY <1>1 DEF vars, workerVars, readVars, watchVars, callVars, IInv, TypeOK, WorkerOK,
              WatchedFromStart, StampsAreOld, ReadsGoForward, NoWriteMissed, Noticed
<1> QED
  BY <1>1, ConnectStep, WatchStep, SettleStep, CloseStep, StreamStep, CheckStep,
     BeginCycleStep, ReadTableStep, CycleDoneStep, ReadFailsStep, EditStep
     DEF Next

-----------------------------------------------------------------------------
LEMMA IInvHolds == Spec => []IInv
BY IInvInit, IInvStep, PTL DEF Spec

(* Files, stamps, timers and reads are what they can be.                    *)
THEOREM TypeCorrect == Spec => []TypeOK
<1>1. IInv => TypeOK
  BY DEF IInv
<1> QED
  BY <1>1, IInvHolds, PTL

(* While the source watches, whatever has been written to a file since it   *)
(* was read is on its way to be read: in an event, a timer, the comparison  *)
(* of the stamps, or a cycle (file.js:75-91, 112-115, 128-136); unless the  *)
(* latest cycle failed, or an announcement after it began was not heard.    *)
THEOREM AllWritesNoticed == Spec => []NoWriteMissed
<1>1. IInv => NoWriteMissed
  BY DEF IInv
<1> QED
  BY <1>1, IInvHolds, PTL

(* A disconnect() that does not come during a connect() leaves no watcher   *)
(* and no timer, and no callback under way makes one (file.js:99-126).      *)
THEOREM DisconnectIsQuiet == Spec => []QuietAfterDisconnect
<1>1. IInv => QuietAfterDisconnect
  BY DEF IInv, WatchedFromStart, QuietAfterDisconnect
<1> QED
  BY <1>1, IInvHolds, PTL
===============================================================================
