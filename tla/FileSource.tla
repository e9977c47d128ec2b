------------------------------ MODULE FileSource ------------------------------
(***************************************************************************)
(* lib/source/file.js: the source that keeps zones in three files, watches   *)
(* their directory, and reads them one after the other.                     *)
(*                                                                         *)
(* A file is a version number: each write of the API replaces one file. The *)
(* watcher's stream starts late (FSEvents): what is written before it is    *)
(* live makes no event, and connect() compares the files' stamps after      *)
(* WATCH_START_MS, when the stream is taken to be live. Events of one file  *)
(* arrive late and merged.                                                  *)
(*                                                                         *)
(* The files are read by a nameserver in event mode: its start() connects   *)
(* the source, opens a worker as the transport is one (CoalescingWorker),   *)
(* and listens for zoneChanged once the first cycle has succeeded; stop()   *)
(* closes the worker and disconnects. It is started when no cycle runs.     *)
(***************************************************************************)
EXTENDS Integers

CONSTANTS
  MaxEdits,      \* bounds the writes to the store, in all
  MaxConnects,   \* bounds the calls of connect()
  MaxErrors      \* bounds the failures: of connect(), of the watcher, of reads

ASSUME FileSourceAssumption ==
  /\ MaxEdits \in Nat
  /\ MaxConnects \in Nat
  /\ MaxErrors \in Nat

(* zone, zone_record and nameserver, in the order getZones() loads them.    *)
Tables == 1 .. 3

VARIABLES
  store,        \* the version of each file
  \* the worker
  open, busy, asked, taken,
  listening,    \* the nameserver hears zoneChanged: no, yes, or start() awaits
                \* its first cycle and then will
  lost,         \* since the latest cycle began it has failed, or zoneChanged
                \* was emitted and not heard
  \* getZones(): the file it reads next, what it has read, and the last result
  reading, got, result,
  \* connect() and disconnect()
  lastCall,     \* the last of them; "early" is a disconnect() during connect()
  connects, errors,
  connecting,   \* a connect() awaits its stamps, or has them
  before,       \* the stamps it has taken
  watcher,      \* this._watcher: closed, open but not live yet, live
  event,        \* an event of this watcher is on its way
  sawEvent,     \* it has seen one
  startTimer,   \* this._startTimer is armed
  check,        \* the callback of it that awaits the stamps: of this watcher,
                \* of an earlier one, or none
  checkBefore, checkSaw,   \* what that callback knows of before and sawEvent
  settleTimer   \* this._settleTimer is armed

workerVars == <<open, busy, asked, taken, listening, lost>>
readVars   == <<reading, got, result>>
watchVars  == <<connecting, before, watcher, event, sawEvent, startTimer, check,
                checkBefore, checkSaw, settleTimer>>
callVars   == <<lastCall, connects, errors>>
vars       == <<store, workerVars, readVars, watchVars, callVars>>

W == INSTANCE CoalescingWorker

Versions == [Tables -> 0 .. MaxEdits]
Unread   == [t \in Tables |-> 0]

TypeOK ==
  /\ store \in Versions
  /\ listening \in {"no", "first", "yes"}
  /\ lost \in {"no", "yes"}
  /\ reading \in 1 .. 4
  /\ got \in Versions
  /\ result \in Versions
  /\ lastCall \in {"none", "connect", "disconnect", "early"}
  /\ connecting \in {"no", "stamping", "stamped"}
  /\ before \in Versions
  /\ watcher \in {"closed", "starting", "live"}
  /\ event \in {"none", "coming"}
  /\ sawEvent \in {"no", "yes"}
  /\ startTimer \in {"off", "armed"}
  /\ check \in {"none", "own", "stale"}
  /\ checkBefore \in Versions
  /\ checkSaw \in {"no", "yes"}
  /\ settleTimer \in {"off", "armed"}

Init ==
  /\ store = Unread
  /\ W!Init /\ open = FALSE
  /\ listening = "no"
  /\ lost = "no"
  /\ reading = 4
  /\ got = Unread
  /\ result = Unread
  /\ lastCall = "none"
  /\ connects = 0
  /\ errors = 0
  /\ connecting = "no"
  /\ before = Unread
  /\ watcher = "closed"
  /\ event = "none"
  /\ sawEvent = "no"
  /\ startTimer = "off"
  /\ check = "none"
  /\ checkBefore = Unread
  /\ checkSaw = "no"
  /\ settleTimer = "off"

-----------------------------------------------------------------------------
(* mutants of the definitions below, for the runs of PROJECT.json *)
StopWatching_KeepsTimers ==
  /\ watcher' = "closed"
  /\ event' = "none"
  /\ UNCHANGED <<startTimer, settleTimer, check, checkBefore, checkSaw>>

Recheck_Omitted == UNCHANGED settleTimer

StopWatching_Undefined ==
  /\ watcher' = "undefined"
  /\ event' = "none"
  /\ startTimer' = "off"
  /\ settleTimer' = "off"
  /\ UNCHANGED <<check, checkBefore, checkSaw>>

ReadNext_SkipsNameserver ==
  /\ got' = [got EXCEPT ![reading] = store[reading]]
  /\ reading' = IF reading = 2 THEN 4 ELSE reading + 1

(* A cycle of the worker begins in this step: it reads from the start.      *)
Begins == busy' /\ (~busy \/ taken' > taken)

BeginReading ==
  IF Begins THEN reading' = 1 /\ got' = Unread ELSE UNCHANGED <<reading, got>>

(* The rest of start(), after source.connect().                             *)
StartWorker ==
  /\ W!Open
  /\ BeginReading
  /\ Begins
  /\ listening' = "first"
  /\ lost' = "no"
  /\ UNCHANGED result

(* notifyZoneChanged(): the nameserver asks its worker for a cycle, if it   *)
(* hears it and has not stopped the worker.                                 *)
Announce ==
  /\ IF listening = "yes" /\ open
     THEN W!Ask /\ BeginReading /\ lost' = IF Begins THEN "no" ELSE lost
     ELSE UNCHANGED <<open, busy, asked, taken, reading, got>> /\ lost' = "yes"
  /\ UNCHANGED <<result, listening>>

(* What connect() closes over belongs to this watcher only.                 *)
StopWatching ==
  /\ watcher' = "closed"
  /\ event' = "none"
  /\ startTimer' = "off"
  /\ settleTimer' = "off"
  /\ IF check = "own"
     THEN check' = "stale" /\ checkBefore' = before /\ checkSaw' = sawEvent
     ELSE UNCHANGED <<check, checkBefore, checkSaw>>

-----------------------------------------------------------------------------
Connect ==
  /\ lastCall # "connect"
  /\ connects < MaxConnects
  /\ connecting = "no"
  /\ watcher = "closed"
  /\ ~open /\ ~busy
  /\ lastCall' = "connect"
  /\ connects' = connects + 1
  /\ connecting' = "stamping"
  /\ UNCHANGED <<store, workerVars, readVars, before, watcher, event, sawEvent,
                 startTimer, check, checkBefore, checkSaw, settleTimer, errors>>

(* fileStamps() of what is there before the watch.                          *)
Stamped ==
  /\ connecting = "stamping"
  /\ connecting' = "stamped"
  /\ before' = store
  /\ UNCHANGED <<store, workerVars, readVars, watcher, event, sawEvent, startTimer,
                 check, checkBefore, checkSaw, settleTimer, callVars>>

(* The rest of connect().                                                   *)
Watch ==
  /\ connecting = "stamped"
  /\ connecting' = "no"
  /\ watcher' = "starting"
  /\ sawEvent' = "no"
  /\ startTimer' = "armed"
  /\ StartWorker
  /\ UNCHANGED <<store, before, event, check, checkBefore, checkSaw, settleTimer, callVars>>

(* There is no directory to resolve, or the platform refuses to watch it:   *)
(* connect() catches that and returns without a watcher.                    *)
WatchFails ==
  /\ connecting # "no"
  /\ errors < MaxErrors
  /\ errors' = errors + 1
  /\ connecting' = "no"
  /\ StartWorker
  /\ UNCHANGED <<store, before, watcher, event, sawEvent, startTimer, check, checkBefore,
                 checkSaw, settleTimer, lastCall, connects>>

(* The nameserver's stop(). One that does not await its start() finds it in *)
(* connect(), or in the first cycle.                                        *)
Disconnect ==
  /\ lastCall = "connect"
  /\ lastCall' = IF connecting = "no" THEN "disconnect" ELSE "early"
  /\ W!Close
  /\ listening' = IF listening = "first" THEN "first" ELSE "no"
  /\ StopWatching
  /\ UNCHANGED <<store, lost, readVars, connecting, before, sawEvent, connects, errors>>

(* The watcher reports an error.                                            *)
WatcherError ==
  /\ watcher # "closed"
  /\ errors < MaxErrors
  /\ errors' = errors + 1
  /\ StopWatching
  /\ UNCHANGED <<store, workerVars, readVars, connecting, before, sawEvent, lastCall, connects>>

StreamLive ==
  /\ watcher = "starting"
  /\ watcher' = "live"
  /\ UNCHANGED <<store, workerVars, readVars, connecting, before, event, sawEvent,
                 startTimer, check, checkBefore, checkSaw, settleTimer, callVars>>

(* The watcher's callback: _settle().                                       *)
EventArrives ==
  /\ event = "coming"
  /\ event' = "none"
  /\ sawEvent' = "yes"
  /\ settleTimer' = "armed"
  /\ UNCHANGED <<store, workerVars, readVars, connecting, before, watcher, startTimer,
                 check, checkBefore, checkSaw, callVars>>

(* WATCH_START_MS is over. Taking the stamps is quicker than that.          *)
StartTimer ==
  /\ startTimer = "armed"
  /\ watcher = "live"
  /\ check = "none"
  /\ startTimer' = "off"
  /\ check' = "own"
  /\ UNCHANGED <<store, workerVars, readVars, connecting, before, watcher, event,
                 sawEvent, checkBefore, checkSaw, settleTimer, callVars>>

(* It settles if no event was seen and the stamps differ.                   *)
Recheck ==
  LET saw   == IF check = "own" THEN sawEvent ELSE checkSaw
      stamps == IF check = "own" THEN before ELSE checkBefore
  IN  settleTimer' = IF saw = "no" /\ watcher # "closed" /\ store # stamps
                     THEN "armed" ELSE settleTimer

CheckDone ==
  /\ check # "none"
  /\ check' = "none"
  /\ checkBefore' = Unread
  /\ checkSaw' = "no"
  /\ Recheck
  /\ UNCHANGED <<store, workerVars, readVars, connecting, before, watcher, event,
                 sawEvent, startTimer, callVars>>

(* The store has settled.                                                   *)
SettleTimer ==
  /\ settleTimer = "armed"
  /\ settleTimer' = "off"
  /\ Announce
  /\ UNCHANGED <<store, connecting, before, watcher, event, sawEvent, startTimer,
                 check, checkBefore, checkSaw, callVars>>

-----------------------------------------------------------------------------
BeginCycle ==
  /\ W!Begin
  /\ taken < asked
  /\ BeginReading
  /\ lost' = "no"
  /\ UNCHANGED <<store, listening, result, watchVars, callVars>>

(* _loadTable() of one file; the next is opened when it has been read.      *)
ReadNext ==
  /\ got' = [got EXCEPT ![reading] = store[reading]]
  /\ reading' = reading + 1

ReadTable ==
  /\ busy
  /\ reading \in Tables
  /\ ReadNext
  /\ UNCHANGED <<store, workerVars, result, watchVars, callVars>>

CycleDone ==
  /\ reading = 4
  /\ busy
  /\ result' = got
  /\ W!Finish
  /\ BeginReading
  /\ lost' = IF Begins THEN "no" ELSE lost
  /\ listening' = IF listening = "first" THEN "yes" ELSE listening
  /\ UNCHANGED <<store, watchVars, callVars>>

(* A file is there and cannot be read or parsed: getZones() throws, and the *)
(* cycle fails. A failed first cycle fails start() as well, and nobody      *)
(* listens.                                                                 *)
ReadFails ==
  /\ busy
  /\ reading \in Tables
  /\ errors < MaxErrors
  /\ errors' = errors + 1
  /\ W!Finish
  /\ IF Begins THEN BeginReading ELSE reading' = 4 /\ UNCHANGED got
  /\ lost' = IF Begins THEN "no" ELSE "yes"
  /\ listening' = IF listening = "first" THEN "no" ELSE listening
  /\ UNCHANGED <<store, result, watchVars, lastCall, connects>>

(* The API replaces a file of the store.                                    *)
Edit(t) ==
  /\ store[1] + store[2] + store[3] < MaxEdits
  /\ store' = [store EXCEPT ![t] = @ + 1]
  /\ event' = IF watcher = "live" THEN "coming" ELSE event
  /\ UNCHANGED <<workerVars, readVars, connecting, before, watcher, sawEvent, startTimer,
                 check, checkBefore, checkSaw, settleTimer, callVars>>

Next ==
  \/ Connect \/ Stamped \/ Watch \/ WatchFails \/ Disconnect
  \/ WatcherError \/ StreamLive \/ EventArrives
  \/ StartTimer \/ CheckDone \/ SettleTimer
  \/ BeginCycle \/ ReadTable \/ CycleDone \/ ReadFails
  \/ \E t \in Tables : Edit(t)

(* The file system answers, the stream goes live and delivers its events,   *)
(* timers fire, and the worker is fair.                                     *)
Fairness ==
  /\ WF_vars(Stamped \/ Watch \/ WatchFails)
  /\ WF_vars(StreamLive) /\ WF_vars(EventArrives)
  /\ WF_vars(StartTimer) /\ WF_vars(CheckDone) /\ WF_vars(SettleTimer)
  /\ WF_vars(BeginCycle) /\ WF_vars(ReadTable \/ CycleDone \/ ReadFails)

Spec == Init /\ [][Next]_vars /\ Fairness

-----------------------------------------------------------------------------
(* What announces a change to file t that no finished cycle has read: an    *)
(* event, a timer, the comparison of stamps to come, a cycle asked for, or  *)
(* the running cycle, if it has not read the file's older version.          *)
Noticed(t) ==
  \/ event = "coming"
  \/ settleTimer = "armed"
  \/ (startTimer = "armed" \/ check = "own") /\ sawEvent = "no" /\ store # before
  \/ taken < asked
  \/ busy /\ (reading <= t \/ got[t] = store[t])

(* While the source watches, no write is missed: not one made between the   *)
(* stamps and the watch, nor before the stream is live, nor to a file that  *)
(* the running cycle has already read (file.js:75-91, 112-115, 128-136).    *)
(* Only what was announced to nobody, or to a cycle that failed, waits for  *)
(* the next announcement.                                                   *)
NoWriteMissed ==
  watcher # "closed" /\ lost = "no" => \A t \in Tables : result[t] = store[t] \/ Noticed(t)

(* A disconnect() leaves no watcher and no timer, whatever check was under  *)
(* way; only one that comes during connect() does not hold (file.js:99-126).*)
QuietAfterDisconnect ==
  lastCall = "disconnect" => watcher = "closed" /\ startTimer = "off" /\ settleTimer = "off"

(* So a write gets read, and one that tears a read is read again, as long   *)
(* as the source watches and the nameserver listens, until the source is    *)
(* disconnected or fails once more. What an earlier failure, or an edit     *)
(* announced during the first cycle, has left behind gets read with the     *)
(* next write that is noticed. A connect() that could not watch, a watcher  *)
(* that failed and a failed first cycle promise nothing (file.js:85, 92-96, *)
(* 168; base.js:132-140).                                                   *)
Watched == watcher # "closed" /\ listening = "yes"
OnItsWay == lost = "no" \/ event = "coming" \/ settleTimer = "armed"

WritesAreRead ==
  \A t \in Tables : \A v \in 1 .. MaxEdits : \A n \in 0 .. MaxErrors :
    (Watched /\ OnItsWay /\ errors = n /\ store[t] >= v)
      ~> (result[t] >= v \/ lastCall # "connect" \/ errors > n)
==============================================================================
