------------------------------ MODULE Nameserver ------------------------------
(***************************************************************************)
(* lib/base.js: a nameserver composed of a source, a publisher and the      *)
(* transport of module Transport, which decides when publishCycle() runs   *)
(* and whose actions are part of the actions here.                          *)
(*                                                                         *)
(*   source.getZones -> publisher.publish -> signer.sign, transport.deliver *)
(*                                                                         *)
(* Each await of publishCycle(), start() and stop() is a point where other  *)
(* actions can come in between. The zones are a version number: "store" is  *)
(* the number of edits made so far, "served" the number of edits that the   *)
(* published data reflects. Signing and delivering are one stage: neither   *)
(* changes what was published, and either can fail.                         *)
(*                                                                         *)
(* The source and the publisher are of the kind that holds a connection     *)
(* pool and opens it on demand (MysqlSource, PowerdnsDbPublisher).          *)
(***************************************************************************)
EXTENDS Transport

CONSTANT MaxReloads   \* bound: calls of reload() at one time

ASSUME NameserverAssumption == MaxReloads \in Nat

VARIABLES
  store,         \* edits made to the zones so far
  unannounced,   \* an edit the source has not emitted zoneChanged for
  served,        \* the edits that the published data reflects
  cycle,         \* each call of publishCycle(): its stage, what it has read
  state,         \* this.state
  listening,     \* _onZoneChanged is attached to the source
  startPc,       \* where start() is: not called, awaiting connect, or the cycle
  stopPc,        \* where stop() is: not called, awaiting one disconnect or the other
  sourceOpen,    \* the source has a connection pool
  publisherOpen, \* the publisher has one
  lastCall,      \* the last of start() and stop() to be called; "stopBusy" is a
                 \* stop() during a cycle
  closing,       \* whether the disconnect that stop() awaits has a pool to close
  stopRejected   \* a stop() has rejected, and neither call has succeeded since

transportVars == vars
zoneVars == <<store, unannounced, served>>
callVars == <<state, listening, startPc, stopPc, lastCall, closing, stopRejected>>
openVars == <<sourceOpen, publisherOpen>>
nameserverVars == <<transportVars, zoneVars, cycle, callVars, openVars>>

Reloads  == 1 .. MaxReloads
CycleIds == {0} \cup Reloads      \* 0 is the transport's cycle
Stages   == {"idle", "read", "publish", "deliver"}
Idle     == [stage |-> "idle", zones |-> 0]
Reading  == [stage |-> "read", zones |-> 0]

NoCycle == \A c \in CycleIds : cycle[c].stage = "idle"

NameserverTypeOK ==
  /\ TypeOK
  /\ store \in 0 .. MaxChanges
  /\ unannounced \in BOOLEAN
  /\ served \in 0 .. store
  /\ cycle \in [CycleIds -> [stage : Stages, zones : 0 .. store]]
  /\ running <=> cycle[0].stage # "idle"
  /\ state \in {"stopped", "running"}
  /\ listening \in BOOLEAN
  /\ startPc \in {"none", "connect", "cycle"}
  /\ stopPc \in {"none", "source", "publisher"}
  /\ sourceOpen \in BOOLEAN
  /\ publisherOpen \in BOOLEAN
  /\ lastCall \in {"none", "start", "stop", "stopBusy"}
  /\ closing \in BOOLEAN
  /\ stopRejected \in BOOLEAN

NameserverInit ==
  /\ Init
  /\ store = 0
  /\ unannounced = FALSE
  /\ served = 0
  /\ cycle = [c \in CycleIds |-> Idle]
  /\ state = "stopped"
  /\ listening = FALSE
  /\ startPc = "none"
  /\ stopPc = "none"
  /\ sourceOpen = FALSE
  /\ publisherOpen = FALSE
  /\ lastCall = "none"
  /\ closing = FALSE
  /\ stopRejected = FALSE

-----------------------------------------------------------------------------
(* mutants of the definitions below, for the runs of PROJECT.json *)
FollowTransport_KeepsStage ==
  /\ cycle' = [cycle EXCEPT ![0] = IF CycleBegins THEN Reading ELSE @]
  /\ sourceOpen' = (sourceOpen \/ CycleBegins)

StopPublisher_KeepsOpen ==
  /\ stopPc = "source"
  /\ stopPc' = "publisher"
  /\ closing' = publisherOpen
  /\ UNCHANGED <<transportVars, zoneVars, cycle, state, listening, startPc,
                 lastCall, stopRejected, openVars>>

(* The transport's cycle begins, ends or goes on as its step says. A source *)
(* asked for its zones connects if it has to (source/mysql.js:72).          *)
FollowTransport ==
  /\ cycle' = [cycle EXCEPT ![0] = IF CycleBegins THEN Reading
                                   ELSE IF running' THEN @ ELSE Idle]
  /\ sourceOpen' = (sourceOpen \/ CycleBegins)

MayStart ==
  /\ startPc = "none"
  /\ stopPc = "none"
  /\ starts < MaxStarts
  /\ lastCall # "start"
  /\ CleanRestart => ~running

(* start(): first it awaits source.connect(). *)
NameserverStart ==
  /\ MayStart
  /\ startPc' = "connect"
  /\ sourceOpen' = TRUE
  /\ lastCall' = "start"
  /\ UNCHANGED <<transportVars, zoneVars, cycle, state, listening, stopPc,
                 closing, stopRejected, publisherOpen>>

(* source.connect() makes no pool and rejects, and start() with it.         *)
ConnectFails ==
  /\ MayStart
  /\ ~sourceOpen
  /\ lastCall' = "start"
  /\ UNCHANGED <<transportVars, zoneVars, cycle, state, listening, startPc, stopPc,
                 closing, stopRejected, openVars>>

(* It drops the listeners of an earlier start() and starts the transport,   *)
(* which runs the first cycle.                                              *)
StartTransport ==
  /\ startPc = "connect"
  /\ startPc' = "cycle"
  /\ listening' = FALSE
  /\ Start
  /\ FollowTransport
  /\ UNCHANGED <<zoneVars, state, stopPc, lastCall, closing, stopRejected, publisherOpen>>

(* The end of start(), when transport.start() has resolved: only now is the *)
(* nameserver told of changes. A failed cycle makes start() reject and      *)
(* leaves everything as it is.                                              *)
StartSettles(ok) ==
  IF startPc = "cycle" /\ startWaiters > 0
  THEN /\ startPc' = "none"
       /\ IF ok
          THEN listening' = TRUE /\ state' = "running" /\ stopRejected' = FALSE
          ELSE UNCHANGED <<listening, state, stopRejected>>
  ELSE UNCHANGED <<startPc, listening, state, stopRejected>>

(* stop(): the transport stops at once, then the source is disconnected: it *)
(* lets go of its pool, and awaits its end. The owner awaits its start()    *)
(* before it stops, and may call stop() again when it has rejected.         *)
NameserverStop ==
  /\ stopPc = "none"
  /\ startPc = "none"
  /\ lastCall = "start" \/ stopRejected
  /\ IF starts > 0 /\ ~stopped THEN Stop ELSE UNCHANGED transportVars
  /\ sourceOpen' = FALSE
  /\ closing' = sourceOpen
  /\ stopPc' = "source"
  /\ lastCall' = IF NoCycle THEN "stop" ELSE "stopBusy"
  /\ UNCHANGED <<zoneVars, cycle, state, listening, startPc, stopRejected, publisherOpen>>

(* Then the publisher. *)
StopPublisher ==
  /\ stopPc = "source"
  /\ stopPc' = "publisher"
  /\ publisherOpen' = FALSE
  /\ closing' = publisherOpen
  /\ UNCHANGED <<transportVars, zoneVars, cycle, state, listening, startPc,
                 lastCall, stopRejected, sourceOpen>>

Stopped ==
  /\ stopPc = "publisher"
  /\ stopPc' = "none"
  /\ listening' = FALSE
  /\ state' = "stopped"
  /\ closing' = FALSE
  /\ stopRejected' = FALSE
  /\ UNCHANGED <<transportVars, zoneVars, cycle, startPc, lastCall, openVars>>

(* A pool does not end in order: stop() rejects where it is, with the       *)
(* publisher still open if it was the source's, the listener attached and   *)
(* the state as it was.                                                     *)
DisconnectFails ==
  /\ stopPc # "none"
  /\ closing
  /\ stopPc' = "none"
  /\ closing' = FALSE
  /\ stopRejected' = TRUE
  /\ UNCHANGED <<transportVars, zoneVars, cycle, state, listening, startPc, lastCall, openVars>>

(* reload() runs a cycle of its own, without asking the transport. The owner *)
(* reloads what it has started.                                             *)
Reload(c) ==
  /\ lastCall = "start"
  /\ cycle[c] = Idle
  /\ cycle' = [cycle EXCEPT ![c] = Reading]
  /\ sourceOpen' = TRUE
  /\ UNCHANGED <<transportVars, zoneVars, callVars, publisherOpen>>

-----------------------------------------------------------------------------
(* Someone edits a zone. The source emits zoneChanged some time later       *)
(* (FileSource waits for its store to settle), once for several edits.      *)
Edit ==
  /\ store < MaxChanges
  /\ store' = store + 1
  /\ unannounced' = TRUE
  /\ UNCHANGED <<transportVars, served, cycle, callVars, openVars>>

(* The source emits zoneChanged: nobody listens, or the transport ignores   *)
(* it, or it takes it.                                                      *)
Announce ==
  /\ unannounced
  /\ unannounced' = FALSE
  /\ IF listening /\ interval = 0 /\ ~stopped
     THEN NotifyChange /\ FollowTransport
     ELSE UNCHANGED <<transportVars, cycle, sourceOpen>>
  /\ UNCHANGED <<store, served, callVars, publisherOpen>>

(* The transport's own timers and the passing of time. *)
TransportTimer ==
  /\ CooldownFire \/ IntervalFire \/ Tick
  /\ FollowTransport
  /\ UNCHANGED <<zoneVars, callVars, publisherOpen>>

-----------------------------------------------------------------------------
(* getZones() returns what the zones were at one moment since it was asked; *)
(* publish() follows at once and connects if it has to.                     *)
ReadDone(c) ==
  /\ cycle[c].stage = "read"
  /\ cycle' = [cycle EXCEPT ![c] = [stage |-> "publish", zones |-> store]]
  /\ publisherOpen' = TRUE
  /\ UNCHANGED <<transportVars, zoneVars, callVars, sourceOpen>>

PublishDone(c) ==
  /\ cycle[c].stage = "publish"
  /\ cycle' = [cycle EXCEPT ![c].stage = "deliver"]
  /\ served' = cycle[c].zones
  /\ UNCHANGED <<transportVars, store, unannounced, callVars, openVars>>

NameserverCycleDone ==
  /\ cycle[0].stage = "deliver"
  /\ CycleDone
  /\ FollowTransport
  /\ StartSettles(TRUE)
  /\ UNCHANGED <<zoneVars, stopPc, lastCall, closing, publisherOpen>>

(* Any stage can fail. *)
NameserverCycleFailed ==
  /\ CycleFailed
  /\ FollowTransport
  /\ StartSettles(FALSE)
  /\ UNCHANGED <<zoneVars, stopPc, lastCall, closing, publisherOpen>>

ReloadDone(c) ==
  /\ cycle[c].stage = "deliver"
  /\ cycle' = [cycle EXCEPT ![c] = Idle]
  /\ UNCHANGED <<transportVars, zoneVars, callVars, openVars>>

(* reload() rejects with what its cycle threw, at any stage.                *)
ReloadFails(c) ==
  /\ cycle[c].stage # "idle"
  /\ cycle' = [cycle EXCEPT ![c] = Idle]
  /\ UNCHANGED <<transportVars, zoneVars, callVars, openVars>>

NameserverNext ==
  \/ NameserverStart \/ ConnectFails \/ StartTransport
  \/ NameserverStop \/ StopPublisher \/ Stopped \/ DisconnectFails
  \/ Edit \/ Announce
  \/ TransportTimer
  \/ \E c \in CycleIds : ReadDone(c) \/ PublishDone(c)
  \/ \E c \in Reloads : Reload(c) \/ ReloadDone(c) \/ ReloadFails(c)
  \/ NameserverCycleDone \/ NameserverCycleFailed

(* As for the transport; besides, source.connect() and the disconnects      *)
(* settle, each stage ends, and a watching source announces its edits.      *)
NameserverFairness ==
  /\ WF_nameserverVars(StartTransport)
  /\ WF_nameserverVars(StopPublisher \/ Stopped \/ DisconnectFails)
  /\ WF_nameserverVars(Announce)
  /\ WF_nameserverVars(TransportTimer)
  /\ \A c \in CycleIds : WF_nameserverVars(ReadDone(c) \/ PublishDone(c))
  /\ \A c \in Reloads : WF_nameserverVars(ReloadDone(c) \/ ReloadFails(c))
  /\ WF_nameserverVars(NameserverCycleDone \/ NameserverCycleFailed)

NameserverSpec == NameserverInit /\ [][NameserverNext]_nameserverVars /\ NameserverFairness

-----------------------------------------------------------------------------
Released == ~sourceOpen /\ ~publisherOpen /\ ~listening

(* A nameserver that says it runs has a transport that is open, unless      *)
(* stop() is under way, and hears of changes (base.js:143, 147-155). A      *)
(* stop() between two cycles leaves no connection and no listener behind    *)
(* when it has returned, whatever the transport does until the next start() *)
(* (base.js:147-168), also when an earlier stop() has rejected. Of a stop() *)
(* that rejects nothing of this is claimed: the state stays "running" while *)
(* the transport is stopped, and the publisher may be open; but the source  *)
(* is not, and the transport begins no cycle.                               *)
ConnectionsFollowState ==
  /\ state = "running" /\ ~stopRejected => listening /\ (~stopped \/ stopPc # "none")
  /\ lastCall = "stop" /\ stopPc = "none" =>
       ~sourceOpen /\ ~running /\ (stopRejected \/ Released)

(* So does a stop() during a cycle, once that cycle has ended: "Leaving     *)
(* them open kept the process alive after a clean stop()" (base.js:150-152).*)
BusyStopReleases ==
  lastCall = "stopBusy" /\ stopPc = "none" /\ NoCycle => stopRejected \/ Released

(* Two cycles never run at the same time (test/transport.js:137, "publish   *)
(* cycles must not overlap").                                               *)
OneCycle ==
  \A c, d \in CycleIds : cycle[c].stage # "idle" /\ cycle[d].stage # "idle" => c = d

(* An edit that the source announces to a nameserver that listens gets      *)
(* published, and in interval mode also one it does not hear of, unless the *)
(* nameserver is stopped or a cycle fails.                                  *)
RunningEditServed ==
  \A v \in 1 .. MaxChanges :
    ((listening \/ (interval > 0 /\ up)) /\ ~stopped /\ unannounced /\ store >= v)
      ~> (served >= v \/ stopped \/ failures > 0)

(* In event mode too, an edit is published that is made at any time after   *)
(* start() has connected the source (transport/base.js:78-79, "Remember it  *)
(* and run once more when that cycle ends").                                *)
EditServed ==
  \A v \in 1 .. MaxChanges :
    (startPc = "cycle" /\ unannounced /\ store >= v)
      ~> (served >= v \/ stopped \/ failures > 0)
==============================================================================
