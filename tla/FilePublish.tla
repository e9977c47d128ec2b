----------------------------- MODULE FilePublish -----------------------------
(***************************************************************************)
(* A nameserver fed by files. For BIND, lib/publisher/rfc1035.js writes a   *)
(* file for each zone and the server's config, and lib/signer/rfc1035.js    *)
(* with lib/dnssec.js makes keys and signs each file in place. For MaraDNS, *)
(* lib/publisher/maradns.js writes the same without a signer. For djbdns,   *)
(* lib/publisher/tinydns-cdb.js writes one data file for all zones and has  *)
(* it compiled. lib/transport/rsync.js copies the directory to the remote   *)
(* host, one file after the other.                                          *)
(*                                                                         *)
(* Any step can fail, and the process can die at any step; either ends the  *)
(* cycle where it is. The files stay, and the next cycle finds them. A file *)
(* replaced by a rename is one step; the config is written in place. One    *)
(* cycle runs at a time: none of reload() beside it.                        *)
(***************************************************************************)
EXTENDS Integers

CONSTANTS
  NumZones,      \* the zones there can be, in the order of the zone map
  Engines,       \* the kinds of nameserver
  Unsafe,        \* the zones whose name safeFileName refuses
  MaxEdits,      \* bounds the edits of the zones
  MaxFailures    \* bounds the failures

ASSUME FilePublishAssumption ==
  /\ NumZones \in Nat
  /\ Engines \subseteq {"bind", "maradns", "djbdns"}
  /\ Unsafe \subseteq 1 .. NumZones
  /\ MaxEdits \in Nat
  /\ MaxFailures \in Nat

Zones    == 1 .. NumZones
Versions == 0 .. MaxEdits        \* of a zone; 0 when there is none
None     == [version |-> 0, form |-> "none"]
Files    == {None} \cup [version : 1 .. MaxEdits, form : {"plain", "signed"}]
Torn     == {0}                  \* a config that is being written

VARIABLES
  engine,
  source,     \* the version of each zone in the source
  edits, failures,
  file,       \* what there is of each zone in the directory: its file, or its
              \* part of the data file
  config,     \* the zones that the server's config declares, or Torn
  cdb,        \* what there is of each zone in data.cdb
  keys,       \* the key files of each zone
  remoteFile, remoteConfig, remoteCdb,   \* the directory at the remote host
  stage,      \* what the running cycle does next
  zones,      \* the zones it has read
  todo,       \* of those, the ones it has still to write, or to sign
  shipped,    \* the zones of the last delivery that was completed
  since       \* those of the deliveries since then that have changed the remote

disk   == <<file, config, cdb, keys>>
remote == <<remoteFile, remoteConfig, remoteCdb, shipped, since>>
cycle  == <<stage, zones, todo>>
vars   == <<engine, source, edits, failures, disk, remote, cycle>>

TypeOK ==
  /\ engine \in Engines
  /\ source \in [Zones -> Versions]
  /\ edits \in 0 .. MaxEdits
  /\ failures \in 0 .. MaxFailures
  /\ file \in [Zones -> Files]
  /\ config \in (SUBSET Zones) \cup {Torn}
  /\ cdb \in [Zones -> Files]
  /\ keys \in [Zones -> SUBSET {"ZSK", "KSK"}]
  /\ remoteFile \in [Zones -> Files]
  /\ remoteConfig \in SUBSET Zones
  /\ remoteCdb \in [Zones -> Files]
  /\ stage \in {"idle", "publish", "config", "compile", "keys", "sign", "deliver"}
  /\ zones \in [Zones -> Versions]
  /\ shipped \in [Zones -> Versions]
  /\ since \subseteq [Zones -> Versions]
  /\ todo \in SUBSET Zones
  /\ stage \in {"keys", "sign"} => todo # {}

Present(zs) == {z \in Zones : zs[z] # 0}
Nothing     == [z \in Zones |-> 0]
Empty       == [z \in Zones |-> None]

(* The zone that the loop over S comes to.                                  *)
IsNext(z, S) == z \in S /\ \A y \in S : z <= y

Init ==
  /\ engine \in Engines
  /\ source = Nothing
  /\ edits = 0
  /\ failures = 0
  /\ file = Empty
  /\ config = {}
  /\ cdb = Empty
  /\ keys = [z \in Zones |-> {}]
  /\ remoteFile = Empty
  /\ remoteConfig = {}
  /\ remoteCdb = Empty
  /\ stage = "idle"
  /\ zones = Nothing
  /\ todo = {}
  /\ shipped = Nothing
  /\ since = {}

-----------------------------------------------------------------------------
(* mutants of the definitions below, for the runs of PROJECT.json *)
NextStage_DeliversUnsigned(s) ==
  CASE s = "publish" -> "config" [] s = "config" -> "deliver" [] s = "sign" -> "deliver"

Signable_All == Zones

Rendered_OnlyNew(z) ==
  IF file[z] = None THEN [version |-> zones[z], form |-> "plain"] ELSE file[z]

(* What follows when a stage has done all zones.                            *)
NextStage(s) ==
  CASE s = "publish" -> "config" [] s = "config" -> "keys" [] s = "sign" -> "deliver"

(* The cycle reads its zones; publish() takes them in the map's order. One  *)
(* data file is written also when there is no zone.                         *)
BeginCycle ==
  /\ stage = "idle"
  /\ stage' = IF engine # "djbdns" /\ Present(source) = {} THEN NextStage("publish")
              ELSE "publish"
  /\ zones' = source
  /\ todo' = Present(source)
  /\ UNCHANGED <<engine, source, edits, failures, disk, remote>>

Rendered(z) == [version |-> zones[z], form |-> "plain"]

(* A zone file is written beside its place, and renamed.                    *)
PublishZone(z) ==
  /\ engine # "djbdns"
  /\ stage = "publish"
  /\ IsNext(z, todo)
  /\ z \notin Unsafe
  /\ file' = [file EXCEPT ![z] = Rendered(z)]
  /\ todo' = todo \ {z}
  /\ stage' = IF todo' = {} THEN NextStage(stage) ELSE stage
  /\ UNCHANGED <<engine, source, edits, failures, config, cdb, keys, zones, remote>>

(* The zones that publish() has written.                                    *)
Declared == Present(zones)

(* Those that sign() finds in the artifacts.                                *)
Signable == IF engine = "bind" THEN Present(zones) ELSE {}

OpenConfig ==
  /\ stage = "config"
  /\ config # Torn
  /\ config' = Torn
  /\ UNCHANGED <<engine, source, edits, failures, file, cdb, keys, remote, cycle>>

WriteConfig ==
  /\ stage = "config"
  /\ config = Torn
  /\ config' = Declared
  /\ todo' = Signable
  /\ stage' = IF Signable = {} THEN "deliver" ELSE NextStage(stage)
  /\ UNCHANGED <<engine, source, edits, failures, file, cdb, keys, zones, remote>>

(* All zones are rendered before anything is written; the data file has no  *)
(* others.                                                                  *)
PublishData ==
  /\ engine = "djbdns"
  /\ stage = "publish"
  /\ todo \cap Unsafe = {}
  /\ file' = [z \in Zones |-> IF z \in todo THEN Rendered(z) ELSE None]
  /\ todo' = {}
  /\ stage' = "compile"
  /\ UNCHANGED <<engine, source, edits, failures, config, cdb, keys, zones, remote>>

(* tinydns-data reads the data file, and replaces data.cdb by a rename.     *)
Compile ==
  /\ stage = "compile"
  /\ cdb' = file
  /\ stage' = "deliver"
  /\ UNCHANGED <<engine, source, edits, failures, file, config, keys, zones, todo, remote>>

(* existingKeys() finds none.                                               *)
NoKeys(z) == keys[z] = {}

(* ensureKeys(): a ZSK, and then a KSK, unless there is any key.            *)
KeysFound(z) ==
  /\ stage = "keys"
  /\ IsNext(z, todo)
  /\ ~NoKeys(z)
  /\ stage' = "sign"
  /\ UNCHANGED <<engine, source, edits, failures, disk, remote, zones, todo>>

MakeKeys(z) ==
  /\ stage = "keys"
  /\ IsNext(z, todo)
  /\ NoKeys(z)
  /\ keys' = [keys EXCEPT ![z] = {"ZSK", "KSK"}]
  /\ stage' = "sign"
  /\ UNCHANGED <<engine, source, edits, failures, file, config, cdb, remote, zones, todo>>

(* dnssec-keygen fails, or the process dies, before the KSK is made.        *)
MakeOneKey(z) ==
  /\ failures < MaxFailures
  /\ stage = "keys"
  /\ IsNext(z, todo)
  /\ NoKeys(z)
  /\ keys' = [keys EXCEPT ![z] = {"ZSK"}]
  /\ stage' = "idle"
  /\ todo' = {}
  /\ failures' = failures + 1
  /\ UNCHANGED <<engine, source, edits, file, config, cdb, remote, zones>>

(* signZoneFile(): dnssec-signzone, which needs both keys, and the rename.  *)
SignZone(z) ==
  /\ stage = "sign"
  /\ IsNext(z, todo)
  /\ keys[z] = {"ZSK", "KSK"}
  /\ file' = [file EXCEPT ![z].form = "signed"]
  /\ todo' = todo \ {z}
  /\ stage' = IF todo' = {} THEN NextStage(stage) ELSE "keys"
  /\ UNCHANGED <<engine, source, edits, failures, config, cdb, keys, remote, zones>>

(* rsync replaces, adds and deletes the files that differ, each by a rename *)
(* and in an order of its own. If it ends early, what it has done stays.    *)
Send ==
  /\ stage = "deliver"
  /\ since' = since \cup {zones}
  /\ UNCHANGED <<engine, source, edits, failures, disk, cycle, shipped>>

SendZone(z) ==
  /\ engine # "djbdns"
  /\ remoteFile[z] # file[z]
  /\ remoteFile' = [remoteFile EXCEPT ![z] = file[z]]
  /\ Send
  /\ UNCHANGED <<remoteConfig, remoteCdb>>

SendConfig ==
  /\ remoteConfig # config
  /\ remoteConfig' = config
  /\ Send
  /\ UNCHANGED <<remoteFile, remoteCdb>>

SendData ==
  /\ engine = "djbdns"
  /\ remoteFile # file
  /\ remoteFile' = file
  /\ Send
  /\ UNCHANGED <<remoteConfig, remoteCdb>>

SendCdb ==
  /\ remoteCdb # cdb
  /\ remoteCdb' = cdb
  /\ Send
  /\ UNCHANGED <<remoteFile, remoteConfig>>

Delivered ==
  /\ stage = "deliver"
  /\ remoteFile = file /\ remoteConfig = config /\ remoteCdb = cdb
  /\ shipped' = zones
  /\ since' = {}
  /\ stage' = "idle"
  /\ UNCHANGED <<engine, source, edits, failures, disk, remoteFile, remoteConfig,
                 remoteCdb, zones, todo>>

Deliver == SendConfig \/ SendData \/ SendCdb \/ Delivered

EndCycle ==
  /\ stage' = "idle"
  /\ todo' = {}
  /\ UNCHANGED <<engine, source, edits, disk, remote, zones>>

(* publish() throws at a name it refuses, dnssec-signzone without a KSK.    *)
Refused ==
  /\ \E z \in todo :
       \/ stage = "publish" /\ z \in Unsafe /\ (IsNext(z, todo) \/ engine = "djbdns")
       \/ stage = "sign" /\ keys[z] # {"ZSK", "KSK"} /\ IsNext(z, todo)
  /\ EndCycle
  /\ UNCHANGED failures

(* The current step fails before it has changed anything, or the process    *)
(* dies.                                                                    *)
Fail ==
  /\ stage # "idle"
  /\ failures < MaxFailures
  /\ failures' = failures + 1
  /\ EndCycle

(* A zone is created or changed, or deleted.                                *)
Edit(z) ==
  /\ edits < MaxEdits
  /\ edits' = edits + 1
  /\ source' \in {[source EXCEPT ![z] = edits + 1], [source EXCEPT ![z] = 0]}
  /\ source' # source
  /\ UNCHANGED <<engine, failures, disk, remote, cycle>>

ZoneStep(z) == PublishZone(z) \/ KeysFound(z) \/ MakeKeys(z) \/ SignZone(z) \/ SendZone(z)

Step == OpenConfig \/ WriteConfig \/ PublishData \/ Compile \/ Deliver \/ Refused
        \/ \E z \in Zones : ZoneStep(z)

Next == BeginCycle \/ Step \/ Fail \/ \E z \in Zones : MakeOneKey(z) \/ Edit(z)

(* The transport begins a cycle at each interval, and its steps end.        *)
Spec == Init /\ [][Next]_vars /\ WF_vars(BeginCycle \/ Step)

-----------------------------------------------------------------------------
(* What a server is to load of each zone.                                   *)
ToServe(zs) ==
  [z \in Zones |-> IF zs[z] = 0 THEN None
                   ELSE [version |-> zs[z],
                         form |-> IF engine = "bind" THEN "signed" ELSE "plain"]]

(* A server that reads this directory serves these zones.                   *)
Serves(theFile, theConfig, theCdb, zs) ==
  IF engine = "djbdns" THEN theCdb = ToServe(zs)
  ELSE /\ theConfig = Present(zs)
       /\ \A z \in Present(zs) : theFile[z] = ToServe(zs)[z]

Sent == {shipped} \cup since

RemoteIsSent ==
  IF engine = "djbdns" THEN \E zs \in Sent : remoteCdb = ToServe(zs)
  ELSE /\ \E zs \in Sent : remoteConfig = Present(zs)
       /\ \A z \in Zones : (\A zs \in Sent : zs[z] # 0)
                            => \E zs \in Sent : remoteFile[z] = ToServe(zs)[z]

DeclaredHaveFiles == config # Torn => \A z \in config : file[z] # None

(* What the server at the remote host serves is what one delivery brought,  *)
(* and signed where the zones are: none that a cycle wrote but did not live *)
(* to sign, or to compile. Only when later deliveries broke off half-way,   *)
(* it may be of several: the zones declared are still those of one of them, *)
(* each zone that all of them have is whole, signed and of one of them, and *)
(* data.cdb is all of one (rsync.js:27-33, tinydns-cdb.js:37-67). A server  *)
(* that reads the directory itself finds a file for each zone of a config   *)
(* that is written, whatever cycle failed where (rfc1035.js:32-62).         *)
ServedIsDelivered == RemoteIsSent /\ DeclaredHaveFiles

(* The files are signed "before Transport hands them to the downstream NS   *)
(* host" (signer/base.js:11-13), those that no config declares any more as  *)
(* well.                                                                    *)
SignedBeforeSent ==
  engine = "bind" => \A z \in Zones : remoteFile[z].form # "plain"

(* When edits and failures have ended, no zone has a refused name and none  *)
(* was left with one key, what is served becomes and stays what the source  *)
(* has, whatever earlier cycles have left in the directory.                 *)
Converges ==
  <>[](\A z \in Present(source) : z \notin Unsafe /\ keys[z] # {"ZSK"})
    => <>[]Serves(remoteFile, remoteConfig, remoteCdb, source)

(* "Make sure the zone has a KSK and a ZSK" (dnssec.js:79).                 *)
KeysAreComplete ==
  stage = "sign" => \A z \in todo : IsNext(z, todo) => keys[z] = {"ZSK", "KSK"}
===============================================================================
