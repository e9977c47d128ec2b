-------------------------- MODULE FilePublishProofs --------------------------
(***************************************************************************)
(* Proofs about FilePublish, for any number of zones, edits and failures.   *)
(*                                                                         *)
(* That what is served was delivered is inductive only with what each stage *)
(* of a cycle has already made of the zones it read (Made), and with the    *)
(* stages that there are for an engine (StagesOf).                          *)
(***************************************************************************)
EXTENDS FilePublish, TLAPS

(* The zones yet to do are of this cycle.                                   *)
TodoIsRead == todo \subseteq Present(zones)

StagesOf ==
  /\ engine = "djbdns" =>
       /\ stage \in {"idle", "publish", "compile", "deliver"}
       /\ config = {}
       /\ stage = "publish" => todo = Present(zones)
  /\ engine # "djbdns" => stage # "compile"
  /\ engine # "bind" => stage \notin {"keys", "sign"}

(* What is there of the zones this cycle has read, at each stage.           *)
Made ==
  /\ stage = "publish" /\ engine # "djbdns" =>
       \A z \in Present(zones) \ todo : file[z] = Rendered(z)
  /\ stage = "config" => \A z \in Present(zones) : file[z] = Rendered(z)
  /\ stage = "compile" => file = ToServe(zones)
  /\ stage \in {"keys", "sign"} =>
       /\ config = Present(zones)
       /\ \A z \in todo : file[z] = Rendered(z)
       /\ \A z \in Present(zones) \ todo : file[z] = ToServe(zones)[z]
  /\ stage = "deliver" => Serves(file, config, cdb, zones)

(* All but what is at the remote host.                                      *)
LocalInv == TypeOK /\ TodoIsRead /\ StagesOf /\ Made /\ DeclaredHaveFiles

IInv == LocalInv /\ RemoteIsSent

-----------------------------------------------------------------------------
(* A version that a cycle has read makes a file, plain or signed.           *)
LEMMA RenderedIsFile ==
  ASSUME TypeOK, NEW z \in Present(zones)
  PROVE  /\ Rendered(z) \in Files
         /\ [Rendered(z) EXCEPT !.form = "signed"] = [version |-> zones[z], form |-> "signed"]
         /\ [version |-> zones[z], form |-> "signed"] \in Files
         /\ Rendered(z) # None
         /\ [version |-> zones[z], form |-> "signed"] # None
<1>1. z \in Zones /\ zones[z] \in 1 .. MaxEdits /\ zones[z] # 0
  BY FilePublishAssumption, SMT DEF FilePublishAssumption, TypeOK, Present, Versions
<1> QED
  BY <1>1 DEF Rendered, Files, None

LEMMA IInvInit == Init => IInv
<1> SUFFICES ASSUME Init PROVE IInv
  OBVIOUS
<1>1. TypeOK
  BY FilePublishAssumption, SMT
     DEF FilePublishAssumption, Init, TypeOK, Nothing, Empty, Versions, Files, Zones
<1>2. Present(Nothing) = {} /\ ToServe(Nothing) = Empty
  BY DEF Present, Nothing, ToServe, Empty
<1> QED
  BY <1>1, <1>2
     DEF Init, IInv, LocalInv, TodoIsRead, StagesOf, Made, RemoteIsSent, Sent, DeclaredHaveFiles

(* A step that leaves the remote host alone.                                *)
LEMMA RemoteKept ==
  ASSUME RemoteIsSent, UNCHANGED <<engine, remote>> PROVE RemoteIsSent'
<1>1. /\ UNCHANGED <<engine, remoteFile, remoteConfig, remoteCdb, Sent>>
      /\ \A zs : Present(zs)' = Present(zs) /\ ToServe(zs)' = ToServe(zs)
  BY DEF remote, Sent, Present, ToServe
<1> QED
  BY <1>1 DEF RemoteIsSent

-----------------------------------------------------------------------------
(* The steps, one action at a time.                                         *)
LEMMA BeginCycleStep == LocalInv /\ BeginCycle => LocalInv'
<1> SUFFICES ASSUME LocalInv, BeginCycle PROVE LocalInv'
  OBVIOUS
<1> USE DEF BeginCycle, NextStage, disk, remote
<1>1. TypeOK'
  BY DEF LocalInv, TypeOK, Present
<1>2. TodoIsRead' /\ StagesOf' /\ DeclaredHaveFiles'
  BY DEF LocalInv, TodoIsRead, StagesOf, DeclaredHaveFiles, Present
<1>3. Made'
  BY DEF Made, Present
<1> QED
  BY <1>1, <1>2, <1>3 DEF LocalInv

LEMMA PublishZoneStep ==
  ASSUME LocalInv, NEW z \in Zones, PublishZone(z) PROVE LocalInv'
<1> USE DEF PublishZone, NextStage, remote
<1>1. z \in Present(zones) /\ z \in todo
  BY DEF LocalInv, TodoIsRead, IsNext
<1>2. /\ Rendered(z) \in Files /\ Rendered(z) # None
      /\ file' = [file EXCEPT ![z] = Rendered(z)]
      /\ \A y \in Zones : Rendered(y)' = Rendered(y)
      /\ Present(zones)' = Present(zones)
  BY <1>1, RenderedIsFile DEF LocalInv, Rendered, Present
<1>3. TypeOK'
  BY <1>2 DEF LocalInv, TypeOK
<1>4. /\ file'[z] = Rendered(z)
      /\ \A y \in Zones : y # z => file'[y] = file[y]
  BY <1>2 DEF LocalInv, TypeOK
<1>5. TodoIsRead' /\ StagesOf'
  BY DEF LocalInv, TodoIsRead, StagesOf, Present
<1>6. Made'
  BY <1>2, <1>4 DEF LocalInv, Made, Present
<1>7. DeclaredHaveFiles'
  <2>1. config # Torn => \A y \in config : y \in Zones
    <3>1. config \in (SUBSET Zones) \cup {Torn}
      BY DEF LocalInv, TypeOK
    <3> QED
      BY <3>1
  <2> QED
    BY <1>2, <1>4, <2>1 DEF LocalInv, DeclaredHaveFiles
<1> QED
  BY <1>3, <1>5, <1>6, <1>7 DEF LocalInv

LEMMA ConfigStep == LocalInv /\ (OpenConfig \/ WriteConfig) => LocalInv'
<1> SUFFICES ASSUME LocalInv, OpenConfig \/ WriteConfig PROVE LocalInv'
  OBVIOUS
<1>1. /\ Present(zones)' = Present(zones) /\ ToServe(zones)' = ToServe(zones)
      /\ \A y \in Zones : Rendered(y)' = Rendered(y)
      /\ engine # "djbdns"
      /\ Present(zones) \subseteq Zones
  BY DEF OpenConfig, WriteConfig, remote, cycle, Present, ToServe, Rendered, LocalInv, StagesOf
<1>2. CASE OpenConfig
  <2> USE <1>2 DEF OpenConfig, remote, cycle
  <2>1. TypeOK'
    BY <1>1 DEF LocalInv, TypeOK
  <2>2. TodoIsRead' /\ StagesOf'
    BY <1>1 DEF LocalInv, TodoIsRead, StagesOf
  <2>3. Made'
    BY <1>1 DEF LocalInv, Made
  <2>4. DeclaredHaveFiles'
    BY <1>1 DEF LocalInv, DeclaredHaveFiles
  <2> QED
    BY <2>1, <2>2, <2>3, <2>4 DEF LocalInv
<1>3. CASE WriteConfig
  <2> USE <1>3 DEF WriteConfig, NextStage, remote
  <2>1. \A z \in Present(zones) : file[z] = Rendered(z) /\ file[z] # None
    BY RenderedIsFile DEF LocalInv, Made
  <2>2. TypeOK'
    BY <1>1 DEF LocalInv, TypeOK, Declared, Signable
  <2>3. TodoIsRead' /\ StagesOf'
    BY <1>1 DEF TodoIsRead, StagesOf, Signable
  <2>4. Made'
    <3>1. CASE Signable = {}
      <4>1. engine = "bind" => Present(zones) = {}
        BY <3>1 DEF Signable
      <4>2. \A z \in Present(zones) : ToServe(zones)[z] = Rendered(z)
        BY <4>1 DEF ToServe, Rendered, Present
      <4> QED
        BY <3>1, <1>1, <2>1, <4>2 DEF Made, Serves, Declared
    <3>2. CASE Signable # {}
      BY <3>2, <1>1, <2>1 DEF Made, Declared, Signable
    <3> QED
      BY <3>1, <3>2
  <2>5. DeclaredHaveFiles'
    BY <1>1, <2>1 DEF LocalInv, DeclaredHaveFiles, Declared
  <2> QED
    BY <2>2, <2>3, <2>4, <2>5 DEF LocalInv
<1> QED
  BY <1>2, <1>3

LEMMA DataStep == LocalInv /\ (PublishData \/ Compile) => LocalInv'
<1> SUFFICES ASSUME LocalInv, PublishData \/ Compile PROVE LocalInv'
  OBVIOUS
<1>0. engine = "djbdns" /\ engine' = engine /\ zones' = zones /\ config = {}
  BY DEF PublishData, Compile, LocalInv, StagesOf
<1>1. CASE PublishData
  <2> USE <1>1 DEF PublishData, remote
  <2>1. todo = Present(zones)
    BY DEF LocalInv, StagesOf
  <2>2. file' = ToServe(zones)
    BY <2>1, <1>0 DEF ToServe, Rendered, Present
  <2>3. file' \in [Zones -> Files]
    BY <2>1, RenderedIsFile DEF LocalInv, Files
  <2>4. TypeOK' /\ TodoIsRead' /\ StagesOf'
    BY <1>0, <2>3 DEF LocalInv, TypeOK, TodoIsRead, StagesOf
  <2>5. Made' /\ DeclaredHaveFiles'
    BY <1>0, <2>2 DEF LocalInv, Made, DeclaredHaveFiles, Serves, ToServe
  <2> QED
    BY <2>4, <2>5 DEF LocalInv
<1>2. CASE Compile
  BY <1>0, <1>2
     DEF Compile, remote, LocalInv, TypeOK, TodoIsRead, StagesOf, Made, DeclaredHaveFiles,
         Serves, ToServe, Present
<1> QED
  BY <1>1, <1>2

LEMMA KeysStep ==
  ASSUME LocalInv, NEW z \in Zones, KeysFound(z) \/ MakeKeys(z) PROVE LocalInv'
<1>1. /\ Present(zones)' = Present(zones) /\ ToServe(zones)' = ToServe(zones)
      /\ \A y \in Zones : Rendered(y)' = Rendered(y)
      /\ Present(zones) \subseteq Zones
      /\ UNCHANGED <<engine, source, edits, failures, file, config, cdb, zones, todo>>
      /\ stage = "keys" /\ stage' = "sign"
      /\ UNCHANGED <<remoteFile, remoteConfig, remoteCdb, shipped, since>>
  BY DEF KeysFound, MakeKeys, disk, remote, Present, ToServe, Rendered
<1>2. keys' \in [Zones -> SUBSET {"ZSK", "KSK"}]
  BY DEF KeysFound, MakeKeys, disk, LocalInv, TypeOK
<1>3. TypeOK' /\ TodoIsRead' /\ StagesOf' /\ DeclaredHaveFiles'
  BY <1>1, <1>2 DEF LocalInv, TypeOK, TodoIsRead, StagesOf, DeclaredHaveFiles
<1>4. Made'
  BY <1>1 DEF LocalInv, Made, TodoIsRead
<1> QED
  BY <1>3, <1>4 DEF LocalInv

LEMMA SignZoneStep ==
  ASSUME LocalInv, NEW z \in Zones, SignZone(z) PROVE LocalInv'
<1> USE DEF SignZone, NextStage, remote
<1>1. /\ z \in todo /\ z \in Present(zones) /\ engine = "bind" /\ stage = "sign"
      /\ config = Present(zones) /\ file[z] = Rendered(z)
  BY DEF LocalInv, TodoIsRead, StagesOf, Made, IsNext
<1>2. /\ Present(zones)' = Present(zones) /\ ToServe(zones)' = ToServe(zones)
      /\ \A y \in Zones : Rendered(y)' = Rendered(y)
      /\ Present(zones) \subseteq Zones
  BY DEF Present, ToServe, Rendered
<1>3. /\ file' = [file EXCEPT ![z] = [version |-> zones[z], form |-> "signed"]]
      /\ [version |-> zones[z], form |-> "signed"] \in Files
      /\ [version |-> zones[z], form |-> "signed"] # None
      /\ [version |-> zones[z], form |-> "signed"] = ToServe(zones)[z]
  <2>1. [file[z] EXCEPT !.form = "signed"] = [version |-> zones[z], form |-> "signed"]
    BY <1>1, RenderedIsFile DEF LocalInv
  <2>2. ToServe(zones)[z] = [version |-> zones[z], form |-> "signed"]
    BY <1>1 DEF ToServe, Present
  <2> QED
    BY <1>1, <2>1, <2>2, RenderedIsFile DEF LocalInv
<1>4. /\ file'[z] = ToServe(zones)[z] /\ file'[z] # None
      /\ \A y \in Zones : y # z => file'[y] = file[y]
  BY <1>3 DEF LocalInv, TypeOK
<1>5. TypeOK' /\ TodoIsRead' /\ StagesOf'
  BY <1>1, <1>2, <1>3 DEF LocalInv, TypeOK, TodoIsRead, StagesOf
<1>6. Made'
  <2>1. \A y \in todo' : file'[y] = Rendered(y)
    BY <1>1, <1>2, <1>4 DEF LocalInv, Made, TodoIsRead
  <2>2. \A y \in Present(zones) \ todo' : file'[y] = ToServe(zones)[y]
    BY <1>1, <1>2, <1>4 DEF LocalInv, Made
  <2>3. CASE todo' = {}
    <3>1. stage' = "deliver" /\ \A y \in Present(zones) : file'[y] = ToServe(zones)[y]
      BY <2>2, <2>3, <1>1
    <3>2. Serves(file, config, cdb, zones)'
      BY <3>1, <1>1, <1>2 DEF Serves
    <3> QED
      BY <3>1, <3>2 DEF Made
  <2>4. CASE todo' # {}
    <3>1. stage' = "keys" /\ config' = Present(zones)'
      BY <2>4, <1>1, <1>2
    <3>2. \A y \in todo' : file'[y] = Rendered(y)'
      BY <2>1, <1>2 DEF LocalInv, TodoIsRead
    <3>3. \A y \in (Present(zones) \ todo)' : file'[y] = ToServe(zones)'[y]
      BY <2>2, <1>2
    <3> QED
      BY <3>1, <3>2, <3>3 DEF Made
  <2> QED
    BY <2>3, <2>4
<1>7. DeclaredHaveFiles'
  BY <1>1, <1>2, <1>4 DEF LocalInv, DeclaredHaveFiles
<1> QED
  BY <1>5, <1>6, <1>7 DEF LocalInv

(* What a delivery sends is of the zones it has read, and what it has not   *)
(* sent yet is of an earlier one. A zone that it has not is none that all   *)
(* deliveries have.                                                         *)
LEMMA SendStep ==
  ASSUME IInv, SendConfig \/ SendData \/ SendCdb \/ \E z \in Zones : SendZone(z)
  PROVE  IInv'
<1> USE DEF Send, SendConfig, SendData, SendCdb, SendZone, disk, cycle
<1>1. /\ Serves(file, config, cdb, zones)
      /\ zones \in [Zones -> Versions]
      /\ UNCHANGED <<engine, file, config, cdb, stage, zones, todo>>
      /\ Sent' = Sent \cup {zones}
  BY DEF IInv, LocalInv, TypeOK, Made, Sent
<1>2. \A zs : Present(zs)' = Present(zs) /\ ToServe(zs)' = ToServe(zs)
  BY DEF Present, ToServe
<1>3. config \in SUBSET Zones
  BY <1>1 DEF Serves, Present, IInv, LocalInv, StagesOf
<1>4. TypeOK'
  BY <1>3 DEF IInv, LocalInv, TypeOK
<1>5. TodoIsRead' /\ StagesOf' /\ DeclaredHaveFiles'
  BY DEF IInv, LocalInv, TodoIsRead, StagesOf, DeclaredHaveFiles, Present
<1>6. Made'
  BY <1>1, <1>2 DEF IInv, LocalInv, Made, Serves, Rendered
<1>7. RemoteIsSent'
  <2>1. CASE engine = "djbdns"
    <3>1. remoteCdb' = remoteCdb \/ remoteCdb' = ToServe(zones)
      BY <1>1, <2>1 DEF Serves
    <3> QED
      BY <1>1, <1>2, <2>1, <3>1 DEF IInv, LocalInv, RemoteIsSent
  <2>2. CASE engine # "djbdns"
    <3>1. remoteConfig' = remoteConfig \/ remoteConfig' = Present(zones)
      BY <1>1, <2>2 DEF Serves
    <3>2. \E zs \in Sent' : remoteConfig' = Present(zs)
      BY <1>1, <2>2, <3>1 DEF IInv, LocalInv, RemoteIsSent
    <3>3. ASSUME NEW z \in Zones, \A zs \in Sent' : zs[z] # 0
          PROVE  \E zs \in Sent' : remoteFile'[z] = ToServe(zs)[z]
      <4>1. z \in Present(zones)
        BY <1>1, <3>3 DEF Present
      <4>2. file[z] = ToServe(zones)[z]
        BY <1>1, <2>2, <4>1 DEF Serves
      <4>3. remoteFile'[z] \in {remoteFile[z], file[z]}
        BY DEF IInv, LocalInv, TypeOK
      <4>4. \E zs \in Sent : remoteFile[z] = ToServe(zs)[z]
        BY <1>1, <2>2, <3>3 DEF IInv, LocalInv, RemoteIsSent
      <4> QED
        BY <1>1, <4>2, <4>3, <4>4
    <3> QED
      BY <1>1, <1>2, <2>2, <3>2, <3>3 DEF RemoteIsSent
  <2> QED
    BY <2>1, <2>2
<1> QED
  BY <1>4, <1>5, <1>6, <1>7 DEF IInv, LocalInv

LEMMA DeliveredStep == IInv /\ Delivered => IInv'
<1> SUFFICES ASSUME IInv, Delivered PROVE IInv'
  OBVIOUS
<1> USE DEF Delivered, disk
<1>1. /\ Serves(remoteFile, remoteConfig, remoteCdb, zones)
      /\ zones \in [Zones -> Versions]
      /\ Sent' = {zones}
  BY DEF IInv, LocalInv, TypeOK, Made, Sent
<1>2. \A zs : Present(zs)' = Present(zs) /\ ToServe(zs)' = ToServe(zs)
  BY DEF Present, ToServe
<1>3. TypeOK' /\ TodoIsRead' /\ StagesOf' /\ DeclaredHaveFiles' /\ Made'
  BY DEF IInv, LocalInv, TypeOK, TodoIsRead, StagesOf, DeclaredHaveFiles, Made, Present
<1>4. RemoteIsSent'
  BY <1>1, <1>2 DEF RemoteIsSent, Serves, Present
<1> QED
  BY <1>3, <1>4 DEF IInv, LocalInv

(* A cycle that ends early leaves what it has made.                         *)
LEMMA EndStep ==
  ASSUME LocalInv, EndCycle, failures' \in 0 .. MaxFailures PROVE LocalInv'
  BY DEF EndCycle, disk, remote, LocalInv, TypeOK, TodoIsRead, StagesOf, Made,
         DeclaredHaveFiles, Present

LEMMA MakeOneKeyStep ==
  ASSUME LocalInv, NEW z \in Zones, MakeOneKey(z) PROVE LocalInv'
<1>1. failures' \in 0 .. MaxFailures /\ keys' \in [Zones -> SUBSET {"ZSK", "KSK"}]
  BY FilePublishAssumption, SMT DEF FilePublishAssumption, MakeOneKey, LocalInv, TypeOK
<1> QED
  BY <1>1
     DEF MakeOneKey, remote, LocalInv, TypeOK, TodoIsRead, StagesOf, Made,
         DeclaredHaveFiles, Present

LEMMA EditStep ==
  ASSUME LocalInv, NEW z \in Zones, Edit(z) PROVE LocalInv'
<1>1. edits' \in 0 .. MaxEdits /\ source' \in [Zones -> Versions]
  <2>1. edits + 1 \in 0 .. MaxEdits /\ 0 \in 0 .. MaxEdits
    BY FilePublishAssumption, SMT DEF FilePublishAssumption, Edit, LocalInv, TypeOK
  <2> QED
    BY <2>1 DEF Edit, LocalInv, TypeOK, Versions
<1>2. /\ Present(zones)' = Present(zones) /\ ToServe(zones)' = ToServe(zones)
      /\ \A y \in Zones : Rendered(y)' = Rendered(y)
      /\ Present(zones) \subseteq Zones
      /\ UNCHANGED <<engine, failures, file, config, cdb, keys, stage, zones, todo>>
      /\ UNCHANGED <<remoteFile, remoteConfig, remoteCdb, shipped, since>>
  BY DEF Edit, disk, remote, cycle, Present, ToServe, Rendered
<1>3. TypeOK' /\ TodoIsRead' /\ StagesOf' /\ DeclaredHaveFiles'
  BY <1>1, <1>2 DEF LocalInv, TypeOK, TodoIsRead, StagesOf, DeclaredHaveFiles
<1>4. Made'
  BY <1>2 DEF LocalInv, Made, TodoIsRead, Serves
<1> QED
  BY <1>3, <1>4 DEF LocalInv

LEMMA IInvStep == IInv /\ [Next]_vars => IInv'
<1> SUFFICES ASSUME IInv, [Next]_vars PROVE IInv'
  OBVIOUS
<1>0. LocalInv /\ RemoteIsSent /\ TypeOK
  BY DEF IInv, LocalInv
<1>1. CASE BeginCycle
  BY <1>0, <1>1, BeginCycleStep, RemoteKept DEF BeginCycle, IInv
<1>2. CASE OpenConfig \/ WriteConfig
  BY <1>0, <1>2, ConfigStep, RemoteKept DEF OpenConfig, WriteConfig, IInv
<1>3. CASE PublishData \/ Compile
  BY <1>0, <1>3, DataStep, RemoteKept DEF PublishData, Compile, IInv
<1>4. CASE Deliver
  BY <1>4, SendStep, DeliveredStep DEF Deliver
<1>5. CASE Refused
  BY <1>0, <1>5, EndStep, RemoteKept DEF Refused, EndCycle, IInv, TypeOK
<1>6. CASE Fail
  <2>1. failures' \in 0 .. MaxFailures
    BY <1>0, <1>6, FilePublishAssumption, SMT DEF FilePublishAssumption, Fail, TypeOK
  <2> QED
    BY <1>0, <1>6, <2>1, EndStep, RemoteKept DEF Fail, EndCycle, IInv
<1>7. ASSUME NEW z \in Zones, ZoneStep(z) PROVE IInv'
  <2>1. CASE SendZone(z)
    BY <2>1, SendStep
  <2>2. CASE PublishZone(z) \/ KeysFound(z) \/ MakeKeys(z) \/ SignZone(z)
    <3>1. LocalInv'
      BY <1>0, <2>2, PublishZoneStep, KeysStep, SignZoneStep
    <3>2. UNCHANGED <<engine, remote>>
      BY <2>2 DEF PublishZone, KeysFound, MakeKeys, SignZone
    <3> QED
      BY <1>0, <3>1, <3>2, RemoteKept DEF IInv
  <2> QED
    BY <1>7, <2>1, <2>2 DEF ZoneStep
<1>8. ASSUME NEW z \in Zones, MakeOneKey(z) \/ Edit(z) PROVE IInv'
  BY <1>0, <1>8, MakeOneKeyStep, EditStep, RemoteKept DEF MakeOneKey, Edit, IInv
<1>9. CASE UNCHANGED vars
  <2>1. LocalInv'
    BY <1>0, <1>9
       DEF vars, disk, remote, cycle, LocalInv, TypeOK, TodoIsRead, StagesOf, Made,
           Rendered, DeclaredHaveFiles, Serves, ToServe, Present
  <2> QED
    BY <1>0, <1>9, <2>1, RemoteKept DEF vars, IInv
<1> QED
  BY <1>1, <1>2, <1>3, <1>4, <1>5, <1>6, <1>7, <1>8, <1>9 DEF Next, Step

(* IInv holds of every behaviour.                                           *)
THEOREM InductiveInvariant == Spec => []IInv
  BY IInvInit, IInvStep, PTL DEF Spec

(* The types hold, whatever fails where.                                    *)
THEOREM TypeCorrect == Spec => []TypeOK
<1>1. IInv => TypeOK
  BY DEF IInv, LocalInv
<1> QED
  BY <1>1, InductiveInvariant, PTL

(* What the remote server serves was delivered, whole and signed where      *)
(* zones are signed: by one delivery, or by several of which the later ones *)
(* broke off; for any number of zones, edits, failures and crashes, and     *)
(* whatever order rsync takes (rsync.js:27-33).                             *)
THEOREM DeliveredIsServed == Spec => []ServedIsDelivered
<1>1. IInv => ServedIsDelivered
  BY DEF IInv, LocalInv, ServedIsDelivered
<1> QED
  BY <1>1, InductiveInvariant, PTL
===============================================================================
