--------------------------- MODULE NameserverProofs ---------------------------
(***************************************************************************)
(* Proofs about Transport and about Nameserver, which drives one, for every *)
(* interval, cooldown and bound. Spec is the transport with any owner,      *)
(* NameserverSpec the nameserver with the transport in it.                  *)
(*                                                                         *)
(* The invariant of the transport adds to its properties what they rest on: *)
(*   WindowTimer   an armed cooldown timer ends with the window, no earlier;*)
(*   PendingWindow a follow-up is asked for only once the window is over,   *)
(*                 when no timer is armed any more;                         *)
(*   DownIsQuiet   a transport that is down has nothing armed;              *)
(*   IdleHasNoWaiters  nobody awaits a cycle that is not running.           *)
(* PendingWindow is what makes a follow-up cycle keep to the cooldown, and  *)
(* DownIsQuiet with IdleHasNoWaiters what makes a clean restart begin with  *)
(* no chain of ticks.                                                       *)
(*                                                                         *)
(* A stop() of the nameserver leaves nothing open because the transport     *)
(* that it stops first can begin no cycle any more: its invariant adds      *)
(*   CallOrder     how far start() and stop() have come, against the state, *)
(*                 the listener and the transport;                          *)
(*   StopIsQuiet   after a stop() between cycles no cycle begins, and what  *)
(*                 stop() has disconnected stays so.                        *)
(***************************************************************************)
EXTENDS Nameserver, TLAPS

WindowTimer ==
  cooldownTimer # Unarmed
    => interval = 0 /\ ~stopped /\ cooldownTimer + sinceRun >= Cooldown

PendingWindow ==
  pending => /\ interval = 0
             /\ running
             /\ ~stopped
             /\ sinceRun >= Cooldown
             /\ cooldownTimer = Unarmed

DownIsQuiet ==
  stopped \/ starts = 0
    => ~timer /\ orphans = 0 /\ cooldownTimer = Unarmed /\ ~pending

IdleHasNoWaiters ==
  ~running => tickWaiters = 0 /\ startWaiters = 0

TicksNeedInterval ==
  timer \/ orphans > 0 \/ tickWaiters > 0 => interval > 0

NoOrphans == orphans = 0

NothingBeforeStart == starts = 0 => ~running /\ changed = 0

TransportInvariant ==
  /\ TypeOK
  /\ WindowTimer
  /\ PendingWindow
  /\ DownIsQuiet
  /\ IdleHasNoWaiters
  /\ TicksNeedInterval
  /\ NoOrphans
  /\ NothingBeforeStart
  /\ SingleChain
  /\ ChangeNotForgotten
  /\ NoNeedlessCycle

-----------------------------------------------------------------------------
(* The types hold for every owner. *)
LEMMA TransportTypesInit == Init => TypeOK
<1> SUFFICES ASSUME Init PROVE FlagsOK /\ CountsOK
  BY DEF TypeOK
<1>1. FlagsOK
  BY Zenon DEF Init, FlagsOK
<1>2. CountsOK
  BY TransportAssumption, SMT DEF TransportAssumption, Init, CountsOK, Unarmed
<1> QED
  BY <1>1, <1>2

(* The interval is set once, by the constructor.                            *)
LEMMA IntervalKept == [Next]_vars => UNCHANGED interval
BY Zenon DEF Next, Start, Stop, NotifyChange, CooldownFire, IntervalFire, CycleDone,
             CycleFailed, Settle, Tick, vars, ownerVars

(* The flags stay Boolean: first-order reasoning, one action at a time.     *)
LEMMA FlagsOKStep == FlagsOK /\ [Next]_vars => FlagsOK'
<1> SUFFICES ASSUME FlagsOK, [Next]_vars PROVE FlagsOK'
  OBVIOUS
<1> USE DEF FlagsOK
<1>1. CASE Start
  BY <1>1, Zenon DEF Start, RunOrJoin, BeginCycle
<1>2. CASE Stop
  BY <1>2, Zenon DEF Stop, CancelTimers
<1>3. CASE NotifyChange
  BY <1>3, Zenon DEF NotifyChange, RunForChange, BeginCycle, chainVars, ownerVars
<1>4. CASE CooldownFire
  BY <1>4, Zenon DEF CooldownFire, RunForChange, BeginCycle, chainVars, ownerVars
<1>5. CASE IntervalFire
  BY <1>5, Zenon DEF IntervalFire, RunOrJoin, BeginCycle, ownerVars
<1>6. ASSUME NEW ok \in BOOLEAN, Settle(ok) PROVE FlagsOK'
  BY <1>6, Zenon DEF Settle, FollowUp, BeginCycle, Schedule
<1>7. CASE CycleDone \/ CycleFailed
  BY <1>6, <1>7, Zenon DEF CycleDone, CycleFailed
<1>8. CASE Tick
  BY <1>8, Zenon DEF Tick, chainVars, ownerVars
<1>9. CASE UNCHANGED vars
  BY <1>9, Zenon DEF vars, schedVars, chainVars, ownerVars
<1> QED
  BY <1>1, <1>2, <1>3, <1>4, <1>5, <1>7, <1>8, <1>9, Zenon DEF Next

(* The counters stay in their ranges: arithmetic, one action at a time.     *)
LEMMA CountsOKStep == CountsOK /\ [Next]_vars => CountsOK'
<1> SUFFICES ASSUME CountsOK, [Next]_vars PROVE CountsOK'
  OBVIOUS
<1> USE TransportAssumption DEF TransportAssumption, CountsOK, Unarmed
<1>1. CASE Start
  BY <1>1 DEF Start, RunOrJoin, BeginCycle
<1>2. CASE Stop
  BY <1>2 DEF Stop, CancelTimers, changeVars
<1>3. CASE NotifyChange
  BY <1>3 DEF NotifyChange, RunForChange, BeginCycle, ClearCooldownTimer, Wait,
              chainVars, ownerVars
<1>4. CASE CooldownFire
  BY <1>4 DEF CooldownFire, RunForChange, BeginCycle, chainVars, ownerVars
<1>5. CASE IntervalFire
  BY <1>5 DEF IntervalFire, RunOrJoin, BeginCycle, ownerVars
<1>6. ASSUME NEW ok \in BOOLEAN, Settle(ok), failures' \in 0 .. MaxFailures
      PROVE  CountsOK'
  <2>1. Schedulers(ok) \in Nat
    BY DEF Schedulers
  <2>2. orphans' \in Nat
    BY <1>6, <2>1 DEF Settle, Schedule
  <2> QED
    BY <1>6, <2>2 DEF Settle, FollowUp, BeginCycle
<1>7. CASE CycleDone
  <2>1. Settle(TRUE) /\ failures' \in 0 .. MaxFailures
    BY <1>7 DEF CycleDone
  <2> QED
    BY <1>6, <2>1, Zenon
<1>8. CASE CycleFailed
  <2>1. Settle(FALSE)
    BY <1>8, Zenon DEF CycleFailed
  <2>2. failures' \in 0 .. MaxFailures
    BY <1>8 DEF CycleFailed
  <2> QED
    BY <1>6, <2>1, <2>2, Zenon
<1>9. CASE Tick
  BY <1>9 DEF Tick, chainVars, ownerVars, changeVars
<1>10. CASE UNCHANGED vars
  BY <1>10 DEF vars, schedVars, chainVars, ownerVars, changeVars
<1> QED
  BY <1>1, <1>2, <1>3, <1>4, <1>5, <1>7, <1>8, <1>9, <1>10 DEF Next

(* TypeOK holds of every behaviour, whatever the owner does: in particular  *)
(* no cycle is credited with changes made after it began (seen, settled).   *)
THEOREM TransportTypes == Spec => []TypeOK
<1>1. TypeOK /\ [Next]_vars => TypeOK'
  BY FlagsOKStep, CountsOKStep DEF TypeOK
<1> QED
  BY <1>1, TransportTypesInit, PTL DEF Spec

-----------------------------------------------------------------------------
(* Before the first start() nothing is armed, awaited or running.           *)
LEMMA TransportInit == Init => TransportInvariant
<1> SUFFICES ASSUME Init PROVE TransportInvariant
  OBVIOUS
<1>1. TypeOK
  BY TransportTypesInit
<1>2. WindowTimer /\ PendingWindow /\ DownIsQuiet
  BY DEF Init, WindowTimer, PendingWindow, DownIsQuiet
<1>3. /\ IdleHasNoWaiters /\ TicksNeedInterval /\ NoOrphans
      /\ NothingBeforeStart /\ SingleChain /\ ChangeNotForgotten /\ NoNeedlessCycle
  BY DEF Init, IdleHasNoWaiters, TicksNeedInterval, NoOrphans,
         NothingBeforeStart, SingleChain, ChangeNotForgotten,
         NoNeedlessCycle
<1> QED
  BY <1>1, <1>2, <1>3 DEF TransportInvariant

(* The step, for an owner that restarts cleanly: one action at a time.      *)
LEMMA TransportKeeps ==
  ASSUME CleanRestart, TransportInvariant, [Next]_vars
  PROVE  TransportInvariant'
<1>1. TypeOK'
  BY FlagsOKStep, CountsOKStep DEF TransportInvariant, TypeOK
<1>0. UNCHANGED interval
  BY IntervalKept
<1> DEFINE Window == /\ WindowTimer /\ PendingWindow
                     /\ ChangeNotForgotten /\ NoNeedlessCycle
           Chain  == /\ DownIsQuiet /\ IdleHasNoWaiters /\ TicksNeedInterval
                     /\ NoOrphans /\ NothingBeforeStart /\ SingleChain
<1> USE TransportAssumption, <1>0
    DEF TransportAssumption, TransportInvariant, TypeOK, FlagsOK, CountsOK, Unarmed
<1>2. CASE Start
  <2>1. Window'
    BY <1>2 DEF Start, RunOrJoin, BeginCycle, DownIsQuiet, WindowTimer, PendingWindow,
                ChangeNotForgotten, NoNeedlessCycle
  <2>2. Chain'
    BY <1>2 DEF Start, RunOrJoin, BeginCycle, DownIsQuiet, IdleHasNoWaiters,
                TicksNeedInterval, NoOrphans, NothingBeforeStart, SingleChain
  <2> QED
    BY <1>1, <2>1, <2>2
<1>3. CASE Stop
  <2>1. Window'
    BY <1>3 DEF Stop, CancelTimers, WindowTimer, PendingWindow, ChangeNotForgotten,
                NoNeedlessCycle
  <2>2. Chain'
    BY <1>3 DEF Stop, CancelTimers, DownIsQuiet, IdleHasNoWaiters,
                TicksNeedInterval, NoOrphans, NothingBeforeStart, SingleChain
  <2> QED
    BY <1>1, <2>1, <2>2
<1>4. CASE NotifyChange
  <2>1. WindowTimer'
    BY <1>4 DEF NotifyChange, RunForChange, BeginCycle, ClearCooldownTimer, Wait,
                WindowTimer
  <2>2. PendingWindow'
    <3>1. CASE sinceRun >= Cooldown /\ running
      <4>1. ~(sinceRun < Cooldown)
        BY <3>1
      <4>2. /\ pending' = TRUE
            /\ sinceRun' = sinceRun
            /\ running' = running
            /\ cooldownTimer' = Unarmed
        BY <1>4, <3>1, <4>1, Zenon DEF NotifyChange, RunForChange, ClearCooldownTimer
      <4>3. interval = 0 /\ ~stopped'
        BY <1>4, Zenon DEF NotifyChange
      <4>4. running'
        BY <3>1, <4>2, Zenon
      <4>5. sinceRun' >= Cooldown
        BY <3>1, <4>2
      <4> QED
        BY <4>2, <4>3, <4>4, <4>5, Zenon DEF PendingWindow
    <3>2. CASE sinceRun < Cooldown \/ ~running
      <4>1. ~pending
        BY <3>2 DEF PendingWindow
      <4>2. ~pending'
        BY <1>4, <3>2, <4>1 DEF NotifyChange, RunForChange
      <4> QED
        BY <4>2 DEF PendingWindow
    <3> QED
      BY <3>1, <3>2
  <2>3. ChangeNotForgotten'
    BY <1>4 DEF NotifyChange, RunForChange, BeginCycle, Wait, ChangeNotForgotten
  <2>4. NoNeedlessCycle'
    BY <1>4 DEF NotifyChange, RunForChange, BeginCycle, ClearCooldownTimer,
                PendingWindow, NoNeedlessCycle
  <2>5. Chain'
    BY <1>4 DEF NotifyChange, RunForChange, BeginCycle, chainVars, ownerVars,
                DownIsQuiet, IdleHasNoWaiters, TicksNeedInterval, NoOrphans,
                NothingBeforeStart, SingleChain
  <2> QED
    BY <1>1, <2>1, <2>2, <2>3, <2>4, <2>5
<1>5. CASE CooldownFire
  <2>1. Window'
    BY <1>5 DEF CooldownFire, RunForChange, BeginCycle, WindowTimer, PendingWindow,
                ChangeNotForgotten, NoNeedlessCycle
  <2>2. Chain'
    BY <1>5 DEF CooldownFire, RunForChange, BeginCycle, chainVars, ownerVars,
                DownIsQuiet, IdleHasNoWaiters, TicksNeedInterval, NoOrphans,
                NothingBeforeStart, SingleChain
  <2> QED
    BY <1>1, <2>1, <2>2
<1>6. CASE IntervalFire
  <2>1. interval > 0
    BY <1>6 DEF IntervalFire, TicksNeedInterval
  <2>2. Window'
    BY <1>6, <2>1 DEF IntervalFire, WindowTimer, PendingWindow, ChangeNotForgotten,
                NoNeedlessCycle
  <2>3. Chain'
    BY <1>6, <2>1 DEF IntervalFire, RunOrJoin, BeginCycle, ownerVars,
                DownIsQuiet, IdleHasNoWaiters, TicksNeedInterval, NoOrphans,
                NothingBeforeStart, SingleChain
  <2> QED
    BY <1>1, <2>2, <2>3
<1>7. ASSUME NEW ok \in BOOLEAN, Settle(ok) PROVE Window' /\ Chain'
  <2>1. /\ Schedulers(ok) \in 0 .. tickWaiters + startWaiters
        /\ interval = 0 => Schedulers(ok) = 0
    BY DEF Schedulers
  <2>2. Window'
    BY <1>7 DEF Settle, FollowUp, BeginCycle, WindowTimer, PendingWindow,
                ChangeNotForgotten, NoNeedlessCycle
  <2>3. NoOrphans' /\ SingleChain'
    BY <1>7, <2>1 DEF Settle, Schedule, NoOrphans, SingleChain
  <2>4. DownIsQuiet' /\ TicksNeedInterval'
    BY <1>7, <2>1 DEF Settle, FollowUp, BeginCycle, Schedule, NoOrphans, SingleChain,
                DownIsQuiet, TicksNeedInterval, NothingBeforeStart
  <2>5. IdleHasNoWaiters' /\ NothingBeforeStart'
    BY <1>7 DEF Settle, IdleHasNoWaiters, NothingBeforeStart
  <2> QED
    BY <2>2, <2>3, <2>4, <2>5
<1>8. CASE CycleDone \/ CycleFailed
  <2>1. PICK ok \in BOOLEAN : Settle(ok)
    BY <1>8, Zenon DEF CycleDone, CycleFailed
  <2> QED
    BY <1>1, <1>7, <2>1
<1>9. CASE Tick
  <2>1. Window'
    BY <1>9 DEF Tick, changeVars, WindowTimer, PendingWindow, ChangeNotForgotten,
                NoNeedlessCycle
  <2>2. Chain'
    BY <1>9 DEF Tick, chainVars, ownerVars, changeVars, DownIsQuiet, IdleHasNoWaiters,
                TicksNeedInterval, NoOrphans, NothingBeforeStart, SingleChain
  <2> QED
    BY <1>1, <2>1, <2>2
<1>10. CASE UNCHANGED vars
  BY <1>10, <1>1
     DEF vars, schedVars, chainVars, ownerVars, changeVars, WindowTimer, PendingWindow,
         ChangeNotForgotten, NoNeedlessCycle, DownIsQuiet, IdleHasNoWaiters,
         TicksNeedInterval,
         NoOrphans, NothingBeforeStart, SingleChain
<1> QED
  BY <1>2, <1>3, <1>4, <1>5, <1>6, <1>8, <1>9, <1>10, Zenon DEF Next

(* TransportInvariant holds of every behaviour of an owner that restarts cleanly.         *)
THEOREM TransportInductive == CleanRestart /\ Spec => []TransportInvariant
<1> SUFFICES ASSUME CleanRestart PROVE Spec => []TransportInvariant
  OBVIOUS
<1>1. TransportInvariant /\ [Next]_vars => TransportInvariant'
  BY TransportKeeps
<1> QED
  BY <1>1, TransportInit, PTL DEF Spec

(* No change is forgotten: while the transport is open, a change that no    *)
(* cycle has taken up is kept by the follow-up flag or a cooldown timer.    *)
THEOREM NoChangeForgotten == CleanRestart /\ Spec => []ChangeNotForgotten
<1>1. TransportInvariant => ChangeNotForgotten
  BY DEF TransportInvariant
<1> QED
  BY <1>1, TransportInductive, PTL

(* A follow-up or an armed cooldown timer means that there is a change no    *)
(* cycle has taken up: a burst costs one more cycle, and never one for      *)
(* nothing.                                                                 *)
THEOREM NoCycleTooMany == CleanRestart /\ Spec => []NoNeedlessCycle
<1>1. TransportInvariant => NoNeedlessCycle
  BY DEF TransportInvariant
<1> QED
  BY <1>1, TransportInductive, PTL

(* stop() leaves no timer armed and no follow-up asked for.                 *)
THEOREM StopCancelsAll == CleanRestart /\ Spec => []StopCancels
<1>1. TransportInvariant => StopCancels
  BY DEF TransportInvariant, DownIsQuiet, StopCancels
<1> QED
  BY <1>1, TransportInductive, PTL

(* Ticks form a single chain, so one clearTimeout can end it.               *)
THEOREM OneChain == CleanRestart /\ Spec => []SingleChain
<1>1. TransportInvariant => SingleChain
  BY DEF TransportInvariant
<1> QED
  BY <1>1, TransportInductive, PTL

SpacedOut == interval = 0 /\ CycleBegins /\ starts' = starts => sinceRun >= Cooldown

LEMMA CooldownStep ==
  ASSUME TransportInvariant, [Next]_vars PROVE [SpacedOut]_vars
<1> SUFFICES ASSUME Next, interval = 0, CycleBegins, starts' = starts
             PROVE  sinceRun >= Cooldown
  BY DEF SpacedOut
<1> USE TransportAssumption
    DEF TransportAssumption, TransportInvariant, TypeOK, CountsOK, Unarmed
<1>1. CASE Start
  BY <1>1 DEF Start
<1>2. CASE Stop
  BY <1>2 DEF Stop, CycleBegins
<1>3. CASE NotifyChange
  <2> SUFFICES ASSUME sinceRun < Cooldown PROVE FALSE
    OBVIOUS
  <2>1. running' = running /\ pending' = pending
    BY <1>3 DEF NotifyChange
  <2> QED
    BY <2>1, Zenon DEF CycleBegins
<1>4. CASE CooldownFire
  BY <1>4 DEF CooldownFire, WindowTimer
<1>5. CASE IntervalFire
  BY <1>5 DEF IntervalFire, TicksNeedInterval
<1>6. ASSUME NEW ok \in BOOLEAN, Settle(ok) PROVE sinceRun >= Cooldown
  BY <1>6 DEF Settle, FollowUp, CycleBegins, PendingWindow
<1>7. CASE CycleDone \/ CycleFailed
  BY <1>6, <1>7, Zenon DEF CycleDone, CycleFailed
<1>8. CASE Tick
  BY <1>8 DEF Tick, CycleBegins
<1> QED
  BY <1>1, <1>2, <1>3, <1>4, <1>5, <1>7, <1>8, Zenon DEF Next

(* In event mode cycles keep to the cooldown window, follow-ups included.   *)
THEOREM CooldownKept == CleanRestart /\ Spec => CooldownSpacing
<1> QED
  BY CooldownStep, TransportInductive, PTL DEF SpacedOut, CooldownSpacing, Spec

StaysDown == stopped /\ stopped' /\ running' => running

LEMMA QuietStep ==
  ASSUME TransportInvariant, [Next]_vars PROVE [StaysDown]_vars
<1> SUFFICES ASSUME Next, stopped, stopped', running' PROVE running
  BY Zenon DEF StaysDown
<1>1. CASE Start
  BY <1>1, Zenon DEF Start
<1>2. CASE Stop
  BY <1>2, Zenon DEF Stop
<1>3. CASE NotifyChange
  BY <1>3, Zenon DEF NotifyChange
<1>4. CASE CooldownFire
  BY <1>4 DEF CooldownFire, TransportInvariant, DownIsQuiet, Unarmed
<1>5. CASE IntervalFire
  BY <1>5 DEF IntervalFire, TransportInvariant, DownIsQuiet
<1>6. CASE CycleDone \/ CycleFailed
  BY <1>6, Zenon DEF CycleDone, CycleFailed, Settle
<1>7. CASE Tick
  BY <1>7, Zenon DEF Tick
<1> QED
  BY <1>1, <1>2, <1>3, <1>4, <1>5, <1>6, <1>7, Zenon DEF Next

(* A stopped transport begins no cycle until it is started again.           *)
THEOREM StaysQuiet == CleanRestart /\ Spec => StoppedIsQuiet
<1> QED
  BY QuietStep, TransportInductive, PTL DEF StaysDown, StoppedIsQuiet, Spec

-----------------------------------------------------------------------------
(* The worker: timers, window and flags are hidden.                         *)
LEMMA WorkerInit == Init => Worker!Init
<1> SUFFICES ASSUME Init PROVE Worker!Init
  OBVIOUS
<1>1. (~stopped) \in BOOLEAN
  OBVIOUS
<1>2. running = FALSE /\ changed = 0 /\ seen = 0
  BY DEF Init
<1> QED
  BY <1>1, <1>2, Zenon DEF Worker!Init

LEMMA WorkerStep ==
  ASSUME TransportInvariant, [Next]_vars PROVE [Worker!Next]_(Worker!workerVars)
<1> USE DEF Worker!workerVars
<1>1. CASE Start
  <2>1. Worker!Open
    BY <1>1, Zenon DEF Start, RunOrJoin, BeginCycle, Worker!Open
  <2> QED
    BY <2>1, Zenon DEF Worker!Next
<1>2. CASE Stop
  <2>1. Worker!Close
    BY <1>2, Zenon DEF Stop, changeVars, Worker!Close
  <2> QED
    BY <2>1, Zenon DEF Worker!Next
<1>3. CASE NotifyChange
  <2>1. Worker!Ask
    BY <1>3, Zenon DEF NotifyChange, RunForChange, BeginCycle, Worker!Ask
  <2> QED
    BY <2>1, Zenon DEF Worker!Next
<1>4. CASE CooldownFire
  <2>1. ~stopped
    BY <1>4 DEF CooldownFire, TransportInvariant, WindowTimer, Unarmed
  <2>2. Worker!Begin \/ UNCHANGED Worker!workerVars
    BY <1>4, <2>1, Zenon DEF CooldownFire, RunForChange, BeginCycle, Worker!Begin
  <2> QED
    BY <2>2, Zenon DEF Worker!Next
<1>5. CASE IntervalFire
  <2>1. ~stopped
    BY <1>5 DEF IntervalFire, TransportInvariant, DownIsQuiet
  <2>2. Worker!Begin \/ UNCHANGED Worker!workerVars
    BY <1>5, <2>1, Zenon DEF IntervalFire, RunOrJoin, BeginCycle, Worker!Begin
  <2> QED
    BY <2>2, Zenon DEF Worker!Next
<1>6. CASE CycleDone \/ CycleFailed
  <2>1. pending => seen < changed
    BY DEF TransportInvariant, NoNeedlessCycle
  <2>2. running /\ FollowUp /\ stopped' = stopped /\ changed' = changed
    BY <1>6, Zenon DEF CycleDone, CycleFailed, Settle
  <2>3. Worker!Finish
    <3>1. CASE pending /\ ~stopped
      <4>1. running' = TRUE /\ seen' = changed
        BY <2>2, <3>1, Zenon DEF FollowUp, BeginCycle
      <4>2. running' = running
        BY <2>2, <4>1 DEF TransportInvariant, TypeOK, FlagsOK
      <4> QED
        BY <2>1, <2>2, <3>1, <4>1, <4>2, Zenon DEF Worker!Finish
    <3>2. CASE ~(pending /\ ~stopped)
      BY <2>2, <3>2, Zenon DEF FollowUp, Worker!Finish
    <3> QED
      BY <3>1, <3>2
  <2> QED
    BY <2>3, Zenon DEF Worker!Next
<1>7. CASE Tick
  BY <1>7, Zenon DEF Tick, changeVars
<1>8. CASE UNCHANGED vars
  BY <1>8, Zenon DEF vars, schedVars, changeVars
<1> QED
  BY <1>1, <1>2, <1>3, <1>4, <1>5, <1>6, <1>7, <1>8, Zenon DEF Next

(* The safety part of RefinesWorker: every behaviour of a transport whose   *)
(* owner restarts cleanly is one of the worker.                             *)
THEOREM ImplementsWorker ==
  CleanRestart /\ Spec => Worker!Init /\ [][Worker!Next]_(Worker!workerVars)
<1> QED
  BY WorkerInit, WorkerStep, TransportInductive, PTL DEF Spec

-----------------------------------------------------------------------------
(* The nameserver.                                                          *)
CallOrder ==
  /\ startPc # "none" => lastCall = "start" /\ stopPc = "none"
  /\ startPc # "none" /\ ~stopRejected => state = "stopped"
  /\ startPc = "cycle" => ~stopped
  /\ stopPc # "none" => lastCall \in {"stop", "stopBusy"}
  /\ lastCall # "start" => stopped \/ starts = 0
  /\ lastCall # "start" /\ stopPc = "none" /\ ~stopRejected => state = "stopped" /\ ~listening
  /\ state = "running" /\ ~stopRejected => listening /\ (~stopped \/ stopPc # "none")

StopIsQuiet ==
  lastCall = "stop" =>
    /\ NoCycle
    /\ ~sourceOpen
    /\ stopPc = "publisher" \/ (stopPc = "none" /\ ~stopRejected) => ~publisherOpen

IInv == NameserverTypeOK /\ TransportInvariant /\ CallOrder /\ StopIsQuiet

-----------------------------------------------------------------------------
(* Whatever the nameserver does, the transport takes one of its own steps.  *)
LEMMA TransportStep == [NameserverNext]_nameserverVars => [Next]_vars
<1> SUFFICES ASSUME [NameserverNext]_nameserverVars PROVE [Next]_vars
  OBVIOUS
<1>1. CASE UNCHANGED transportVars
  BY <1>1, Zenon DEF transportVars, vars, schedVars, chainVars, ownerVars,
                     changeVars
<1>2. ASSUME NameserverNext PROVE Next \/ UNCHANGED transportVars
  BY <1>2, Zenon DEF NameserverNext, NameserverStart, ConnectFails, StartTransport,
                     NameserverStop, StopPublisher, Stopped, DisconnectFails, Edit, Announce,
                     TransportTimer, ReadDone, PublishDone, Reload, ReloadDone, ReloadFails,
                     NameserverCycleDone, NameserverCycleFailed, Next
<1>3. CASE UNCHANGED nameserverVars
  BY <1>1, <1>3, Zenon DEF nameserverVars
<1> QED
  BY <1>1, <1>2, <1>3, Zenon

-----------------------------------------------------------------------------
Cycles(n) == [CycleIds -> [stage : Stages, zones : 0 .. n]]

(* The transport's cycle is number 0, and reload() never takes that number. *)
LEMMA CycleNumbers == 0 \in CycleIds /\ 0 \notin Reloads /\ Reloads \subseteq CycleIds
BY NameserverAssumption DEF NameserverAssumption, CycleIds, Reloads

(* A cycle that was read from a smaller store is also one of a larger.      *)
LEMMA CyclesGrow ==
  ASSUME NEW n \in Nat, NEW f \in Cycles(n) PROVE f \in Cycles(n + 1)
<1>1. \A r \in [stage : Stages, zones : 0 .. n] : r \in [stage : Stages, zones : 0 .. n + 1]
  <2> TAKE r \in [stage : Stages, zones : 0 .. n]
  <2>1. r.zones \in 0 .. n + 1
    OBVIOUS
  <2> QED
    BY <2>1
<1> QED
  BY <1>1 DEF Cycles

(* The cycle of the transport runs exactly as long as the transport says.   *)
LEMMA FollowTransportStep ==
  ASSUME NameserverTypeOK, FollowTransport, running' \in BOOLEAN
  PROVE  /\ cycle' \in Cycles(store)
         /\ running' <=> cycle'[0].stage # "idle"
         /\ \A c \in Reloads : cycle'[c] = cycle[c]
         /\ sourceOpen' \in BOOLEAN
<1>1. store \in Nat /\ cycle \in Cycles(store) /\ (running <=> cycle[0].stage # "idle")
  BY TransportAssumption DEF TransportAssumption, NameserverTypeOK, Cycles
<1> DEFINE r == IF CycleBegins THEN Reading ELSE IF running' THEN cycle[0] ELSE Idle
<1>2. Reading \in [stage : Stages, zones : 0 .. store]
  BY <1>1 DEF Reading, Stages
<1>3. Idle \in [stage : Stages, zones : 0 .. store]
  BY <1>1 DEF Idle, Stages
<1>4. cycle[0] \in [stage : Stages, zones : 0 .. store]
  BY <1>1, CycleNumbers, Zenon DEF Cycles
<1>5. r \in [stage : Stages, zones : 0 .. store]
  BY <1>2, <1>3, <1>4, Zenon
<1>6. cycle' = [cycle EXCEPT ![0] = r]
  BY Zenon DEF FollowTransport
<1>7. running' <=> r.stage # "idle"
  <2>1. Reading.stage # "idle" /\ Idle.stage = "idle"
    BY DEF Reading, Idle
  <2>2. CycleBegins => running'
    BY Zenon DEF CycleBegins
  <2>3. running' /\ ~CycleBegins => running
    BY Zenon DEF CycleBegins
  <2> QED
    BY <1>1, <2>1, <2>2, <2>3, Zenon
<1> HIDE DEF r
<1>8. sourceOpen' \in BOOLEAN
  BY Zenon DEF FollowTransport
<1>9. cycle' \in Cycles(store) /\ cycle'[0] = r
  BY <1>1, <1>5, <1>6, CycleNumbers, Zenon DEF Cycles
<1>10. ASSUME NEW c \in Reloads PROVE cycle'[c] = cycle[c]
  <2>1. c # 0 /\ c \in CycleIds
    BY CycleNumbers, Zenon
  <2> QED
    BY <1>1, <1>6, <2>1, Zenon DEF Cycles
<1> QED
  BY <1>7, <1>8, <1>9, <1>10, Zenon

(* A stage of one cycle ends, and nothing else of the cycles changes.       *)
LEMMA OneCycleMoves ==
  ASSUME NameserverTypeOK, NEW c \in CycleIds,
         NEW r \in [stage : Stages, zones : 0 .. store],
         cycle' = [cycle EXCEPT ![c] = r], UNCHANGED running,
         c = 0 => r.stage # "idle" /\ cycle[0].stage # "idle"
  PROVE  /\ cycle' \in Cycles(store)
         /\ running' <=> cycle'[0].stage # "idle"
         /\ cycle'[c] = r
         /\ \A d \in CycleIds : d # c => cycle'[d] = cycle[d]
<1>1. store \in Nat /\ cycle \in Cycles(store) /\ (running <=> cycle[0].stage # "idle")
  BY TransportAssumption DEF TransportAssumption, NameserverTypeOK, Cycles
<1>2. /\ cycle' \in Cycles(store)
      /\ cycle'[c] = r
      /\ \A d \in CycleIds : d # c => cycle'[d] = cycle[d]
  BY <1>1, Zenon DEF Cycles
<1>3. running' <=> cycle'[0].stage # "idle"
  <2>1. CASE c = 0
    BY <1>1, <1>2, <2>1, Zenon
  <2>2. CASE c # 0
    BY <1>1, <1>2, <2>2, CycleNumbers, Zenon
  <2> QED
    BY <2>1, <2>2
<1> QED
  BY <1>2, <1>3

LEMMA CallTypes ==
  ASSUME NameserverTypeOK, [NameserverNext]_nameserverVars
  PROVE  /\ state' \in {"stopped", "running"}
         /\ startPc' \in {"none", "connect", "cycle"}
         /\ stopPc' \in {"none", "source", "publisher"}
         /\ lastCall' \in {"none", "start", "stop", "stopBusy"}
         /\ listening' \in BOOLEAN
         /\ publisherOpen' \in BOOLEAN
         /\ sourceOpen' \in BOOLEAN
         /\ closing' \in BOOLEAN
         /\ stopRejected' \in BOOLEAN
<1> USE DEF NameserverTypeOK, callVars, openVars
<1>1. CASE \/ NameserverStart \/ ConnectFails \/ StartTransport
           \/ NameserverStop \/ StopPublisher \/ Stopped \/ DisconnectFails
  <2>1. CASE NameserverStart \/ ConnectFails
    BY <2>1, Zenon DEF NameserverStart, ConnectFails
  <2>2. CASE StartTransport
    BY <2>2, Zenon DEF StartTransport, FollowTransport
  <2>3. CASE NameserverStop
    BY <2>3, Zenon DEF NameserverStop
  <2>4. CASE StopPublisher
    BY <2>4, Zenon DEF StopPublisher
  <2>5. CASE Stopped \/ DisconnectFails
    BY <2>5, Zenon DEF Stopped, DisconnectFails
  <2> QED
    BY <1>1, <2>1, <2>2, <2>3, <2>4, <2>5, Zenon
<1>2. CASE Edit \/ Announce \/ TransportTimer
  <2>1. UNCHANGED callVars /\ UNCHANGED publisherOpen
    BY <1>2, Zenon DEF Edit, Announce, TransportTimer
  <2>2. sourceOpen' \in BOOLEAN
    BY <1>2, Zenon DEF Edit, Announce, TransportTimer, FollowTransport
  <2> QED
    BY <2>1, <2>2, Zenon
<1>3. CASE \E c \in CycleIds : ReadDone(c) \/ PublishDone(c)
  BY <1>3, Zenon DEF ReadDone, PublishDone
<1>4. CASE \E c \in Reloads : Reload(c) \/ ReloadDone(c) \/ ReloadFails(c)
  BY <1>4, Zenon DEF Reload, ReloadDone, ReloadFails
<1>5. CASE NameserverCycleDone \/ NameserverCycleFailed
  BY <1>5, Zenon DEF NameserverCycleDone, NameserverCycleFailed, FollowTransport,
                     StartSettles
<1>6. CASE UNCHANGED nameserverVars
  BY <1>6, Zenon DEF nameserverVars
<1> QED
  BY <1>1, <1>2, <1>3, <1>4, <1>5, <1>6, Zenon DEF NameserverNext

(* The zones: nothing is published that was not in the store.               *)
LEMMA ZoneTypes ==
  ASSUME NameserverTypeOK, [NameserverNext]_nameserverVars, FlagsOK'
  PROVE  /\ store' \in 0 .. MaxChanges
         /\ unannounced' \in BOOLEAN
         /\ served' \in 0 .. store'
         /\ cycle' \in Cycles(store')
         /\ running' <=> cycle'[0].stage # "idle"
<1> DEFINE Goal == /\ store' \in 0 .. MaxChanges
                   /\ unannounced' \in BOOLEAN
                   /\ served' \in 0 .. store'
                   /\ cycle' \in Cycles(store')
                   /\ running' <=> cycle'[0].stage # "idle"
<1>0. /\ store \in 0 .. MaxChanges
      /\ unannounced \in BOOLEAN
      /\ served \in 0 .. store
      /\ cycle \in Cycles(store)
      /\ running <=> cycle[0].stage # "idle"
  BY Zenon DEF NameserverTypeOK, Cycles
<1>1. ASSUME UNCHANGED zoneVars, FollowTransport PROVE Goal
  <2>1. running' \in BOOLEAN
    BY Zenon DEF FlagsOK
  <2>2. cycle' \in Cycles(store) /\ (running' <=> cycle'[0].stage # "idle")
    BY <1>1, <2>1, FollowTransportStep, Zenon
  <2>3. UNCHANGED <<store, unannounced, served>>
    BY <1>1, Zenon DEF zoneVars
  <2> QED
    BY <1>0, <2>2, <2>3, Zenon
<1>2. ASSUME UNCHANGED <<zoneVars, cycle, running>> PROVE Goal
  BY <1>0, <1>2, Zenon DEF zoneVars
<1>3. CASE \/ NameserverStart \/ ConnectFails
           \/ NameserverStop \/ StopPublisher \/ Stopped \/ DisconnectFails
  <2>1. UNCHANGED <<zoneVars, cycle, running>>
    BY <1>3, Zenon DEF NameserverStart, ConnectFails, NameserverStop, StopPublisher, Stopped,
                       DisconnectFails, Stop, transportVars, vars, schedVars, ownerVars
  <2> QED
    BY <1>2, <2>1
<1>4. CASE StartTransport \/ TransportTimer \/ NameserverCycleDone \/ NameserverCycleFailed
  BY <1>1, <1>4, Zenon DEF StartTransport, TransportTimer, NameserverCycleDone,
                           NameserverCycleFailed
<1>5. CASE Edit
  <2>1. store' = store + 1 /\ store' \in 0 .. MaxChanges /\ store \in Nat
    BY <1>0, <1>5, TransportAssumption DEF Edit, TransportAssumption
  <2>2. UNCHANGED <<cycle, served, running>> /\ unannounced' = TRUE
    BY <1>5, Zenon DEF Edit, transportVars, vars, schedVars, ownerVars
  <2>3. served' \in 0 .. store'
    BY <1>0, <2>1, <2>2
  <2>4. cycle' \in Cycles(store')
    BY <1>0, <2>1, <2>2, CyclesGrow, Zenon
  <2> QED
    BY <1>0, <2>1, <2>2, <2>3, <2>4, Zenon
<1>6. CASE Announce
  <2>1. store' = store /\ served' = served /\ unannounced' = FALSE
    BY <1>6, Zenon DEF Announce
  <2>2. CASE FollowTransport
    <3>1. running' \in BOOLEAN
      BY Zenon DEF FlagsOK
    <3> QED
      BY <1>0, <2>1, <2>2, <3>1, FollowTransportStep, Zenon
  <2>3. CASE UNCHANGED <<transportVars, cycle>>
    BY <1>0, <2>1, <2>3, Zenon DEF transportVars, vars, schedVars, ownerVars
  <2> QED
    BY <1>6, <2>2, <2>3, Zenon DEF Announce
<1>7. ASSUME NEW c \in CycleIds, ReadDone(c) PROVE Goal
  <2> DEFINE r == [stage |-> "publish", zones |-> store]
  <2>1. r \in [stage : Stages, zones : 0 .. store]
    BY <1>0, TransportAssumption DEF Stages, TransportAssumption
  <2>2. r.stage # "idle"
    OBVIOUS
  <2>3. cycle[c].stage # "idle" /\ cycle' = [cycle EXCEPT ![c] = r]
    BY <1>7, Zenon DEF ReadDone
  <2>4. UNCHANGED <<running, store, served, unannounced>>
    BY <1>7, Zenon DEF ReadDone, transportVars, vars, schedVars, ownerVars, zoneVars
  <2> HIDE DEF r
  <2> QED
    BY <1>0, <2>1, <2>2, <2>3, <2>4, OneCycleMoves, Zenon
<1>8. ASSUME NEW c \in CycleIds, PublishDone(c) PROVE Goal
  <2> DEFINE r == [cycle[c] EXCEPT !.stage = "deliver"]
  <2>1. cycle[c] \in [stage : Stages, zones : 0 .. store]
    BY <1>0, Zenon DEF Cycles
  <2>2. r \in [stage : Stages, zones : 0 .. store] /\ r.stage # "idle"
    BY <2>1 DEF Stages
  <2>3. cycle[c].stage # "idle" /\ cycle' = [cycle EXCEPT ![c] = r]
    BY <1>0, <1>8 DEF PublishDone, Cycles
  <2>4. UNCHANGED <<running, store, unannounced>> /\ served' = cycle[c].zones
    BY <1>8, Zenon DEF PublishDone, transportVars, vars, schedVars, ownerVars
  <2>5. served' \in 0 .. store'
    BY <2>1, <2>4
  <2> HIDE DEF r
  <2> QED
    BY <1>0, <2>2, <2>3, <2>4, <2>5, OneCycleMoves, Zenon
<1>9. ASSUME NEW c \in Reloads, Reload(c) \/ ReloadDone(c) \/ ReloadFails(c) PROVE Goal
  <2>1. c \in CycleIds /\ c # 0
    BY CycleNumbers, Zenon
  <2>2. {Idle, Reading} \subseteq [stage : Stages, zones : 0 .. store]
    BY <1>0, TransportAssumption DEF Idle, Reading, Stages, TransportAssumption
  <2>3. PICK r \in [stage : Stages, zones : 0 .. store] : cycle' = [cycle EXCEPT ![c] = r]
    BY <1>9, <2>2, Zenon DEF Reload, ReloadDone, ReloadFails
  <2>4. UNCHANGED <<running, store, unannounced, served>>
    BY <1>9, Zenon DEF Reload, ReloadDone, ReloadFails, transportVars, vars, schedVars,
                       ownerVars, zoneVars
  <2> QED
    BY <1>0, <2>1, <2>3, <2>4, OneCycleMoves, Zenon
<1>10. CASE UNCHANGED nameserverVars
  BY <1>2, <1>10, Zenon DEF nameserverVars, transportVars, vars, schedVars, ownerVars
<1> QED
  BY <1>3, <1>4, <1>5, <1>6, <1>7, <1>8, <1>9, <1>10, Zenon DEF NameserverNext

LEMMA TypeOKStep == NameserverTypeOK /\ [NameserverNext]_nameserverVars => NameserverTypeOK'
<1> SUFFICES ASSUME NameserverTypeOK, [NameserverNext]_nameserverVars
             PROVE  NameserverTypeOK'
  OBVIOUS
<1>1. FlagsOK' /\ CountsOK'
  BY TransportStep, FlagsOKStep, CountsOKStep, Zenon DEF NameserverTypeOK, TypeOK
<1>2. /\ state' \in {"stopped", "running"}
      /\ startPc' \in {"none", "connect", "cycle"}
      /\ stopPc' \in {"none", "source", "publisher"}
      /\ lastCall' \in {"none", "start", "stop", "stopBusy"}
      /\ listening' \in BOOLEAN
      /\ publisherOpen' \in BOOLEAN
      /\ sourceOpen' \in BOOLEAN
      /\ closing' \in BOOLEAN
      /\ stopRejected' \in BOOLEAN
  BY CallTypes, Zenon
<1>3. /\ store' \in 0 .. MaxChanges
      /\ unannounced' \in BOOLEAN
      /\ served' \in 0 .. store'
      /\ cycle' \in Cycles(store')
      /\ running' <=> cycle'[0].stage # "idle"
  BY <1>1, ZoneTypes, Zenon
<1> QED
  BY <1>1, <1>2, <1>3, Zenon DEF NameserverTypeOK, TypeOK, Cycles

-----------------------------------------------------------------------------
(* A transport that is down begins no cycle until it is started: nothing    *)
(* is armed that could.                                                     *)
LEMMA DownBeginsNothing ==
  ASSUME TransportInvariant, [Next]_vars, stopped \/ starts = 0, starts' = starts
  PROVE  ~CycleBegins /\ (stopped' \/ starts' = 0)
<1> USE TransportAssumption
    DEF TransportAssumption, TransportInvariant, TypeOK, FlagsOK, CountsOK, Unarmed,
        DownIsQuiet, NothingBeforeStart
<1>1. CASE Start
  BY <1>1 DEF Start
<1>2. CASE Stop
  BY <1>2, Zenon DEF Stop, CycleBegins
<1>3. CASE NotifyChange \/ CooldownFire \/ IntervalFire
  BY <1>3 DEF NotifyChange, CooldownFire, IntervalFire
<1>4. CASE CycleDone \/ CycleFailed
  <2>1. PICK ok \in BOOLEAN : Settle(ok)
    BY <1>4, Zenon DEF CycleDone, CycleFailed
  <2>2. running /\ stopped /\ stopped' = stopped
    BY <2>1, Zenon DEF Settle
  <2> QED
    BY <2>2, Zenon DEF CycleBegins
<1>5. CASE Tick
  BY <1>5, Zenon DEF Tick, CycleBegins, ownerVars
<1>6. CASE UNCHANGED vars
  BY <1>6, Zenon DEF vars, schedVars, chainVars, ownerVars, CycleBegins
<1> QED
  BY <1>1, <1>2, <1>3, <1>4, <1>5, <1>6, Zenon DEF Next

(* Nothing else starts or stops the transport than start() and stop().      *)
LEMMA OthersKeepCalls ==
  ASSUME \/ Edit \/ Announce \/ TransportTimer
         \/ \E c \in CycleIds : ReadDone(c) \/ PublishDone(c)
         \/ \E c \in Reloads : Reload(c) \/ ReloadDone(c) \/ ReloadFails(c)
  PROVE  UNCHANGED callVars /\ UNCHANGED <<stopped, starts>>
BY Zenon DEF Edit, Announce, TransportTimer, ReadDone, PublishDone, Reload, ReloadDone,
             ReloadFails, transportVars, NotifyChange, CooldownFire, IntervalFire, Tick,
             vars, schedVars, chainVars, ownerVars

(* start() and stop() go on in turn.                                        *)
LEMMA CallOrderStep ==
  ASSUME NameserverTypeOK, CallOrder, [NameserverNext]_nameserverVars
  PROVE  CallOrder'
<1> DEFINE Down == stopped \/ starts = 0
<1> USE DEF CallOrder, callVars
<1>1. CASE NameserverStart \/ ConnectFails
  <2>1. lastCall' = "start" /\ stopPc' = "none" /\ startPc' # "cycle"
    BY <1>1, Zenon DEF NameserverStart, ConnectFails, MayStart
  <2>2. lastCall # "start" /\ stopPc = "none"
    BY <1>1, Zenon DEF NameserverStart, ConnectFails, MayStart
  <2>3. UNCHANGED <<state, listening, stopRejected, stopped, starts>>
    BY <1>1, Zenon DEF NameserverStart, ConnectFails, transportVars, vars, schedVars,
                       ownerVars
  <2> QED
    BY <2>1, <2>2, <2>3, Zenon
<1>2. CASE StartTransport
  <2>1. ~stopped'
    BY <1>2, Zenon DEF StartTransport, Start
  <2> QED
    BY <1>2, <2>1, Zenon DEF StartTransport
<1>3. CASE NameserverStop
  <2>1. Down'
    <3>1. CASE starts > 0 /\ ~stopped
      BY <1>3, <3>1, Zenon DEF NameserverStop, Stop
    <3>2. CASE ~(starts > 0 /\ ~stopped)
      <4>1. stopped \/ starts = 0
        BY <3>2, TransportAssumption DEF NameserverTypeOK, TypeOK, CountsOK,
             TransportAssumption
      <4>2. UNCHANGED <<stopped, starts>>
        BY <1>3, <3>2, Zenon DEF NameserverStop, transportVars, vars, schedVars, ownerVars
      <4> QED
        BY <4>1, <4>2
    <3> QED
      BY <3>1, <3>2
  <2>2. /\ startPc' = "none" /\ stopPc' = "source"
        /\ lastCall' \in {"stop", "stopBusy"}
        /\ UNCHANGED <<state, listening, stopRejected>>
    BY <1>3, Zenon DEF NameserverStop
  <2> QED
    BY <2>1, <2>2
<1>4. CASE StopPublisher \/ Stopped \/ DisconnectFails
  BY <1>4 DEF StopPublisher, Stopped, DisconnectFails, transportVars, vars, schedVars,
              ownerVars
<1>5. ASSUME UNCHANGED callVars, UNCHANGED <<stopped, starts>> PROVE CallOrder'
  BY <1>5, Zenon
<1>6. CASE NameserverCycleDone \/ NameserverCycleFailed
  <2>1. UNCHANGED <<stopped, starts, stopPc, lastCall>>
    BY <1>6, Zenon DEF NameserverCycleDone, NameserverCycleFailed, CycleDone, CycleFailed,
                       Settle
  <2>2. PICK ok \in BOOLEAN : StartSettles(ok)
    BY <1>6, Zenon DEF NameserverCycleDone, NameserverCycleFailed
  <2>3. CASE startPc = "cycle" /\ startWaiters > 0
    BY <2>1, <2>2, <2>3, Zenon DEF StartSettles
  <2>4. CASE ~(startPc = "cycle" /\ startWaiters > 0)
    BY <2>1, <2>2, <2>4, <1>5, Zenon DEF StartSettles
  <2> QED
    BY <2>3, <2>4
<1>7. CASE \/ Edit \/ Announce \/ TransportTimer
           \/ \E c \in CycleIds : ReadDone(c) \/ PublishDone(c)
           \/ \E c \in Reloads : Reload(c) \/ ReloadDone(c) \/ ReloadFails(c)
  BY <1>5, <1>7, OthersKeepCalls, Zenon
<1>8. CASE UNCHANGED nameserverVars
  BY <1>5, <1>8, Zenon DEF nameserverVars, transportVars, vars, schedVars, ownerVars
<1> QED
  BY <1>1, <1>2, <1>3, <1>4, <1>6, <1>7, <1>8, Zenon DEF NameserverNext

(* After a stop() between cycles everything stays closed: the transport     *)
(* begins no cycle, and no cycle of reload() is there to read or publish.   *)
LEMMA StopIsQuietStep ==
  ASSUME IInv, [NameserverNext]_nameserverVars, NameserverTypeOK'
  PROVE  StopIsQuiet'
<1> DEFINE Shut == stopPc = "publisher" \/ (stopPc = "none" /\ ~stopRejected)
           Quiet == NoCycle /\ ~sourceOpen /\ (Shut => ~publisherOpen)
<1> SUFFICES ASSUME lastCall' = "stop" PROVE Quiet'
  BY Zenon DEF StopIsQuiet
<1>1. CASE NameserverStop
  <2>1. NoCycle /\ UNCHANGED cycle
    BY <1>1, Zenon DEF NameserverStop
  <2>2. NoCycle'
    BY <2>1, Zenon DEF NoCycle
  <2> QED
    BY <1>1, <2>2, Zenon DEF NameserverStop
<1>2. CASE NameserverStart \/ ConnectFails \/ StartTransport
  <2>1. lastCall' = "start"
    BY <1>2, Zenon DEF NameserverStart, ConnectFails, StartTransport, IInv, CallOrder
  <2> QED
    BY <2>1
<1> SUFFICES ASSUME ~NameserverStop, ~NameserverStart, ~ConnectFails, ~StartTransport
             PROVE  Quiet'
  BY <1>1, <1>2
<1>3. lastCall = "stop"
  BY OthersKeepCalls, Zenon DEF NameserverNext, nameserverVars, callVars, StopPublisher,
                                Stopped, DisconnectFails, NameserverCycleDone,
                                NameserverCycleFailed
<1>4. Quiet
  BY <1>3, Zenon DEF IInv, StopIsQuiet
<1>5. ASSUME UNCHANGED cycle PROVE NoCycle'
  BY <1>4, <1>5, Zenon DEF NoCycle
<1>6. CASE StopPublisher \/ Stopped \/ DisconnectFails
  <2>1. UNCHANGED <<cycle, sourceOpen>>
    BY <1>6, Zenon DEF StopPublisher, Stopped, DisconnectFails, openVars
  <2>2. Shut' => ~publisherOpen'
    BY <1>4, <1>6 DEF StopPublisher, Stopped, DisconnectFails, openVars
  <2> QED
    BY <1>4, <1>5, <2>1, <2>2, Zenon
<1>7. CASE Edit \/ UNCHANGED nameserverVars
  <2>1. UNCHANGED <<cycle, stopPc, stopRejected, sourceOpen, publisherOpen>>
    BY <1>7, Zenon DEF Edit, nameserverVars, callVars, openVars
  <2> QED
    BY <1>4, <1>5, <2>1
<1>8. CASE \E c \in CycleIds : ReadDone(c) \/ PublishDone(c)
  <2>1. PICK c \in CycleIds : cycle[c].stage = "read" \/ cycle[c].stage = "publish"
    BY <1>8, Zenon DEF ReadDone, PublishDone
  <2> QED
    BY <1>4, <2>1 DEF NoCycle
<1>9. CASE \E c \in Reloads : Reload(c) \/ ReloadDone(c) \/ ReloadFails(c)
  <2>1. \A c \in Reloads : ~ReloadDone(c) /\ ~ReloadFails(c)
    BY <1>4, CycleNumbers DEF ReloadDone, ReloadFails, NoCycle
  <2>2. \A c \in Reloads : ~Reload(c)
    BY <1>3, Zenon DEF Reload
  <2> QED
    BY <1>9, <2>1, <2>2
<1>10. CASE NameserverCycleDone \/ NameserverCycleFailed
  <2>1. running
    BY <1>10, Zenon DEF NameserverCycleDone, NameserverCycleFailed, CycleDone, CycleFailed,
                        Settle
  <2>2. ~running
    BY <1>4, CycleNumbers, Zenon DEF NoCycle, IInv, NameserverTypeOK
  <2> QED
    BY <2>1, <2>2
<1>11. CASE Announce \/ TransportTimer
  <2>1. UNCHANGED <<stopped, starts, stopPc, stopRejected, publisherOpen>>
    BY <1>11, OthersKeepCalls, Zenon DEF Announce, TransportTimer, callVars
  <2>2. ~CycleBegins
    BY <1>3, <2>1, TransportStep, DownBeginsNothing, Zenon DEF IInv, NameserverTypeOK,
         CallOrder
  <2>3. CASE FollowTransport
    <3>1. ~sourceOpen'
      BY <1>4, <2>2, <2>3, Zenon DEF FollowTransport
    <3>2. ~running /\ 0 \in CycleIds
      BY <1>4, CycleNumbers, Zenon DEF NoCycle, IInv, NameserverTypeOK
    <3>3. ~running'
      BY <2>2, <3>2, Zenon DEF CycleBegins
    <3>4. running' \in BOOLEAN /\ NameserverTypeOK
      BY Zenon DEF IInv, NameserverTypeOK, TypeOK, FlagsOK
    <3>5. cycle'[0].stage = "idle" /\ \A c \in Reloads : cycle'[c] = cycle[c]
      BY <2>3, <3>3, <3>4, FollowTransportStep, Zenon
    <3>6. NoCycle'
      BY <1>4, <3>5, CycleNumbers DEF NoCycle, CycleIds
    <3> QED
      BY <1>4, <2>1, <3>1, <3>6
  <2>4. CASE UNCHANGED <<transportVars, cycle, sourceOpen>>
    BY <1>4, <1>5, <2>1, <2>4, Zenon
  <2> QED
    BY <1>11, <2>3, <2>4, Zenon DEF Announce, TransportTimer
<1> QED
  BY <1>6, <1>7, <1>8, <1>9, <1>10, <1>11, Zenon DEF NameserverNext

-----------------------------------------------------------------------------
(* A nameserver that was never started has nothing open.                    *)
LEMMA IInvInit == NameserverInit => IInv
<1> SUFFICES ASSUME NameserverInit PROVE IInv
  OBVIOUS
<1> USE TransportAssumption DEF TransportAssumption
<1>1. TransportInvariant
  BY TransportInit DEF NameserverInit
<1>2. TypeOK
  BY <1>1 DEF TransportInvariant
<1>3. cycle \in [CycleIds -> [stage : Stages, zones : 0 .. store]] /\ NoCycle
  BY DEF NameserverInit, Idle, Stages, NoCycle
<1>4. NameserverTypeOK
  <2>1. running = FALSE /\ cycle[0].stage = "idle"
    BY <1>3, CycleNumbers, Zenon DEF NameserverInit, Init, NoCycle
  <2>2. store \in 0 .. MaxChanges /\ served \in 0 .. store
    BY DEF NameserverInit
  <2> QED
    BY <1>2, <1>3, <2>1, <2>2, Zenon DEF NameserverTypeOK, NameserverInit
<1>5. CallOrder /\ StopIsQuiet
  BY DEF NameserverInit, Init, CallOrder, StopIsQuiet
<1> QED
  BY <1>1, <1>4, <1>5 DEF IInv

LEMMA IInvStep ==
  ASSUME CleanRestart, IInv, [NameserverNext]_nameserverVars PROVE IInv'
<1>1. NameserverTypeOK'
  BY TypeOKStep DEF IInv
<1>2. TransportInvariant'
  BY TransportStep, TransportKeeps, Zenon DEF IInv
<1>3. CallOrder'
  BY CallOrderStep, Zenon DEF IInv
<1>4. StopIsQuiet'
  BY <1>1, StopIsQuietStep, Zenon
<1> QED
  BY <1>1, <1>2, <1>3, <1>4 DEF IInv

(* The types hold of every behaviour, whatever the owner does: in           *)
(* particular, nothing is served that was never in the store, and the       *)
(* transport's cycle runs exactly while the transport waits for it.         *)
THEOREM TypeCorrect == NameserverSpec => []NameserverTypeOK
<1>1. NameserverInit => NameserverTypeOK
  BY IInvInit DEF IInv
<1> QED
  BY <1>1, TypeOKStep, PTL DEF NameserverSpec

(* The nameserver drives its transport only as module Transport allows:     *)
(* the transport inside it behaves as one by itself does, so that what is   *)
(* shown of it above holds here too.                                        *)
THEOREM DrivesTransport == NameserverSpec => Init /\ [][Next]_vars
<1>1. NameserverInit => Init
  BY DEF NameserverInit
<1> QED
  BY <1>1, TransportStep, PTL DEF NameserverSpec

THEOREM InductiveInvariant == CleanRestart /\ NameserverSpec => []IInv
<1> SUFFICES ASSUME CleanRestart PROVE NameserverSpec => []IInv
  OBVIOUS
<1>1. IInv /\ [NameserverNext]_nameserverVars => IInv'
  BY IInvStep
<1> QED
  BY <1>1, IInvInit, PTL DEF NameserverSpec

(* Unless stop() has rejected, a nameserver that says it runs hears of      *)
(* changes and its transport is open or being stopped. A stop() between     *)
(* cycles that has returned left no connection and no listener behind; one  *)
(* that has rejected left the source closed and no cycle running            *)
(* (base.js:143-168).                                                       *)
THEOREM StateMeansConnections == CleanRestart /\ NameserverSpec => []ConnectionsFollowState
<1>1. ASSUME IInv PROVE ConnectionsFollowState
  <2>1. NoCycle => ~running
    BY <1>1, CycleNumbers, Zenon DEF NoCycle, IInv, NameserverTypeOK
  <2> QED
    BY <1>1, <2>1 DEF IInv, CallOrder, StopIsQuiet, ConnectionsFollowState, Released
<1> QED
  BY <1>1, InductiveInvariant, PTL

(* A nameserver is such a worker for the edits that its source announces:   *)
(* none that it listened for is forgotten, none costs a cycle too many, and *)
(* its cycles begin one at a time, as far apart as the cooldown asks, and   *)
(* not after stop(), whatever the pipeline around the transport does        *)
(* (base.js:110-168).                                                       *)
THEOREM NameserverIsWorker ==
  CleanRestart /\ NameserverSpec =>
    /\ [](ChangeNotForgotten /\ NoNeedlessCycle /\ SingleChain /\ StopCancels)
    /\ CooldownSpacing /\ StoppedIsQuiet
    /\ Worker!Init /\ [][Worker!Next]_(Worker!workerVars)
<1>1. IInv => /\ TransportInvariant
              /\ ChangeNotForgotten /\ NoNeedlessCycle /\ SingleChain /\ StopCancels
  BY DEF IInv, TransportInvariant, DownIsQuiet, StopCancels
<1>2. CleanRestart /\ NameserverSpec =>
        [](ChangeNotForgotten /\ NoNeedlessCycle /\ SingleChain /\ StopCancels)
  BY <1>1, InductiveInvariant, PTL
<1>3. CleanRestart /\ NameserverSpec => CooldownSpacing
  BY <1>1, CooldownStep, InductiveInvariant, DrivesTransport, PTL DEF SpacedOut,
       CooldownSpacing
<1>4. CleanRestart /\ NameserverSpec => StoppedIsQuiet
  BY <1>1, QuietStep, InductiveInvariant, DrivesTransport, PTL DEF StaysDown, StoppedIsQuiet
<1>5. CleanRestart /\ NameserverSpec => Worker!Init /\ [][Worker!Next]_(Worker!workerVars)
  BY <1>1, WorkerInit, WorkerStep, InductiveInvariant, DrivesTransport, PTL
<1> QED
  BY <1>2, <1>3, <1>4, <1>5
===============================================================================
