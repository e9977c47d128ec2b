------------------------------ MODULE Transport ------------------------------
(***************************************************************************)
(* lib/transport/base.js: the scheduler that decides when a publish cycle   *)
(* (Nameserver.publishCycle) runs.                                          *)
(*                                                                         *)
(*   interval > 0   a cycle every interval seconds after the previous one   *)
(*                  has ended (one timer chain, armed by _schedule);        *)
(*   interval = 0   a cycle per zoneChanged event, no more often than once  *)
(*                  per Cooldown window (notifyChange).                     *)
(*                                                                         *)
(* One action is one turn of the JavaScript event loop. A cycle that        *)
(* settles, the .finally() of _run and the continuations of the calls that  *)
(* await that cycle all run before any timer or I/O callback can, so they   *)
(* are one action (Settle).                                                 *)
(*                                                                         *)
(* Time is relative: sinceRun is the time since _lastRun, no longer counted *)
(* once it reaches Cooldown, since the code only compares it with Cooldown. *)
(* A due timer may fire late, as on a busy event loop.                      *)
(***************************************************************************)
EXTENDS Integers

CONSTANTS
  Intervals,     \* the values of transport.interval; 0 selects event mode
  Cooldown,      \* transport.cooldown, in ticks
  CleanRestart,  \* the owner restarts only a stopped transport that is idle
  MaxStarts,     \* bound: calls of start()
  MaxChanges,    \* bound: calls of notifyChange() that are not ignored
  MaxFailures    \* bound: cycles that fail

ASSUME TransportAssumption ==
  /\ Intervals \subseteq Nat
  /\ Cooldown \in Nat
  /\ CleanRestart \in BOOLEAN
  /\ MaxStarts \in Nat
  /\ MaxChanges \in Nat
  /\ MaxFailures \in Nat

VARIABLES
  interval,      \* the configured interval
  stopped,       \* _stopped
  pending,       \* _pending: run once more when the current cycle ends
  running,       \* _running # null
  sinceRun,      \* time since _lastRun, capped at Cooldown
  cooldownTimer, \* time left on _cooldownTimer, or Unarmed
  timer,         \* _timer refers to an armed interval timer
  orphans,       \* armed interval timers that _timer no longer refers to
  tickWaiters,   \* interval callbacks awaiting the current cycle
  startWaiters,  \* start() calls awaiting the current cycle
  up,            \* the owner: start() was called, and neither failed nor undone
  starts,        \* calls of start() so far
  failures,      \* cycles that have failed so far
  changed,       \* changes accepted by notifyChange() so far
  seen,          \* of those, the ones the latest cycle to begin will read
  settled        \* of those, the ones covered by a cycle that has ended

schedVars  == <<stopped, pending, running, sinceRun, cooldownTimer>>
chainVars  == <<timer, orphans, tickWaiters, startWaiters>>
ownerVars  == <<interval, up, starts>>
changeVars == <<changed, seen, settled>>
vars       == <<schedVars, chainVars, ownerVars, failures, changeVars>>

Unarmed == -1

FlagsOK ==
  /\ stopped \in BOOLEAN
  /\ pending \in BOOLEAN
  /\ running \in BOOLEAN
  /\ timer \in BOOLEAN
  /\ up \in BOOLEAN

(* No cycle is credited with a change made after it began (seen, settled).  *)
CountsOK ==
  /\ interval \in Intervals
  /\ sinceRun \in 0 .. Cooldown
  /\ cooldownTimer \in Unarmed .. Cooldown
  /\ orphans \in Nat
  /\ tickWaiters \in Nat
  /\ startWaiters \in Nat
  /\ starts \in 0 .. MaxStarts
  /\ failures \in 0 .. MaxFailures
  /\ changed \in 0 .. MaxChanges
  /\ seen \in 0 .. changed
  /\ settled \in 0 .. seen

TypeOK == FlagsOK /\ CountsOK

(* _lastRun is 0, the epoch: the first change is never inside a window. *)
Init ==
  /\ interval \in Intervals
  /\ stopped = FALSE
  /\ pending = FALSE
  /\ running = FALSE
  /\ sinceRun = Cooldown
  /\ cooldownTimer = Unarmed
  /\ timer = FALSE
  /\ orphans = 0
  /\ tickWaiters = 0
  /\ startWaiters = 0
  /\ up = FALSE
  /\ starts = 0
  /\ failures = 0
  /\ changed = 0
  /\ seen = 0
  /\ settled = 0

-----------------------------------------------------------------------------
(* _run() when no cycle is running: _runOnce records the time and calls the *)
(* pull function, whose first act is to ask the source for its zones; so it *)
(* reads every change up to now.                                            *)
BeginCycle(now) ==
  /\ running' = TRUE
  /\ sinceRun' = 0
  /\ seen' = now

(* mutants of the definitions below, for the runs of PROJECT.json *)
RunForChange_Joins(now) ==
  IF running
  THEN UNCHANGED <<pending, running, sinceRun, seen>>
  ELSE BeginCycle(now) /\ UNCHANGED pending

CancelTimers_OnlyInterval == timer' = FALSE /\ UNCHANGED cooldownTimer

ClearCooldownTimer_Omitted == UNCHANGED cooldownTimer

Wait_Added == Cooldown + sinceRun

Schedulers_OnlyGood(ok) ==
  IF interval = 0 \/ ~ok THEN 0 ELSE tickWaiters + startWaiters

Schedulers_Twice(ok) ==
  IF interval = 0 THEN 0 ELSE 2 * tickWaiters + (IF ok THEN startWaiters ELSE 0)

(* _run() as start() and the interval timer call it: join the cycle that is *)
(* running, or begin one.                                                   *)
RunOrJoin ==
  IF running
  THEN UNCHANGED <<running, sinceRun, seen>>
  ELSE BeginCycle(changed)

(* _runForChange(): a running cycle may have read its zones before the      *)
(* change, so it is remembered and not joined.                              *)
RunForChange(now) ==
  IF running
  THEN pending' = TRUE /\ UNCHANGED <<running, sinceRun, seen>>
  ELSE BeginCycle(now) /\ UNCHANGED pending

(* n calls of _schedule() in a row. Each arms a timer and stores it in      *)
(* _timer; one that was armed there keeps running, but stop() can no longer *)
(* reach it.                                                                *)
Schedule(n) ==
  IF n = 0 \/ stopped
  THEN UNCHANGED <<timer, orphans>>
  ELSE /\ timer' = TRUE
       /\ orphans' = orphans + (n - 1) + (IF timer THEN 1 ELSE 0)

-----------------------------------------------------------------------------
Start ==
  /\ ~up
  /\ starts < MaxStarts
  /\ CleanRestart => ~running /\ (starts = 0 \/ stopped)
  /\ starts' = starts + 1
  /\ up' = TRUE
  /\ stopped' = FALSE
  /\ pending' = FALSE
  /\ startWaiters' = startWaiters + 1
  /\ RunOrJoin
  /\ UNCHANGED <<interval, cooldownTimer, timer, orphans, tickWaiters, failures,
                 changed, settled>>

(* Clearing _timer cancels the one timer it refers to. *)
CancelTimers ==
  /\ timer' = FALSE
  /\ cooldownTimer' = Unarmed

(* stop() returns at once: it does not wait for the running cycle. *)
Stop ==
  /\ starts > 0
  /\ ~stopped
  /\ stopped' = TRUE
  /\ pending' = FALSE
  /\ CancelTimers
  /\ up' = FALSE
  /\ UNCHANGED <<interval, running, sinceRun, orphans, tickWaiters, startWaiters, starts,
                 failures, changeVars>>

(* A timer armed earlier in the window would otherwise still fire. *)
ClearCooldownTimer == cooldownTimer' = Unarmed

(* What is left of the window. *)
Wait == Cooldown - sinceRun

(* notifyChange() past its first return, which ignores a change in interval *)
(* mode or when stopped.                                                    *)
NotifyChange ==
  /\ interval = 0
  /\ ~stopped
  /\ starts > 0
  /\ changed < MaxChanges
  /\ changed' = changed + 1
  /\ \/ /\ sinceRun >= Cooldown             \* the window is over: run now
        /\ ClearCooldownTimer
        /\ RunForChange(changed + 1)
     \/ /\ sinceRun < Cooldown              \* wait for its end
        /\ cooldownTimer = Unarmed
        /\ cooldownTimer' = Wait
        /\ UNCHANGED <<pending, running, sinceRun, seen>>
     \/ /\ sinceRun < Cooldown              \* coalesced with an earlier change
        /\ cooldownTimer # Unarmed
        /\ UNCHANGED <<cooldownTimer, pending, running, sinceRun, seen>>
  /\ UNCHANGED <<stopped, chainVars, ownerVars, failures, settled>>

(* The callback of _cooldownTimer. *)
CooldownFire ==
  /\ cooldownTimer = 0
  /\ cooldownTimer' = Unarmed
  /\ RunForChange(changed)
  /\ UNCHANGED <<stopped, chainVars, ownerVars, failures, changed, settled>>

(* The callback of an interval timer: the one _timer refers to, or one it   *)
(* has lost. It does not look at _stopped before it runs a cycle.           *)
IntervalFire ==
  /\ \/ timer /\ timer' = FALSE /\ UNCHANGED orphans
     \/ orphans > 0 /\ orphans' = orphans - 1 /\ UNCHANGED timer
  /\ tickWaiters' = tickWaiters + 1
  /\ RunOrJoin
  /\ UNCHANGED <<stopped, pending, cooldownTimer, startWaiters, ownerVars,
                 failures, changed, settled>>

(* _run's .finally(): a change that came during the cycle gets its own. *)
FollowUp ==
  IF pending /\ ~stopped
  THEN pending' = FALSE /\ BeginCycle(changed)
  ELSE running' = FALSE /\ UNCHANGED <<pending, sinceRun, seen>>

(* The calls that await the cycle and now call _schedule: a tick always, a  *)
(* start() only if the cycle was good.                                      *)
Schedulers(ok) ==
  IF interval = 0 THEN 0 ELSE tickWaiters + (IF ok THEN startWaiters ELSE 0)

(* The current cycle ends: first the follow-up begins, then the calls       *)
(* awaiting the cycle go on. A start() rejects if the cycle failed, so its  *)
(* owner knows the transport is not up.                                     *)
Settle(ok) ==
  /\ running
  /\ FollowUp
  /\ Schedule(Schedulers(ok))
  /\ tickWaiters' = 0
  /\ startWaiters' = 0
  /\ up' = (up /\ (ok \/ startWaiters = 0))
  /\ settled' = seen
  /\ UNCHANGED <<interval, stopped, cooldownTimer, starts, changed>>

CycleDone ==
  /\ Settle(TRUE)
  /\ UNCHANGED failures

CycleFailed ==
  /\ failures < MaxFailures
  /\ Settle(FALSE)
  /\ failures' = failures + 1

(* One unit of time passes. *)
Tick ==
  /\ sinceRun < Cooldown \/ cooldownTimer > 0
  /\ sinceRun' = IF sinceRun < Cooldown THEN sinceRun + 1 ELSE sinceRun
  /\ cooldownTimer' = IF cooldownTimer > 0 THEN cooldownTimer - 1 ELSE cooldownTimer
  /\ UNCHANGED <<stopped, pending, running, chainVars, ownerVars, failures,
                 changeVars>>

Next ==
  \/ Start
  \/ Stop
  \/ NotifyChange
  \/ CooldownFire
  \/ IntervalFire
  \/ CycleDone
  \/ CycleFailed
  \/ Tick

(* The event loop fires due timers, time passes, and a cycle ends one way   *)
(* or the other: the source, the publisher, the signer and deliver() all    *)
(* settle. Nothing makes the owner call start or stop, or a zone change.    *)
Fairness ==
  /\ WF_vars(CooldownFire)
  /\ WF_vars(IntervalFire)
  /\ WF_vars(CycleDone \/ CycleFailed)
  /\ WF_vars(Tick)

Spec == Init /\ [][Next]_vars /\ Fairness

-----------------------------------------------------------------------------
(* A change that no cycle has read yet is remembered somewhere: by the      *)
(* follow-up flag or by an armed cooldown timer (base.js:57-96). Holds for  *)
(* an owner that restarts cleanly.                                          *)
ChangeNotForgotten ==
  interval = 0 /\ ~stopped /\ seen < changed
    => pending \/ cooldownTimer # Unarmed

(* And only then: a burst of changes costs one further cycle, not more      *)
(* (test/transport.js:30-36, 115, "exactly one follow-up, not a loop").     *)
NoNeedlessCycle ==
  pending \/ cooldownTimer # Unarmed => seen < changed

(* After stop() no timer is left that could start another cycle, and none   *)
(* is asked for (base.js:44-55; test/transport.js:56, "stop() must cancel   *)
(* further ticks").                                                         *)
StopCancels ==
  stopped => ~timer /\ orphans = 0 /\ cooldownTimer = Unarmed /\ ~pending

(* There is one chain of ticks, never two side by side: either its timer is *)
(* armed, or its tick, or the start() that will arm the first one, awaits   *)
(* the current cycle (base.js:33-42, 112-122).                              *)
SingleChain ==
  (IF timer THEN 1 ELSE 0) + orphans + tickWaiters + startWaiters <= 1

(* A cycle begins in this step: from idle, or as the follow-up of one that  *)
(* ends.                                                                    *)
CycleBegins ==
  running' /\ (~running \/ (pending /\ ~pending' /\ ~stopped'))

(* In event mode two cycles begin at least Cooldown apart, follow-up cycles *)
(* included, unless start() asks for one (base.js:11-14, 57-96).            *)
CooldownSpacing ==
  [][interval = 0 /\ CycleBegins /\ starts' = starts => sinceRun >= Cooldown]_vars

(* Once stopped, a transport begins no cycle until it is started again.     *)
StoppedIsQuiet ==
  [][stopped /\ stopped' /\ running' => running]_vars

(* In interval mode a transport that is up keeps beginning cycles, also     *)
(* after cycles that fail (base.js:112-122).                                *)
KeepsCycling ==
  (interval > 0 /\ up /\ ~running) ~> (running \/ ~up)

(* The transport implements the worker of CoalescingWorker: cycles one at a *)
(* time, none begun while stopped, and no change left behind (base.js).     *)
Worker == INSTANCE CoalescingWorker
            WITH open <- ~stopped, busy <- running, asked <- changed, taken <- seen

RefinesWorker == Worker!Spec
==============================================================================
