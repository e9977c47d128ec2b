--------------------------- MODULE CoalescingWorker ---------------------------
(***************************************************************************)
(* What a transport promises whoever tells it of changes, with no timers,   *)
(* cooldown window or flags: a worker that runs one cycle at a time, takes  *)
(* up every request made before a cycle begins, begins no cycle while it is *)
(* closed, and, as long as it is open, leaves no request behind.            *)
(***************************************************************************)
EXTENDS Naturals

VARIABLES
  open,   \* the worker accepts requests
  busy,   \* a cycle is running
  asked,  \* requests so far
  taken   \* of those, the ones the latest cycle to begin has taken up

workerVars == <<open, busy, asked, taken>>

Init ==
  /\ open \in BOOLEAN
  /\ busy = FALSE
  /\ asked = 0
  /\ taken = 0

Open ==
  /\ open' = TRUE
  /\ \/ ~busy /\ busy' = TRUE /\ taken' = asked     \* with a first cycle
     \/ UNCHANGED <<busy, taken>>
  /\ UNCHANGED asked

(* A cycle that is running when the worker closes runs on. *)
Close ==
  /\ open' = FALSE
  /\ UNCHANGED <<busy, asked, taken>>

Ask ==
  /\ open
  /\ asked' = asked + 1
  /\ \/ UNCHANGED <<busy, taken>>
     \/ ~busy /\ busy' = TRUE /\ taken' = asked + 1  \* begun at once
  /\ UNCHANGED open

Begin ==
  /\ open
  /\ ~busy
  /\ busy' = TRUE
  /\ taken' = asked
  /\ UNCHANGED <<open, asked>>

(* The next cycle may follow without a pause. *)
Finish ==
  /\ busy
  /\ \/ busy' = FALSE /\ UNCHANGED taken
     \/ open /\ taken < asked /\ taken' = asked /\ UNCHANGED busy
  /\ UNCHANGED <<open, asked>>

Next == Open \/ Close \/ Ask \/ Begin \/ Finish

Fairness ==
  /\ WF_workerVars(Begin /\ taken < asked)
  /\ WF_workerVars(Finish)

Spec == Init /\ [][Next]_workerVars /\ Fairness
==============================================================================
