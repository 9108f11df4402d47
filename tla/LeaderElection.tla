--------------------------- MODULE LeaderElection ---------------------------
(***************************************************************************)
(* setupLeaderElection in one controller process: the goroutines that the  *)
(* elector of client-go starts and the callbacks that start and stop the   *)
(* status syncer and the leader metrics.                                   *)
(*                                                                         *)
(* LeaderElector.Run acquires the lock, starts OnStartedLeading in a       *)
(* goroutine of its own, renews the lock until that fails, and calls       *)
(* OnStoppedLeading, which starts Run again.                               *)
(***************************************************************************)
EXTENDS Integers, FiniteSets

CONSTANTS
  MaxTerms,  \* bound: times the lock is acquired
  Setups     \* name -> how the callbacks run

LeaderAssumption == MaxTerms \in Nat

VARIABLE setup   \* the setup of this behaviour

\* Callbacks end before the lock is lost or acquired again.
Prompt == Setups[setup].prompt

Terms == 1..MaxTerms

VARIABLES
  elector,   \* Run: "acquiring", "leading", "stopping", or "crashed"
  term,      \* times the lock was acquired
  started,   \* OnStartedLeading per term: "no", "spawned", "made", "running", "done"
  stopped,   \* OnStoppedLeading per term: "no", "restarted", "done"
  stopCh,    \* the variable stopCh: 0 (nil) or the term of its channel
  closed,    \* channels that are closed
  polls,     \* syncStatus.Run per term: the channel it polls, 0 if there is none
  workers,   \* goroutines in syncQueue.Run
  leader     \* the gauge leader_election_status

vars == <<elector, term, started, stopped, stopCh, closed, polls, workers, leader>>

TypeOK ==
  /\ elector \in {"acquiring", "leading", "stopping", "crashed"}
  /\ term \in 0..MaxTerms
  /\ started \in [Terms -> {"no", "spawned", "made", "running", "done"}]
  /\ stopped \in [Terms -> {"no", "restarted", "done"}]
  /\ stopCh \in 0..term
  /\ closed \subseteq 1..term
  /\ polls \in [Terms -> 0..MaxTerms]
  /\ workers \in 0..term
  /\ leader \in BOOLEAN

Init ==
  /\ setup \in DOMAIN Setups
  /\ elector = "acquiring" /\ term = 0
  /\ started = [t \in Terms |-> "no"] /\ stopped = [t \in Terms |-> "no"]
  /\ stopCh = 0 /\ closed = {}
  /\ polls = [t \in Terms |-> 0] /\ workers = 0
  /\ leader = FALSE

CallbacksDone ==
  \A t \in Terms : started[t] \in {"no", "done"} /\ stopped[t] \in {"no", "done"}

-----------------------------------------------------------------------------
(* LeaderElector.Run *)

\* acquire succeeds: go OnStartedLeading(ctx)
Acquire ==
  /\ elector = "acquiring" /\ term < MaxTerms
  /\ Prompt => CallbacksDone
  /\ elector' = "leading"
  /\ term' = term + 1
  /\ started' = [started EXCEPT ![term + 1] = "spawned"]
  /\ UNCHANGED <<stopped, stopCh, closed, polls, workers, leader>>

\* The lock cannot be renewed until RenewDeadline.
Lose ==
  /\ elector = "leading"
  /\ Prompt => CallbacksDone
  /\ elector' = "stopping"
  /\ UNCHANGED <<term, started, stopped, stopCh, closed, polls, workers, leader>>

-----------------------------------------------------------------------------
(* OnStartedLeading *)

StepStarted(t, from, to) ==
  /\ elector # "crashed"
  /\ started[t] = from
  /\ started' = [started EXCEPT ![t] = to]

\* stopCh = make(chan struct{})
MakeChannel(t) ==
  /\ StepStarted(t, "spawned", "made")
  /\ stopCh' = t
  /\ UNCHANGED <<elector, term, stopped, closed, polls, workers, leader>>

\* config.OnStartedLeading(stopCh), with the channel the variable has by then:
\* go syncStatus.Run(stopCh), which starts a worker of the queue and polls.
StartSyncer(t) ==
  /\ StepStarted(t, "made", "running")
  /\ polls' = [polls EXCEPT ![t] = stopCh]
  /\ workers' = workers + 1
  /\ UNCHANGED <<elector, term, stopped, stopCh, closed, leader>>

\* metricCollector.OnStartedLeading
LeaderMetrics(t) ==
  /\ StepStarted(t, "running", "done")
  /\ leader' = TRUE
  /\ UNCHANGED <<elector, term, stopped, stopCh, closed, polls, workers>>

\* wait.PollUntil returns when its channel is closed.  The worker of the queue
\* does not: it waits for an element (queue.go: worker).
EndPoll(t) ==
  /\ elector # "crashed"
  /\ polls[t] \in closed
  /\ polls' = [polls EXCEPT ![t] = 0]
  /\ UNCHANGED <<elector, term, started, stopped, stopCh, closed, workers, leader>>

-----------------------------------------------------------------------------
(* OnStoppedLeading *)

\* close(stopCh) panics for a nil or closed channel; then cancelContext() and
\* newLeaderCtx, which starts Run again.
LeaveOpen ==
  /\ elector = "stopping"
  /\ elector' = "acquiring"
  /\ stopped' = [stopped EXCEPT ![term] = "restarted"]
  /\ UNCHANGED <<term, started, stopCh, closed, polls, workers, leader>>

StopAndRestart ==
  /\ elector = "stopping"
  /\ IF stopCh \in closed \cup {0}
     THEN /\ elector' = "crashed"
          /\ UNCHANGED <<closed, stopped>>
     ELSE /\ elector' = "acquiring"
          /\ closed' = closed \cup {stopCh}
          /\ stopped' = [stopped EXCEPT ![term] = "restarted"]
  /\ UNCHANGED <<term, started, stopCh, polls, workers, leader>>

\* metricCollector.OnStoppedLeading
FollowerMetrics(t) ==
  /\ elector # "crashed"
  /\ stopped[t] = "restarted"
  /\ stopped' = [stopped EXCEPT ![t] = "done"]
  /\ leader' = FALSE
  /\ UNCHANGED <<elector, term, started, stopCh, closed, polls, workers>>

-----------------------------------------------------------------------------
Callback(t) ==
  \/ MakeChannel(t) \/ StartSyncer(t) \/ LeaderMetrics(t) \/ FollowerMetrics(t) \/ EndPoll(t)

Step ==
  \/ Acquire \/ Lose \/ StopAndRestart
  \/ \E t \in Terms : Callback(t)

Next == Step /\ UNCHANGED setup

(***************************************************************************)
(* Goroutines that can run do run; nothing makes the process win or lose   *)
(* the lock.                                                               *)
(***************************************************************************)
Fairness == WF_vars(StopAndRestart) /\ \A t \in Terms : WF_vars(Callback(t))

Spec == Init /\ [][Next]_<<vars, setup>> /\ Fairness

-----------------------------------------------------------------------------
(* Properties *)

\* Status syncers whose channel is open.
Polling == {t \in Terms : polls[t] # 0 /\ polls[t] \notin closed}

(***************************************************************************)
(* A process that has stopped leading (close(stopCh) in OnStoppedLeading   *)
(* is done) does not poll for status updates any more, however late its    *)
(* OnStartedLeading callbacks run: every channel they made is closed.      *)
(***************************************************************************)
NoOrphanPoll == elector = "acquiring" => Polling = {}

(***************************************************************************)
(* Losing the lock is not fatal: OnStoppedLeading closes an open channel   *)
(* and campaigns again.                                                    *)
(***************************************************************************)
NoClosePanic == elector # "crashed"

(***************************************************************************)
(* "Gauge reporting status of the leader election, 0 indicates follower,   *)
(* 1 indicates leader" (metric/collectors/controller.go:169): when no      *)
(* callback is under way the gauge tells whether this process leads.       *)
(***************************************************************************)
GaugeIsRight ==
  CallbacksDone /\ elector \in {"acquiring", "leading"} => leader = (elector = "leading")

(***************************************************************************)
(* A process that loses the lock does not poll, whenever its callbacks     *)
(* run; with callbacks that end in time it survives the loss and its gauge *)
(* is right (setupLeaderElection).                                         *)
(***************************************************************************)
ElectionIsSafe == NoOrphanPoll /\ (Prompt => NoClosePanic /\ GaugeIsRight)

(***************************************************************************)
(* A process that keeps the lock ends up polling for status updates        *)
(* (OnStartedLeading, then statusSync.Run).                                *)
(***************************************************************************)
LeaderPolls == []<>(elector # "leading" \/ Polling # {})

(***************************************************************************)
(* "Queue manages a time work queue through an independent worker"         *)
(* (queue.go:34): the queue of the status syncer has one worker.           *)
(***************************************************************************)
OneWorker == workers <= 1
=============================================================================
