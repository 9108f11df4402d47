---------------------------- MODULE ProcessProofs ----------------------------
(***************************************************************************)
(* Proofs about a controller process among others: its leader election     *)
(* (Leader), its life in a container (Life) and the status of the          *)
(* ingresses (Status), for every number of terms, retries, probes and pods *)
(* and for every setup.                                                    *)
(***************************************************************************)
EXTENDS Process, FiniteSetTheorems, TLAPS

\* A step is one of the component whose setup this is.
LEMMA StepOfOne ==
  ASSUME [Next]_vars
  PROVE  /\ UNCHANGED setup
         /\ OfLeader => [Leader!Next]_<<Leader!vars, setup>>
         /\ OfLife => [Life!Next]_<<Life!vars, setup>>
         /\ OfStatus => [Status!Next]_<<Status!vars, setup>>
<1> USE DEF OfLeader, OfLife, OfStatus
<1>1. CASE OfLife /\ Life!Next
  BY <1>1, ProcessAssumption DEF Life!Next
<1>2. CASE OfLeader /\ Leader!Next
  BY <1>2, ProcessAssumption DEF Leader!Next
<1>3. CASE OfStatus /\ Status!Next
  BY <1>3, ProcessAssumption DEF Status!Next
<1>4. CASE UNCHANGED vars
  BY <1>4 DEF vars, lifeVars, leaderVars, statusVars, Life!vars, Leader!vars, Status!vars,
     Status!cluster, Status!local
<1> QED
  BY <1>1, <1>2, <1>3, <1>4 DEF Next

\* So does every behaviour start.
LEMMA InitOfOne ==
  ASSUME Init
  PROVE  /\ OfLeader => Leader!Init
         /\ OfLife => Life!Init
         /\ OfStatus => Status!Init
BY ProcessAssumption DEF Init, OfLeader, OfLife, OfStatus

-----------------------------------------------------------------------------
(* Leader election *)

\* The terms whose OnStoppedLeading has closed a channel.
EndedTerms == IF elector = "acquiring" THEN 1..term ELSE 1..(term - 1)

\* Whenever the callbacks run: a term can only end after its channel was made, so
\* that stopCh never holds an older channel than the one of the last ended term.
ChannelsOK ==
  elector # "crashed" =>
    /\ elector # "acquiring" => term > 0
    /\ closed = EndedTerms
    /\ \A t \in 1..MaxTerms :
         /\ t > term <=> started[t] = "no"
         /\ t \in closed => started[t] # "spawned"
         /\ polls[t] <= stopCh
    /\ stopCh = IF elector = "acquiring" \/ started[term] # "spawned" THEN term ELSE term - 1

\* With callbacks that end before the lock changes hands.
PromptOK ==
  Leader!Prompt =>
    /\ elector # "crashed"
    /\ \A t \in 1..term : elector # "leading" \/ t < term => started[t] = "done"
    /\ elector \in {"leading", "stopping"} =>
         /\ \A t \in 1..MaxTerms : ended[t] # "restarted"
         /\ started[term] = "done" => leader
    /\ elector = "acquiring" /\ leader => \E t \in 1..MaxTerms : ended[t] = "restarted"

\* The terms whose OnStartedLeading has started a worker of the status queue.
Started == {t \in 1..MaxTerms : started[t] \in {"running", "done"}}

\* Each of them adds a worker, and no worker ends.
SyncersOK == syncers = Cardinality(Started)

ElectionInv == Leader!TypeOK /\ ChannelsOK /\ PromptOK /\ SyncersOK

LEMMA ElectionInit ==
  ASSUME Leader!LeaderAssumption, Leader!Init
  PROVE  ElectionInv
<1> USE DEF Leader!LeaderAssumption, Leader!Init, Leader!Terms
<1>1. Leader!TypeOK
  <2>1. leader \in BOOLEAN
    OBVIOUS
  <2>2. /\ elector \in {"acquiring", "leading", "stopping", "crashed"} /\ term \in 0..MaxTerms
        /\ started \in [1..MaxTerms -> {"no", "spawned", "made", "running", "done"}]
        /\ ended \in [1..MaxTerms -> {"no", "restarted", "done"}]
        /\ stopCh \in 0..term /\ closed \subseteq 1..term
        /\ polls \in [1..MaxTerms -> 0..MaxTerms] /\ syncers \in 0..term
    OBVIOUS
  <2> QED
    BY <2>1, <2>2 DEF Leader!TypeOK
<1>2. ChannelsOK
  BY DEF ChannelsOK, EndedTerms
<1>3. PromptOK
  BY DEF PromptOK
<1>4. SyncersOK
  <2>1. Started = {}
    BY DEF Started
  <2> QED
    BY <2>1, FS_EmptySet DEF SyncersOK
<1> QED
  BY <1>1, <1>2, <1>3, <1>4 DEF ElectionInv

\* One worker per started term, so no more than there were terms.
LEMMA SyncersBound ==
  ASSUME Leader!LeaderAssumption, ElectionInv
  PROVE  /\ IsFiniteSet(Started) /\ Cardinality(Started) \in Nat
         /\ \A t \in 1..term : t \notin Started =>
              /\ Cardinality(Started \cup {t}) = Cardinality(Started) + 1
              /\ elector # "crashed" => Cardinality(Started) < term
<1> USE DEF Leader!LeaderAssumption, Leader!Terms
<1>1. IsFiniteSet(1..MaxTerms) /\ IsFiniteSet(1..term) /\ Cardinality(1..term) = term
  BY FS_Interval DEF ElectionInv, Leader!TypeOK
<1>2. Started \subseteq 1..MaxTerms
  BY DEF Started
<1>3. IsFiniteSet(Started) /\ Cardinality(Started) \in Nat
  BY <1>1, <1>2, FS_Subset, FS_CardinalityType
<1>4. ASSUME NEW t \in 1..term, t \notin Started
      PROVE  Cardinality(Started \cup {t}) = Cardinality(Started) + 1
  BY <1>3, <1>4, FS_AddElement
<1>5. ASSUME NEW t \in 1..term, t \notin Started, elector # "crashed"
      PROVE  Cardinality(Started) < term
  <2>1. Started \cup {t} \subseteq 1..term
    BY <1>5 DEF Started, ElectionInv, ChannelsOK, Leader!TypeOK
  <2>2. Cardinality(Started \cup {t}) <= term
    BY <1>1, <2>1, FS_Subset
  <2> QED
    BY <1>3, <1>4, <1>5, <2>2 DEF ElectionInv, Leader!TypeOK
<1> QED
  BY <1>3, <1>4, <1>5

LEMMA SyncersStart ==
  ASSUME Leader!LeaderAssumption, ElectionInv, NEW t \in Leader!Terms, Leader!StartSyncer(t)
  PROVE  SyncersOK' /\ syncers' <= term
<1>1. /\ started[t] = "made" /\ elector # "crashed" /\ syncers' = syncers + 1
      /\ started' = [started EXCEPT ![t] = "running"]
  BY DEF Leader!StartSyncer, Leader!StepStarted
<1>2. /\ t \in 1..MaxTerms /\ term \in 0..MaxTerms
      /\ started \in [1..MaxTerms -> {"no", "spawned", "made", "running", "done"}]
  BY DEF ElectionInv, Leader!TypeOK, Leader!Terms
<1>3. t \in 1..term /\ t \notin Started /\ Started' = Started \cup {t}
  <2>1. t <= term
    BY <1>1, <1>2 DEF ElectionInv, ChannelsOK
  <2> QED
    BY <1>1, <1>2, <2>1 DEF Started, Leader!LeaderAssumption
<1>4. /\ Cardinality(Started) \in Nat /\ Cardinality(Started') = Cardinality(Started) + 1
      /\ Cardinality(Started) < term
  BY <1>1, <1>3, SyncersBound
<1> QED
  BY <1>1, <1>2, <1>4 DEF ElectionInv, SyncersOK

LEMMA SyncersNext ==
  ASSUME Leader!LeaderAssumption, ElectionInv, [Leader!Next]_<<Leader!vars, setup>>
  PROVE  SyncersOK'
<1>1. ASSUME Started' = Started, UNCHANGED syncers PROVE SyncersOK'
  BY <1>1 DEF SyncersOK, ElectionInv
<1>2. ASSUME NEW t \in Leader!Terms, Leader!StartSyncer(t) PROVE SyncersOK'
  BY <1>2, SyncersStart
<1>3. ASSUME NEW t \in Leader!Terms, Leader!MakeChannel(t) \/ Leader!LeaderMetrics(t)
      PROVE  SyncersOK'
  BY <1>1, <1>3 DEF Leader!MakeChannel, Leader!LeaderMetrics, Leader!StepStarted, Started,
     ElectionInv, Leader!TypeOK, Leader!Terms
<1>4. CASE Leader!Acquire
  <2>1. term + 1 \in 1..MaxTerms /\ started[term + 1] = "no"
    BY <1>4 DEF Leader!Acquire, ElectionInv, ChannelsOK, Leader!TypeOK, Leader!Terms,
       Leader!LeaderAssumption
  <2> QED
    BY <1>1, <1>4, <2>1 DEF Leader!Acquire, Started, ElectionInv, Leader!TypeOK, Leader!Terms
<1>5. CASE UNCHANGED <<started, syncers>>
  BY <1>1, <1>5 DEF Started
<1> QED
  BY <1>2, <1>3, <1>4, <1>5 DEF Leader!Next, Leader!Step, Leader!Callback, Leader!Lose,
     Leader!StopAndRestart, Leader!FollowerMetrics, Leader!EndPoll, Leader!vars

LEMMA ElectionNext ==
  ASSUME Leader!LeaderAssumption, ElectionInv, [Leader!Next]_<<Leader!vars, setup>>
  PROVE  ElectionInv'
<1> SUFFICES Leader!TypeOK' /\ ChannelsOK' /\ PromptOK'
  BY SyncersNext DEF ElectionInv
<1>0. ASSUME NEW t \in 1..MaxTerms, Leader!StartSyncer(t) PROVE syncers' \in 0..term
  <2>1. syncers' <= term
    BY <1>0, SyncersStart DEF Leader!Terms
  <2>2. syncers' = syncers + 1 /\ syncers \in 0..term
    BY <1>0 DEF Leader!StartSyncer, ElectionInv, Leader!TypeOK
  <2> QED
    BY <2>1, <2>2
<1> USE DEF Leader!LeaderAssumption, Leader!Terms, ElectionInv, Leader!TypeOK
<1>1. CASE Leader!Acquire /\ UNCHANGED setup
  <2>1. Leader!TypeOK'
    BY <1>1 DEF Leader!Acquire
  <2>2. ChannelsOK'
    BY <1>1 DEF Leader!Acquire, ChannelsOK, EndedTerms
  <2>3. PromptOK'
    BY <1>1 DEF Leader!Acquire, Leader!CallbacksDone, ChannelsOK, PromptOK, Leader!Prompt
  <2> QED
    BY <2>1, <2>2, <2>3
<1>2. CASE Leader!Lose /\ UNCHANGED setup
  <2>1. Leader!TypeOK'
    BY <1>2 DEF Leader!Lose
  <2>2. ChannelsOK'
    BY <1>2 DEF Leader!Lose, ChannelsOK, EndedTerms
  <2>3. PromptOK'
    BY <1>2 DEF Leader!Lose, Leader!CallbacksDone, ChannelsOK, PromptOK, Leader!Prompt
  <2> QED
    BY <2>1, <2>2, <2>3
<1>3. CASE Leader!StopAndRestart /\ UNCHANGED setup
  <2>1. CASE stopCh \in closed \cup {0}
    <3>1. elector' = "crashed" /\ UNCHANGED <<closed, ended, term, started, stopCh, polls,
                                              syncers, leader, setup>>
      BY <1>3, <2>1 DEF Leader!StopAndRestart
    <3>2. ~Leader!Prompt
      BY <1>3, <2>1 DEF Leader!StopAndRestart, ChannelsOK, PromptOK, EndedTerms
    <3> QED
      BY <3>1, <3>2 DEF ChannelsOK, PromptOK, Leader!Prompt
  <2>2. CASE stopCh \notin closed \cup {0}
    <3>1. /\ elector = "stopping" /\ elector' = "acquiring" /\ closed' = closed \cup {stopCh}
          /\ ended' = [ended EXCEPT ![term] = "restarted"]
          /\ UNCHANGED <<term, started, stopCh, polls, syncers, leader, setup>>
      BY <1>3, <2>2 DEF Leader!StopAndRestart
    <3>2. stopCh = term /\ started[term] # "spawned" /\ term \in 1..MaxTerms
      BY <2>2, <3>1 DEF ChannelsOK, EndedTerms
    <3>3. Leader!TypeOK'
      BY <3>1, <3>2
    <3>4. ChannelsOK'
      BY <3>1, <3>2 DEF ChannelsOK, EndedTerms
    <3>5. PromptOK'
      BY <3>1, <3>2 DEF PromptOK, Leader!Prompt
    <3> QED
      BY <3>3, <3>4, <3>5
  <2> QED
    BY <2>1, <2>2
<1>4. ASSUME NEW t \in 1..MaxTerms, Leader!MakeChannel(t), UNCHANGED setup
      PROVE  Leader!TypeOK' /\ ChannelsOK' /\ PromptOK'
  <2>1. t = term /\ elector # "acquiring"
    BY <1>4 DEF Leader!MakeChannel, Leader!StepStarted, ChannelsOK, EndedTerms
  <2>2. Leader!TypeOK'
    BY <1>4, <2>1 DEF Leader!MakeChannel, Leader!StepStarted
  <2>3. ChannelsOK'
    BY <1>4, <2>1 DEF Leader!MakeChannel, Leader!StepStarted, ChannelsOK, EndedTerms
  <2>4. PromptOK'
    BY <1>4, <2>1 DEF Leader!MakeChannel, Leader!StepStarted, PromptOK, Leader!Prompt
  <2> QED
    BY <2>2, <2>3, <2>4
<1>5. ASSUME NEW t \in 1..MaxTerms, Leader!StartSyncer(t), UNCHANGED setup
      PROVE  Leader!TypeOK' /\ ChannelsOK' /\ PromptOK'
  <2>1. Leader!TypeOK'
    <3>1. syncers' \in 0..term'
      BY <1>0, <1>5 DEF Leader!StartSyncer
    <3>2. /\ started' \in [1..MaxTerms -> {"no", "spawned", "made", "running", "done"}]
          /\ polls' \in [1..MaxTerms -> 0..MaxTerms]
          /\ UNCHANGED <<elector, term, ended, stopCh, closed, leader>>
      BY <1>5 DEF Leader!StartSyncer, Leader!StepStarted
    <3> QED
      BY <3>1, <3>2
  <2>2. ChannelsOK'
    BY <1>5 DEF Leader!StartSyncer, Leader!StepStarted, ChannelsOK, EndedTerms
  <2>3. PromptOK'
    BY <1>5 DEF Leader!StartSyncer, Leader!StepStarted, PromptOK, Leader!Prompt
  <2> QED
    BY <2>1, <2>2, <2>3
<1>6. ASSUME NEW t \in 1..MaxTerms, Leader!LeaderMetrics(t), UNCHANGED setup
      PROVE  Leader!TypeOK' /\ ChannelsOK' /\ PromptOK'
  <2>2. Leader!TypeOK'
    BY <1>6 DEF Leader!LeaderMetrics, Leader!StepStarted
  <2>3. ChannelsOK'
    BY <1>6 DEF Leader!LeaderMetrics, Leader!StepStarted, ChannelsOK, EndedTerms
  <2>4. PromptOK'
    BY <1>6 DEF Leader!LeaderMetrics, Leader!StepStarted, PromptOK, ChannelsOK, Leader!Prompt
  <2> QED
    BY <2>2, <2>3, <2>4
<1>7. ASSUME NEW t \in 1..MaxTerms, Leader!FollowerMetrics(t), UNCHANGED setup
      PROVE  Leader!TypeOK' /\ ChannelsOK' /\ PromptOK'
  <2>2. Leader!TypeOK'
    BY <1>7 DEF Leader!FollowerMetrics
  <2>3. ChannelsOK'
    BY <1>7 DEF Leader!FollowerMetrics, ChannelsOK, EndedTerms
  <2>4. PromptOK'
    BY <1>7 DEF Leader!FollowerMetrics, PromptOK, Leader!Prompt
  <2> QED
    BY <2>2, <2>3, <2>4
<1>8. ASSUME NEW t \in 1..MaxTerms, Leader!EndPoll(t), UNCHANGED setup
      PROVE  Leader!TypeOK' /\ ChannelsOK' /\ PromptOK'
  <2>2. Leader!TypeOK'
    BY <1>8 DEF Leader!EndPoll
  <2>3. ChannelsOK'
    BY <1>8 DEF Leader!EndPoll, ChannelsOK, EndedTerms
  <2>4. PromptOK'
    BY <1>8 DEF Leader!EndPoll, PromptOK, Leader!Prompt
  <2> QED
    BY <2>2, <2>3, <2>4
<1>9. CASE UNCHANGED <<Leader!vars, setup>>
  BY <1>9 DEF Leader!vars, ChannelsOK, EndedTerms, PromptOK, Leader!Prompt
<1> QED
  BY <1>1, <1>2, <1>3, <1>4, <1>5, <1>6, <1>7, <1>8, <1>9
     DEF Leader!Next, Leader!Step, Leader!Callback

\* For any number of terms and whenever the callbacks of client-go run: no poller of
\* the status outlives the term it was started for.  With callbacks that end before
\* the lock changes hands, close(stopCh) never panics and the gauge is right.
THEOREM ElectionSafe == Spec => []ElectionIsSafe
<1>1. ElectionInv => Leader!ElectionIsSafe
  <2> SUFFICES ASSUME ElectionInv PROVE Leader!ElectionIsSafe
    OBVIOUS
  <2>1. Leader!NoOrphanPoll
    BY DEF Leader!NoOrphanPoll, Leader!Polling, Leader!Terms, ElectionInv, Leader!TypeOK,
       ChannelsOK, EndedTerms
  <2>2. ASSUME Leader!Prompt PROVE Leader!NoClosePanic /\ Leader!GaugeIsRight
    BY <2>2 DEF Leader!NoClosePanic, Leader!GaugeIsRight, Leader!CallbacksDone, Leader!Terms,
       Leader!LeaderAssumption, ElectionInv, Leader!TypeOK, ChannelsOK, PromptOK
  <2> QED
    BY <2>1, <2>2 DEF Leader!ElectionIsSafe
<1> DEFINE Inv == OfLeader => ElectionInv
<1>2. Init => Inv
  BY ElectionInit, InitOfOne, ProcessAssumption
<1>3. Inv /\ [Next]_vars => Inv'
  BY ElectionNext, StepOfOne, ProcessAssumption DEF OfLeader
<1>4. Inv => ElectionIsSafe
  BY <1>1 DEF ElectionIsSafe
<1> QED
  BY <1>2, <1>3, <1>4, PTL DEF Spec

-----------------------------------------------------------------------------
(* The life of the container *)

Starting == {"flags", "client", "services", "checks", "spawn"}
Launched == {"enqueue", "loop", "returned"}
Ending   == {"grace", "closing", "status", "webhook", "quit", "poll", "delay"}

\* NGINX runs from its launch on and is not started again: when Stop has seen it go,
\* it stays gone, however far the goroutine Start is.
NginxOK ==
  /\ master \in {"none", "up", "told", "quitting", "dead", "ended", "reaped"}
  /\ workers \in {"none", "up", "quitting", "gone"}
  /\ master = "none" <=> workers = "none"
  /\ main \in Starting => start = "none"
  /\ master # "none" => start \in Launched
  /\ start \in Launched /\ main # "exited" => master # "none"
  /\ main = "poll" => master # "none"
  /\ main = "delay" /\ code = 0 => master = "reaped" /\ workers = "gone"
  /\ main = "exited" /\ code = 0 => ~Life!IsRunning

\* In an orderly life SIGTERM comes to a controller that has started NGINX and listens,
\* and only a master that has seen its workers end is reaped.
OrderlyOK ==
  Life!Orderly =>
    /\ master # "dead"
    /\ master \in {"ended", "reaped"} => workers = "gone"
    /\ signal \/ hook # "idle" \/ main \in Ending =>
         start \in {"loop", "returned"} /\ main \notin Starting \cup {"notify"}
    /\ main = "delay" => master = "reaped" /\ workers = "gone"
    /\ main = "exited" => ~Life!IsRunning

LEMMA LifeMain ==
  ASSUME NginxOK, OrderlyOK, UNCHANGED setup,
         Life!Main \/ \E at \in {"flags", "services", "checks"} : Life!Fatal(at)
  PROVE  NginxOK' /\ OrderlyOK'
<1> USE DEF NginxOK, OrderlyOK, Starting, Launched, Ending, Life!IsRunning, Life!Goto, Life!Exit,
    Life!nginxVars, Life!kubelet
<1>1. Life!Orderly' <=> Life!Orderly
  BY DEF Life!Orderly, Life!Faults, Life!Kills
<1>2. CASE Life!ParseFlags \/ Life!checkService \/ Life!InitChecks \/ Life!Spawn \/ Life!Notify
  BY <1>1, <1>2 DEF Life!ParseFlags, Life!checkService, Life!InitChecks, Life!Spawn, Life!Notify
<1>3. CASE Life!createApiserverClient
  BY <1>1, <1>3 DEF Life!createApiserverClient
<1>4. CASE Life!ReceiveSigterm
  BY <1>1, <1>4 DEF Life!ReceiveSigterm
<1>5. CASE Life!GracePeriod \/ Life!CloseStopCh \/ Life!ShutdownStatus
  BY <1>1, <1>5 DEF Life!GracePeriod, Life!CloseStopCh, Life!ShutdownStatus
<1>6. CASE Life!CloseWebhook
  <2>1. CASE main' = "quit"
    BY <1>1, <1>6, <2>1 DEF Life!CloseWebhook, Life!StopError
  <2>2. CASE main' # "quit"
    <3>1. ~Life!Orderly
      BY <1>6, <2>2 DEF Life!CloseWebhook, Life!Orderly
    <3> QED
      BY <1>1, <1>6, <2>2, <3>1 DEF Life!CloseWebhook, Life!StopError
  <2> QED
    BY <2>1, <2>2
<1>7. CASE Life!QuitNginx
  BY <1>1, <1>7 DEF Life!QuitNginx, Life!StopError
<1>8. CASE Life!AwaitNginx
  BY <1>1, <1>8 DEF Life!AwaitNginx
<1>9. CASE Life!DelayAndExit
  BY <1>1, <1>9 DEF Life!DelayAndExit
<1>10. ASSUME NEW at \in {"flags", "services", "checks"}, Life!Fatal(at)
       PROVE  NginxOK' /\ OrderlyOK'
  BY <1>1, <1>10 DEF Life!Fatal
<1> QED
  BY <1>2, <1>3, <1>4, <1>5, <1>6, <1>7, <1>8, <1>9, <1>10 DEF Life!Main

LEMMA LifeStart ==
  ASSUME NginxOK, OrderlyOK, UNCHANGED setup, Life!Start
  PROVE  NginxOK' /\ OrderlyOK'
<1> USE DEF NginxOK, OrderlyOK, Starting, Launched, Ending, Life!IsRunning, Life!StartStep,
    Life!Alive, Life!Exit, Life!controller, Life!nginxVars, Life!kubelet
<1>1. Life!Orderly' <=> Life!Orderly
  BY DEF Life!Orderly, Life!Faults, Life!Kills
<1>2. CASE Life!RunInformers \/ Life!SetupGoroutines \/ Life!Enqueue
  BY <1>1, <1>2 DEF Life!RunInformers, Life!SetupGoroutines, Life!Enqueue
<1>3. CASE Life!StartNginx
  BY <1>1, <1>3 DEF Life!StartNginx
<1>4. CASE Life!ReceiveNgxErr \/ Life!ReceiveStop \/ Life!FirstSync
  BY <1>1, <1>4 DEF Life!ReceiveNgxErr, Life!ReceiveStop, Life!FirstSync
<1> QED
  BY <1>2, <1>3, <1>4 DEF Life!Start

LEMMA LifeNginx ==
  ASSUME NginxOK, OrderlyOK, UNCHANGED setup, Life!Nginx \/ Life!MasterDies
  PROVE  NginxOK' /\ OrderlyOK'
<1> USE DEF NginxOK, OrderlyOK, Starting, Launched, Ending, Life!IsRunning, Life!NginxStep,
    Life!Alive, Life!controller, Life!kubelet
<1>1. Life!Orderly' <=> Life!Orderly
  BY DEF Life!Orderly, Life!Faults, Life!Kills
<1>2. CASE Life!MasterQuits \/ Life!WorkersEnd \/ Life!MasterEnds
  BY <1>1, <1>2 DEF Life!MasterQuits, Life!WorkersEnd, Life!MasterEnds
<1>3. CASE Life!Reap
  BY <1>1, <1>3 DEF Life!Reap
<1>4. CASE Life!MasterDies
  <2>1. ~Life!Orderly
    BY <1>4 DEF Life!MasterDies, Life!Orderly
  <2> QED
    BY <1>1, <1>4, <2>1 DEF Life!MasterDies
<1> QED
  BY <1>2, <1>3, <1>4 DEF Life!Nginx

LEMMA LifeKubelet ==
  ASSUME NginxOK, OrderlyOK, UNCHANGED setup,
         Life!Kubelet \/ Life!Probe \/ Life!DeletePod \/ Life!Sigkill
  PROVE  NginxOK' /\ OrderlyOK'
<1> USE DEF NginxOK, OrderlyOK, Starting, Launched, Ending, Life!IsRunning, Life!Alive,
    Life!Exit, Life!controller, Life!nginxVars, Life!kubelet
<1>1. Life!Orderly' <=> Life!Orderly
  BY DEF Life!Orderly, Life!Faults, Life!Kills
<1>2. CASE Life!Probe \/ Life!DeletePod
  <2>1. Life!Orderly => start \in {"loop", "returned"} /\ main # "notify"
    BY <1>2 DEF Life!Probe, Life!DeletePod, Life!Started, Life!Orderly
  <2>2. UNCHANGED <<main, code, start, signal, master, workers>>
    BY <1>2 DEF Life!Probe, Life!DeletePod
  <2> QED
    BY <1>1, <2>1, <2>2
<1>3. CASE Life!WaitShutdown \/ Life!KubeletSigterm
  BY <1>1, <1>3 DEF Life!WaitShutdown, Life!KubeletSigterm, Life!Sigterm
<1>4. CASE Life!WaitShutdownEnds
  BY <1>1, <1>4 DEF Life!WaitShutdownEnds
<1>5. CASE Life!Sigkill
  <2>1. ~Life!Orderly
    BY <1>5 DEF Life!Sigkill, Life!Orderly
  <2> QED
    BY <1>1, <1>5, <2>1 DEF Life!Sigkill
<1> QED
  BY <1>2, <1>3, <1>4, <1>5 DEF Life!Kubelet

\* For any number of retries and probes, whatever fails and whenever SIGTERM comes: a
\* container that ends with code 0 has seen NGINX end, and in an orderly life it never
\* ends before NGINX.
THEOREM ContainerStopsCleanly == Spec => []StopsCleanly
<1>1. Life!Init => NginxOK /\ OrderlyOK
  BY DEF Life!Init, NginxOK, OrderlyOK, Starting, Launched, Ending
<1>2. NginxOK /\ OrderlyOK /\ [Life!Next]_<<Life!vars, setup>> => NginxOK' /\ OrderlyOK'
  <2> SUFFICES ASSUME NginxOK, OrderlyOK, [Life!Next]_<<Life!vars, setup>>
               PROVE  NginxOK' /\ OrderlyOK'
    OBVIOUS
  <2>1. CASE UNCHANGED <<Life!vars, setup>>
    BY <2>1 DEF Life!vars, NginxOK, OrderlyOK, Life!IsRunning, Life!Orderly, Life!Faults,
       Life!Kills
  <2>2. CASE Life!Next
    BY <2>2, LifeMain, LifeStart, LifeNginx, LifeKubelet DEF Life!Next, Life!Step
  <2> QED
    BY <2>1, <2>2
<1>3. NginxOK /\ OrderlyOK => Life!StopsCleanly
  BY DEF NginxOK, OrderlyOK, Life!StopsCleanly, Life!CleanExit, Life!GracefulExit
<1> DEFINE Inv == OfLife => NginxOK /\ OrderlyOK
<1>4. Init => Inv
  BY <1>1, InitOfOne
<1>5. Inv /\ [Next]_vars => Inv'
  BY <1>2, StepOfOne DEF OfLife
<1>6. Inv => StopsCleanly
  BY <1>3 DEF StopsCleanly
<1> QED
  BY <1>4, <1>5, <1>6, PTL DEF Spec

-----------------------------------------------------------------------------
(* The status of the ingresses *)

StatusTypes ==
  /\ setup \in DOMAIN StatusSetups
  /\ st \in [Pods -> {"absent", "up", "stopping", "gone"}]
  /\ stop \in [Pods -> {"no", "begin", "count", "clear", "done"}]
  /\ events \in [Status!EventKinds -> Nat]

\* Whoever is in Shutdown is listed, and whoever removes addresses has found itself
\* the only one listed; nobody has come since.
AloneOK ==
  /\ \A p \in Pods : stop[p] \in {"begin", "count", "clear"} => st[p] = "stopping"
  /\ Status!Steady =>
       \A p \in Pods : stop[p] = "clear" => \A q \in Pods \ {p} : ~Status!Alive(q)

StatusInv == StatusTypes /\ AloneOK

\* INSTANCE brings its own copy of FiniteSets.
LEMMA SameCardinality == \A S : Status!Cardinality(S) = Cardinality(S)
  BY DEF Status!Cardinality, Cardinality

\* A count of the list that is not more than one is right about being alone.
LEMMA CountedAlone ==
  ASSUME IsFiniteSet(Pods), NEW p \in Status!Listed, NEW q \in Status!Listed, p # q
  PROVE  Cardinality(Status!Listed) > 1
<1>1. IsFiniteSet(Status!Listed)
  BY FS_Subset DEF Status!Listed
<1>2. IsFiniteSet({p}) /\ Cardinality({p}) = 1
  BY FS_Singleton
<1>3. IsFiniteSet({p} \cup {q}) /\ Cardinality({p} \cup {q}) = 2
  <2>1. q \notin {p} /\ IsFiniteSet({p})
    BY <1>2
  <2>2. /\ IsFiniteSet({p} \cup {q})
        /\ Cardinality({p} \cup {q}) = Cardinality({p}) + 1
    BY <2>1, FS_AddElement, Zenon
  <2> QED
    BY <1>2, <2>2
<1>4. Cardinality({p} \cup {q}) <= Cardinality(Status!Listed)
  BY <1>1, FS_Subset
<1>5. Cardinality(Status!Listed) \in Nat
  BY <1>1, FS_CardinalityType
<1> QED
  BY <1>3, <1>4, <1>5

\* An event is counted or does not happen.
LEMMA EventsNext ==
  ASSUME StatusTypes, (\E e \in Status!EventKinds : Status!Count(e)) \/ UNCHANGED events
  PROVE  events' \in [Status!EventKinds -> Nat]
  BY DEF StatusTypes, Status!Count

\* Without starts and errors, neither happens.
LEMMA SteadyEvents ==
  ASSUME StatusTypes, Status!Steady
  PROVE  ~Status!Count("starts") /\ ~Status!Count("errors")
<1>1. events["starts"] \in Nat /\ events["errors"] \in Nat
  BY DEF StatusTypes, Status!EventKinds
<1> QED
  BY <1>1 DEF Status!Steady, Status!Count

\* Steps of a pod that neither start, stop nor end it.
LEMMA StatusRest ==
  ASSUME StatusInv, UNCHANGED <<st, stop, setup>>,
         (\E e \in Status!EventKinds : Status!Count(e)) \/ UNCHANGED events
  PROVE  StatusInv'
<1>1. StatusTypes'
  BY EventsNext DEF StatusInv, StatusTypes
<1>2. AloneOK'
  BY DEF StatusInv, AloneOK, Status!Alive, Status!Steady, Status!Bounds
<1> QED
  BY <1>1, <1>2 DEF StatusInv

LEMMA StatusPods ==
  ASSUME StatusInv, UNCHANGED setup, NEW p \in Pods,
         Status!Start(p) \/ Status!Crash(p) \/ Status!Exit(p) \/ Status!Shutdown(p)
  PROVE  StatusInv'
<1>1. events' \in [Status!EventKinds -> Nat]
  BY EventsNext DEF StatusInv, Status!Start, Status!Crash, Status!Exit, Status!Shutdown,
     Status!EventKinds
<1>2. Status!Steady' <=> Status!Steady
  BY DEF Status!Steady, Status!Bounds
<1>3. CASE Status!Start(p)
  <2>1. ~Status!Steady
    BY <1>3, SteadyEvents DEF StatusInv, Status!Start
  <2> QED
    BY <1>1, <1>2, <1>3, <2>1 DEF Status!Start, StatusInv, StatusTypes, AloneOK, Status!local
<1>4. CASE Status!Crash(p)
  <2>1. st' = [st EXCEPT ![p] = "gone"] /\ stop' = [stop EXCEPT ![p] = "no"]
    BY <1>4 DEF Status!Crash, Status!Gone
  <2> QED
    BY <1>1, <1>2, <2>1 DEF StatusInv, StatusTypes, AloneOK, Status!Alive
<1>5. CASE Status!Exit(p)
  <2>1. st' = [st EXCEPT ![p] = "gone"] /\ UNCHANGED stop /\ stop[p] = "done"
    BY <1>5 DEF Status!Exit, Status!Gone
  <2> QED
    BY <1>1, <1>2, <2>1 DEF StatusInv, StatusTypes, AloneOK, Status!Alive
<1>6. CASE Status!Shutdown(p)
  <2>1. /\ st[p] = "up" /\ st' = [st EXCEPT ![p] = "stopping"]
        /\ stop' = [stop EXCEPT ![p] = IF UpdateStatusOnShutdown THEN "begin" ELSE "done"]
    BY <1>6 DEF Status!Shutdown
  <2> QED
    BY <1>1, <1>2, <2>1 DEF StatusInv, StatusTypes, AloneOK, Status!Alive
<1> QED
  BY <1>3, <1>4, <1>5, <1>6

LEMMA StatusShutdown ==
  ASSUME IsFiniteSet(Pods), StatusInv, UNCHANGED setup, NEW p \in Pods, Status!ShutdownStep(p)
  PROVE  StatusInv'
<1>1. events' \in [Status!EventKinds -> Nat]
  BY EventsNext DEF StatusInv, Status!ShutdownStep, Status!ShutdownAddresses, Status!NodesFail,
     Status!IsRunningMultiplePods, Status!EndShutdown, Status!ClearStatus, Status!EventKinds
<1>2. (Status!Steady' <=> Status!Steady) /\ UNCHANGED st
  BY DEF Status!Steady, Status!Bounds, Status!ShutdownStep, Status!ShutdownAddresses,
     Status!IsRunningMultiplePods, Status!EndShutdown, Status!ClearStatus, Status!cluster
<1>3. CASE Status!ShutdownAddresses(p)
  <2>1. /\ stop[p] = "begin"
        /\ \E place \in {"count", "done"} : stop' = [stop EXCEPT ![p] = place]
    BY <1>3 DEF Status!ShutdownAddresses
  <2> QED
    BY <1>1, <1>2, <2>1 DEF StatusInv, StatusTypes, AloneOK, Status!Alive
<1>4. CASE Status!IsRunningMultiplePods(p)
  <2>1. PICK multiple \in BOOLEAN :
          /\ IF multiple = (Cardinality(Status!Listed) > 1) THEN UNCHANGED events
             ELSE ~multiple /\ Status!Count("errors")
          /\ stop' = [stop EXCEPT ![p] = IF multiple THEN "done" ELSE "clear"]
    BY <1>4, SameCardinality DEF Status!IsRunningMultiplePods
  <2>0. stop[p] = "count"
    BY <1>4 DEF Status!IsRunningMultiplePods
  <2>2. StatusTypes'
    BY <1>1, <1>2, <2>1 DEF StatusInv, StatusTypes
  <2>3. p \in Status!Listed
    BY <2>0 DEF StatusInv, AloneOK, Status!Listed, Status!Alive
  <2>4. ASSUME Status!Steady, ~multiple, NEW q \in Pods \ {p} PROVE ~Status!Alive(q)
    <3>1. ~(Cardinality(Status!Listed) > 1)
      BY <2>1, <2>4, SteadyEvents DEF StatusInv
    <3>2. q \notin Status!Listed
      BY <2>3, <3>1, CountedAlone
    <3> QED
      BY <3>2 DEF Status!Listed
  <2>5. AloneOK'
    BY <1>2, <2>0, <2>1, <2>4 DEF StatusInv, StatusTypes, AloneOK, Status!Alive
  <2> QED
    BY <2>2, <2>5 DEF StatusInv
<1>5. CASE Status!EndShutdown(p)
  <2>1. stop' = [stop EXCEPT ![p] = "done"]
    BY <1>5 DEF Status!EndShutdown
  <2> QED
    BY <1>1, <1>2, <2>1 DEF StatusInv, StatusTypes, AloneOK, Status!Alive
<1>6. ASSUME NEW i \in Ings, Status!ClearStatus(p, i) PROVE StatusInv'
  <2>1. UNCHANGED stop
    BY <1>6 DEF Status!ClearStatus
  <2> QED
    BY <1>1, <1>2, <2>1 DEF StatusInv, StatusTypes, AloneOK, Status!Alive
<1> QED
  BY <1>3, <1>4, <1>5, <1>6 DEF Status!ShutdownStep

\* "if there is no other instances running": for any number of pods that stop, crash or
\* lose the lock, as long as no pod starts and the API server answers, nobody removes
\* addresses while another pod is up.
THEOREM RemovesOnlyAlone == Spec => []RemovedOnlyAlone
<1>0. Status!StatusAssumption /\ IsFiniteSet(Pods)
  BY ProcessAssumption
<1>1. Status!Init => StatusInv
  BY <1>0 DEF Status!Init, StatusInv, StatusTypes, AloneOK, Status!StatusAssumption, Status!Bounds
<1>2. StatusInv /\ [Status!Next]_<<Status!vars, setup>> => StatusInv'
  <2> SUFFICES ASSUME StatusInv, [Status!Next]_<<Status!vars, setup>> PROVE StatusInv'
    OBVIOUS
  <2>1. CASE UNCHANGED <<Status!vars, setup>>
    BY <2>1, StatusRest DEF Status!vars, Status!cluster, Status!local
  <2>2. CASE Status!Next
    <3>1. ASSUME NEW p \in Pods,
                 Status!Start(p) \/ Status!Crash(p) \/ Status!Exit(p) \/ Status!Shutdown(p)
          PROVE  StatusInv'
      BY <2>2, <3>1, StatusPods DEF Status!Next
    <3>2. ASSUME NEW p \in Pods, Status!ShutdownStep(p) PROVE StatusInv'
      BY <1>0, <2>2, <3>2, StatusShutdown DEF Status!Next
    <3>3. ASSUME Status!Expire \/ \E s \in Status!Services : Status!Change(s) PROVE StatusInv'
      BY <2>2, <3>3, StatusRest DEF Status!Next, Status!Expire, Status!Change, Status!local,
         Status!EventKinds
    <3>4. ASSUME NEW p \in Pods,
                 \/ Status!Probe(p) \/ Status!Inform(p) \/ Status!Acquire(p) \/ Status!Lose(p)
                 \/ Status!Poll(p) \/ Status!ShutDownQueue(p)
          PROVE  StatusInv'
      BY <2>2, <3>4, StatusRest DEF Status!Next, Status!Probe, Status!Inform, Status!Acquire,
         Status!Lose, Status!Poll, Status!ShutDownQueue, Status!local, Status!cluster,
         Status!EventKinds
    <3>5. ASSUME NEW p \in Pods, Status!SyncStep(p) PROVE StatusInv'
      BY <2>2, <3>5, StatusRest DEF Status!Next, Status!SyncStep, Status!Sync, Status!NodesFail, Status!SyncFails,
         Status!EndSync, Status!RunUpdate, Status!local, Status!cluster, Status!EventKinds
    <3> QED
      BY <2>2, <3>1, <3>2, <3>3, <3>4, <3>5 DEF Status!Next, Status!Step
  <2> QED
    BY <2>1, <2>2
<1>3. StatusInv => (Status!Steady => Status!RemovedOnlyAlone)
  BY DEF StatusInv, AloneOK, Status!RemovedOnlyAlone, Status!Alive
<1> DEFINE Inv == OfStatus => StatusInv
<1>4. Init => Inv
  BY <1>1, InitOfOne
<1>5. Inv /\ [Next]_vars => Inv'
  BY <1>2, StepOfOne DEF OfStatus
<1>6. Inv => RemovedOnlyAlone
  BY <1>3 DEF RemovedOnlyAlone
<1> QED
  BY <1>4, <1>5, <1>6, PTL DEF Spec
=============================================================================
