------------------------------ MODULE MCProcess ------------------------------
(* The setups of Process for TLC. *)
EXTENDS Process

-----------------------------------------------------------------------------
(* Life cycle: nothing fails; everything may fail.  Then a SIGTERM before the    *)
(* controller listens for it, a webhook server that does not close, and a master *)
(* that dies while nobody sends SIGKILL.                                         *)

MCLifeSetups ==
  [ graceful |-> [faults |-> {}, kills |-> FALSE],
    faults   |-> [faults |-> {"init", "early", "cache", "exec", "webhook", "master"}, kills |-> TRUE],
    early    |-> [faults |-> {"early"}, kills |-> FALSE],
    webhook  |-> [faults |-> {"webhook"}, kills |-> FALSE],
    orphans  |-> [faults |-> {"master"}, kills |-> FALSE] ]

-----------------------------------------------------------------------------
(* Leader election: callbacks end before the lock changes hands; at any time. *)

MCLeaderSetups == [ prompt |-> [prompt |-> TRUE], late |-> [prompt |-> FALSE] ]

-----------------------------------------------------------------------------
(* Status: a pod comes while another may stop; one error of the API server; a      *)
(* service that changes its type and goes away; two pods on one node that stop or  *)
(* crash; a lock that is lost; two revisions of the controller.  Then an error     *)
(* while both pods of a node stop, a pod that stops alone, and one that cannot     *)
(* read its node.                                                                  *)

Service(type, name, ip, ext, lb) ==
  [type |-> type, name |-> name, clusterIP |-> ip, externalIPs |-> ext, balancer |-> lb]

Cluster  == Service("ClusterIP", "", "c", {}, {})
AllServices ==
  {Missing, Cluster, Service("ExternalName", "host", "", {}, {}),
   Service("NodePort", "", "c", {}, {}), Service("NodePort", "", "c", {"e"}, {}),
   Service("LoadBalancer", "", "c", {"e"}, {"l"})}

Bounds == [starts |-> 0, stops |-> 2, changes |-> 0, losses |-> 0, crashes |-> 0, errors |-> 0]

OneNode  == <<"n1", "n1">>
TwoNodes == <<"n1", "n2">>

Running(nodes, initial, bounds) ==
  [publish |-> "pods", nodes |-> nodes, services |-> {Cluster}, initial |-> initial,
   revisions |-> <<1, 1>>, bounds |-> bounds]

MCStatusSetups ==
  [ comes     |-> Running(TwoNodes, {1}, [Bounds EXCEPT !.starts = 1, !.stops = 1]),
    error     |-> Running(TwoNodes, {1, 2}, [Bounds EXCEPT !.stops = 1, !.errors = 1]),
    service   |-> [publish |-> "service", nodes |-> OneNode, services |-> AllServices,
                   initial |-> {1}, revisions |-> <<1, 1>>,
                   bounds |-> [Bounds EXCEPT !.changes = 1, !.errors = 1]],
    scaledown |-> Running(OneNode, {1, 2}, [Bounds EXCEPT !.crashes = 1]),
    lost      |-> Running(TwoNodes, {1, 2}, [Bounds EXCEPT !.stops = 1, !.losses = 1]),
    rollout   |-> [Running(TwoNodes, {1, 2}, [Bounds EXCEPT !.stops = 1])
                     EXCEPT !.revisions = <<1, 2>>],
    shared    |-> Running(OneNode, {1, 2}, [Bounds EXCEPT !.errors = 1]),
    alone     |-> Running(OneNode, {1}, Bounds),
    unread    |-> Running(OneNode, {1}, [Bounds EXCEPT !.errors = 1]) ]

-----------------------------------------------------------------------------
(* The properties of the three modules, where they apply. *)

\* After exit code 0 NGINX has ended by itself (HandleSigterm, Stop).
CleanExit == OfLife => Life!CleanExit

\* The container does not end while NGINX can still serve a connection (Stop).
GracefulExit == setup \in {"graceful", "webhook"} => Life!GracefulExit

\* A pod that is to end does end without SIGKILL (Stop polls with no limit, nginx.go:405).
Terminates == setup \in {"graceful", "orphans"} => Life!Terminates

\* A dead master is noticed and the container ends (Check, nginx.go:338).
DeadMasterRestarts == OfLife => Life!DeadMasterRestarts

\* The post-shutdown grace period begins when NGINX has stopped (Stop).
DelayAfterNginx == OfLife => Life!DelayAfterNginx

\* A process that has stopped leading does not poll (OnStoppedLeading).
NoOrphanPoll == OfLeader => Leader!NoOrphanPoll

\* Losing the lock is not fatal: an open channel is closed (controller/status.go:72).
NoClosePanic == setup = "prompt" => Leader!NoClosePanic

\* With no callback under way the gauge tells whether the process leads (nginx.go:278).
GaugeIsRight == setup = "prompt" => Leader!GaugeIsRight

\* A process that keeps the lock ends up polling (OnStartedLeading, Run).
LeaderPolls == setup = "prompt" => Leader!LeaderPolls

\* NoClosePanic with callbacks that may be late.
NoClosePanicLate == setup = "late" => Leader!NoClosePanic

\* GaugeIsRight with callbacks that may be late.
GaugeIsRightLate == setup = "late" => Leader!GaugeIsRight

\* One worker serves the status queue (Run, status.go:90).
OneWorker == OfLeader => Leader!OneWorker

\* At rest, every ingress shows the addresses of the running controllers of the leader's
\* revision (sync, updateStatus).
StatusConverges == OfStatus => Status!StatusConverges

\* At rest, every ingress shows the addresses of all running controllers (status.go:171).
ShowsEverywhere == OfStatus => Status!ShowsEverywhere

\* When the last pod has ended, no ingress shows an address (Shutdown, status.go:135).
RemovedAtEnd == OfStatus => Status!RemovedAtEnd

\* RemovedOnlyAlone with errors of the API server.
RemovedDespiteErrors == setup = "shared" => Status!RemovedOnlyAlone

\* Every published entry has an address (runningAddresses).
OnlyAddresses == OfStatus => Status!OnlyAddresses

\* Only the holder of the lock writes what its sync found (status.go:74).
OnlyLeaderWrites == [][OfStatus => Status!WriterLeads]_statusVars

-----------------------------------------------------------------------------
(* What the run checks beside the invariants of Process. *)

\* A pod that is to end ends without SIGKILL, and one whose master died is ended
\* (Stop, wait-shutdown, Check).
ContainerEnds == Terminates /\ DeadMasterRestarts

\* A process that keeps the lock polls, and in the end every ingress shows the addresses
\* of the running controllers of the leader's revision (Run, sync, updateStatus).
StatusFollows == LeaderPolls /\ StatusConverges
=============================================================================
