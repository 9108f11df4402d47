------------------------------ MODULE StatusSync ----------------------------
(***************************************************************************)
(* status.go in all controller pods of a cluster: the leader writes the    *)
(* addresses where the controller runs into the status of the ingresses,   *)
(* and a pod that shuts down removes them when it is the last one.         *)
(*                                                                         *)
(* What makes a process start and stop polling is in LeaderElection.       *)
(***************************************************************************)
EXTENDS Integers, FiniteSets

CONSTANTS
  Pods,          \* 1..n, the order in which the API server lists them
  Ings,          \* ingresses
  Addresses,     \* the addresses of --publish-status-address
  Missing,       \* no such service
  NoAddress,     \* an entry without address: its node could not be read
  UpdateStatusOnShutdown,
  MaxPending,    \* bound: elements in a status queue
  Setups         \* name -> what is configured and what happens

\* What happens no more often than Bounds says.
EventKinds == {"starts", "stops", "changes", "losses", "crashes", "errors"}

StatusAssumption ==
  \A s \in DOMAIN Setups : Setups[s].bounds \in [EventKinds -> Nat]

VARIABLE setup   \* the setup of this behaviour

NodeOf   == Setups[setup].nodes    \* pod -> address of its node
Revision == Setups[setup].revisions \* pod -> its pod-template-hash or controller-revision-hash
Publish  == Setups[setup].publish  \* "pods", "service" (--publish-service), "address"
Services == Setups[setup].services \* what the published service may be
Initial  == Setups[setup].initial  \* pods that run at first
Bounds   == Setups[setup].bounds   \* bounds of EventKinds

VARIABLES
  st,        \* process of a pod: "absent", "up", "stopping", "gone"
  ready,     \* pods whose Ready condition is true
  lease,     \* holder of the lock, 0 when it is free or expired
  leading,   \* pods that poll as leader
  svc,       \* the published service
  status,    \* ingress -> addresses in its status
  cache,     \* pod -> ingress -> status in its local store
  pending,   \* pod -> elements in its status queue
  shut,      \* pods whose status queue is shutting down
  job,       \* pod -> its sync: [todo, addrs]
  stop,      \* pod -> place in Shutdown: "no", "begin", "count", "clear", "done"
  clears,    \* pod -> ingresses that its Shutdown has still to clear
  events     \* the bounded events so far

cluster == <<st, ready, lease, svc, status>>
local == <<leading, cache, pending, shut, job, stop, clears>>
vars == <<cluster, local, events>>

NoJob == [todo |-> {}, addrs |-> {}]
Alive(p) == st[p] \in {"up", "stopping"}
Count(e) == events[e] < Bounds[e] /\ events' = [events EXCEPT ![e] = @ + 1]

-----------------------------------------------------------------------------
(* runningAddresses *)

\* statusAddressFromService
ServiceAddresses(s) ==
  CASE s.type = "ExternalName" -> {s.name}
    [] s.type = "ClusterIP" -> {s.clusterIP}
    [] s.type = "NodePort" -> IF s.externalIPs = {} THEN {s.clusterIP} ELSE s.externalIPs
    [] s.type = "LoadBalancer" -> s.balancer \cup s.externalIPs

\* Pods the API server lists by the labels that identify the controller, and those that
\* it lists by all labels of pod p: a label tells its revision.
Listed   == {p \in Pods : Alive(p)}
Alike(p) == {q \in Listed : Revision[q] = Revision[p]}

\* Those of them that are running and ready.
ReadyPods(p) == Alike(p) \cap ready

\* The addresses of the ready pods' nodes, when the nodes of bad cannot be read:
\* an empty name is added only to an empty list.
PodAddresses(p, bad) ==
  {NodeOf[q] : q \in ReadyPods(p) \ bad}
    \cup {NoAddress : q \in {r \in ReadyPods(p) \cap bad : \A o \in ReadyPods(p) : r <= o}}

RunningAddresses(p, bad) ==
  CASE Publish = "address" -> Addresses
    [] Publish = "service" -> ServiceAddresses(svc)
    [] Publish = "pods" -> PodAddresses(p, bad)

\* The nodes of bad cannot be read.
NodesFail(bad) == IF bad = {} THEN UNCHANGED events ELSE Publish = "pods" /\ Count("errors")

Init ==
  /\ setup \in DOMAIN Setups
  /\ st = [p \in Pods |-> IF p \in Initial THEN "up" ELSE "absent"]
  /\ ready = Initial
  /\ lease = 0 /\ leading = {}
  /\ svc \in Services
  /\ status = [i \in Ings |-> {}]
  /\ cache = [p \in Pods |-> [i \in Ings |-> {}]]
  /\ pending = [p \in Pods |-> 0] /\ shut = {}
  /\ job = [p \in Pods |-> NoJob]
  /\ stop = [p \in Pods |-> "no"] /\ clears = [p \in Pods |-> {}]
  /\ events = [e \in DOMAIN Bounds |-> 0]

-----------------------------------------------------------------------------
(* The cluster *)

Start(p) ==
  /\ st[p] = "absent" /\ Count("starts")
  /\ st' = [st EXCEPT ![p] = "up"]
  /\ cache' = [cache EXCEPT ![p] = status]
  /\ UNCHANGED <<ready, lease, svc, status, leading, pending, shut, job, stop, clears>>

\* The probes run Check; a process that is shutting down fails it.
Probe(p) ==
  /\ Alive(p)
  /\ p \in ready <=> st[p] = "stopping"
  /\ ready' = IF st[p] = "up" THEN ready \cup {p} ELSE ready \ {p}
  /\ UNCHANGED <<st, lease, svc, status, local, events>>

Change(s) ==
  /\ s # svc /\ Count("changes")
  /\ svc' = s
  /\ UNCHANGED <<st, ready, lease, status, local>>

Gone(p) ==
  /\ st' = [st EXCEPT ![p] = "gone"]
  /\ ready' = ready \ {p} /\ leading' = leading \ {p}
  /\ pending' = [pending EXCEPT ![p] = 0]
  /\ job' = [job EXCEPT ![p] = NoJob]
  /\ clears' = [clears EXCEPT ![p] = {}]
  /\ UNCHANGED <<lease, svc, status, cache, shut>>

Crash(p) ==
  /\ Alive(p) /\ Count("crashes")
  /\ stop' = [stop EXCEPT ![p] = "no"]
  /\ Gone(p)

\* Shutdown returned, and the rest of Stop.
Exit(p) ==
  /\ st[p] = "stopping" /\ stop[p] = "done"
  /\ Gone(p)
  /\ UNCHANGED <<stop, events>>

\* A lock that is not renewed expires.
Expire ==
  /\ lease # 0 /\ ~ Alive(lease)
  /\ lease' = 0
  /\ UNCHANGED <<st, ready, svc, status, local, events>>

\* The informer of a pod.
Inform(p) ==
  /\ Alive(p) /\ cache[p] # status
  /\ cache' = [cache EXCEPT ![p] = status]
  /\ UNCHANGED <<cluster, leading, pending, shut, job, stop, clears, events>>

-----------------------------------------------------------------------------
(* Run *)

\* EnqueueTask: a queue that is shutting down takes nothing.
Enqueued(p) == IF p \in shut \/ pending[p] = MaxPending THEN pending
               ELSE [pending EXCEPT ![p] = @ + 1]

\* The lock is acquired: Run triggers the initial sync.
Acquire(p) ==
  /\ Alive(p) /\ lease = 0
  /\ lease' = p /\ leading' = leading \cup {p}
  /\ pending' = Enqueued(p)
  /\ UNCHANGED <<st, ready, svc, status, cache, shut, job, stop, clears, events>>

\* The lock cannot be renewed; the poll stops, the worker of the queue does not.
Lose(p) ==
  /\ lease = p /\ p \in leading /\ Count("losses")
  /\ lease' = 0 /\ leading' = leading \ {p}
  /\ UNCHANGED <<st, ready, svc, status, cache, pending, shut, job, stop, clears>>

PollOnce(p) ==
  /\ p \in leading /\ FALSE
  /\ UNCHANGED vars

\* wait.PollUntil, every UpdateInterval
Poll(p) ==
  /\ p \in leading /\ Enqueued(p) # pending
  /\ pending' = Enqueued(p)
  /\ UNCHANGED <<cluster, leading, cache, shut, job, stop, clears, events>>

-----------------------------------------------------------------------------
(* sync and updateStatus *)

\* The ingresses that updateStatus has to change, by the local store.
ToUpdate(p, addrs) == {i \in Ings : cache[p][i] # addrs}

Sync(p) ==
  /\ Alive(p) /\ pending[p] > 0 /\ job[p] = NoJob
  /\ pending' = [pending EXCEPT ![p] = @ - 1]
  /\ IF p \in shut THEN UNCHANGED <<job, events>>
     ELSE /\ Publish = "service" => svc # Missing
          /\ \E bad \in SUBSET ReadyPods(p) :
               /\ NodesFail(bad)
               /\ job' = [job EXCEPT ![p] = [todo |-> ToUpdate(p, RunningAddresses(p, bad)),
                                            addrs |-> RunningAddresses(p, bad)]]
  /\ UNCHANGED <<cluster, leading, cache, shut, stop, clears>>

\* runningAddresses fails: the element goes back to the queue.
SyncFails(p) ==
  /\ Alive(p) /\ pending[p] > 0 /\ job[p] = NoJob
  /\ p \notin shut
  /\ IF Publish = "service" /\ svc = Missing THEN UNCHANGED events
     ELSE Publish # "address" /\ Count("errors")
  /\ UNCHANGED <<cluster, local>>

\* runUpdate: UpdateStatus of the ingress it has just read either succeeds as if at
\* once or fails (a conflict among other errors); the error is only logged.
RunUpdate(p, i) ==
  /\ Alive(p) /\ i \in job[p].todo
  /\ \/ status' = [status EXCEPT ![i] = job[p].addrs] /\ UNCHANGED events
     \/ UNCHANGED status /\ Count("errors")
  /\ job' = [job EXCEPT ![p] = IF @.todo = {i} THEN NoJob
                               ELSE [@ EXCEPT !.todo = job[p].todo \ {i}]]
  /\ UNCHANGED <<st, ready, lease, svc, leading, cache, pending, shut, stop, clears>>

\* Nothing to do: the batch is empty.
EndSync(p) ==
  /\ job[p] # NoJob /\ job[p].todo = {}
  /\ job' = [job EXCEPT ![p] = NoJob]
  /\ UNCHANGED <<cluster, leading, cache, pending, shut, stop, clears, events>>

-----------------------------------------------------------------------------
(* Shutdown *)

\* Stop calls Shutdown, which starts the shutdown of the queue in a goroutine.
Shutdown(p) ==
  /\ st[p] = "up" /\ Count("stops")
  /\ st' = [st EXCEPT ![p] = "stopping"]
  /\ stop' = [stop EXCEPT ![p] = IF UpdateStatusOnShutdown THEN "begin" ELSE "done"]
  /\ UNCHANGED <<ready, lease, svc, status, leading, cache, pending, shut, job, clears>>

ShutDownQueue(p) ==
  /\ st[p] = "stopping" /\ p \notin shut
  /\ shut' = shut \cup {p}
  /\ UNCHANGED <<cluster, leading, cache, pending, job, stop, clears, events>>

\* runningAddresses: with an error, or more than one address, nothing is removed.
ShutdownAddresses(p) ==
  /\ stop[p] = "begin"
  /\ \/ /\ Publish = "service" => svc # Missing
        /\ \E bad \in SUBSET ReadyPods(p) :
             /\ NodesFail(bad)
             /\ stop' = [stop EXCEPT ![p] =
                          IF Cardinality(RunningAddresses(p, bad)) > 1 THEN "done" ELSE "count"]
     \/ /\ IF Publish = "service" /\ svc = Missing THEN UNCHANGED events
           ELSE Publish # "address" /\ Count("errors")
        /\ stop' = [stop EXCEPT ![p] = "done"]
  /\ UNCHANGED <<cluster, leading, cache, pending, shut, job, clears>>

\* isRunningMultiplePods counts every pod of the list, and is false on an error.
CountNobody(p) ==
  /\ stop[p] = "count"
  /\ stop' = [stop EXCEPT ![p] = "clear"]
  /\ clears' = [clears EXCEPT ![p] = ToUpdate(p, {})]
  /\ UNCHANGED <<cluster, leading, cache, pending, shut, job, events>>

IsRunningMultiplePods(p) ==
  /\ stop[p] = "count"
  /\ \E multiple \in BOOLEAN :
       /\ IF multiple = (Cardinality(Listed) > 1) THEN UNCHANGED events
          ELSE ~ multiple /\ Count("errors")
       /\ stop' = [stop EXCEPT ![p] = IF multiple THEN "done" ELSE "clear"]
       /\ clears' = [clears EXCEPT ![p] = IF multiple THEN {} ELSE ToUpdate(p, {})]
  /\ UNCHANGED <<cluster, leading, cache, pending, shut, job>>

\* updateStatus([]LoadBalancerIngress{})
ClearStatus(p, i) ==
  /\ stop[p] = "clear" /\ i \in clears[p]
  /\ \/ status' = [status EXCEPT ![i] = {}] /\ UNCHANGED events
     \/ UNCHANGED status /\ Count("errors")
  /\ clears' = [clears EXCEPT ![p] = @ \ {i}]
  /\ UNCHANGED <<st, ready, lease, svc, leading, cache, pending, shut, job, stop>>

EndShutdown(p) ==
  /\ stop[p] = "clear" /\ clears[p] = {}
  /\ stop' = [stop EXCEPT ![p] = "done"]
  /\ UNCHANGED <<cluster, leading, cache, pending, shut, job, clears, events>>

-----------------------------------------------------------------------------
SyncStep(p) == Sync(p) \/ SyncFails(p) \/ EndSync(p) \/ \E i \in Ings : RunUpdate(p, i)

ShutdownStep(p) ==
  \/ ShutdownAddresses(p) \/ IsRunningMultiplePods(p) \/ EndShutdown(p)
  \/ \E i \in Ings : ClearStatus(p, i)

Step ==
  \/ Expire
  \/ \E s \in Services : Change(s)
  \/ \E p \in Pods :
       \/ Start(p) \/ Probe(p) \/ Crash(p) \/ Exit(p) \/ Inform(p)
       \/ Acquire(p) \/ Lose(p) \/ Poll(p)
       \/ SyncStep(p)
       \/ Shutdown(p) \/ ShutDownQueue(p) \/ ShutdownStep(p)

Next == Step /\ UNCHANGED setup

(***************************************************************************)
(* The elector campaigns and the lock of a dead process expires, probes    *)
(* and informers run, the poll fires every UpdateInterval and the worker   *)
(* of the queue works, and a shutdown that has begun goes on.  Nothing     *)
(* makes a pod start, stop, crash or lose the lock.                        *)
(***************************************************************************)
Fairness ==
  /\ WF_vars(Expire)
  /\ \A p \in Pods :
       /\ WF_vars(Probe(p)) /\ WF_vars(Inform(p)) /\ WF_vars(Acquire(p)) /\ WF_vars(Poll(p))
       /\ WF_vars(SyncStep(p)) /\ WF_vars(ShutDownQueue(p)) /\ WF_vars(ShutdownStep(p))
       /\ WF_vars(Exit(p))

Spec == Init /\ [][Next]_<<vars, setup>> /\ Fairness

-----------------------------------------------------------------------------
(* Properties *)

TypeOK ==
  /\ st \in [Pods -> {"absent", "up", "stopping", "gone"}]
  /\ ready \subseteq Listed /\ leading \subseteq Listed
  /\ lease \in Pods \cup {0}
  /\ leading \subseteq {lease}
  /\ svc \in Services
  /\ \A i \in Ings : status[i] = {} \/ status[i] \subseteq Addresses \cup {NoAddress}
       \cup {NodeOf[p] : p \in Pods} \cup UNION {ServiceAddresses(s) : s \in Services \ {Missing}}
  /\ \A p \in Pods :
       /\ pending[p] \in 0..MaxPending
       /\ job[p].todo \cup clears[p] \subseteq Ings
       /\ stop[p] # "no" => st[p] \in {"stopping", "gone"}
  /\ shut \subseteq {p \in Pods : st[p] \in {"stopping", "gone"}}
  /\ \A e \in DOMAIN Bounds : events[e] <= Bounds[e]

\* Where the controllers are running, all revisions of them.
Everywhere == IF Publish = "pods" THEN {NodeOf[q] : q \in Listed \cap ready}
              ELSE RunningAddresses(CHOOSE p \in Pods : TRUE, {})

(***************************************************************************)
(* When pods, locks, services and errors come to rest with a pod running,  *)
(* every ingress shows for good the addresses of the running controllers   *)
(* of the leader's revision (Run polls, sync writes): a lost update, a     *)
(* stale local store, a pod that shut down and a leader that changed are   *)
(* made up for.                                                            *)
(***************************************************************************)
StatusConverges ==
  <>[]((\E p \in Pods : st[p] = "up") /\ svc # Missing
         => lease \in Pods /\ \A i \in Ings : status[i] = RunningAddresses(lease, {}))

(***************************************************************************)
(* "returns a list of IP addresses and/or FQDN where the ingress           *)
(* controller is currently running" (status.go:171): the addresses of all  *)
(* running controllers.                                                    *)
(***************************************************************************)
ShowsEverywhere ==
  <>[]((\E p \in Pods : st[p] = "up") /\ svc # Missing
         => \A i \in Ings : status[i] = Everywhere)

\* No pod starts, and the API server answers.
Steady == Bounds["starts"] = 0 /\ Bounds["errors"] = 0

(***************************************************************************)
(* "it will remove the current IP if there is no other instances running"  *)
(* (status.go:103-104): no other pod runs while a Shutdown removes the     *)
(* addresses.                                                              *)
(***************************************************************************)
RemovedOnlyAlone ==
  \A p \in Pods : stop[p] = "clear" /\ clears[p] # {}
    => \A q \in Pods \ {p} : st[q] # "up"

(***************************************************************************)
(* The same comment for the last pod: when it has ended its Shutdown and   *)
(* is gone, no ingress shows an address.                                   *)
(***************************************************************************)
RemovedAtEnd ==
  (\A p \in Initial : st[p] = "gone" /\ stop[p] = "done") => \A i \in Ings : status[i] = {}

WriterLeads ==
  \A p \in Pods, i \in Ings :
    i \in job[p].todo \ job'[p].todo /\ status'[i] # status[i] => lease = p

(***************************************************************************)
(* "leader election is used so the update is executed only in one node"    *)
(* (status.go:74-75): only the holder of the lock writes what its sync     *)
(* found.                                                                  *)
(***************************************************************************)
OnlyLeaderWrites == [][WriterLeads]_vars

(***************************************************************************)
(* "returns a list of IP addresses and/or FQDN where the ingress           *)
(* controller is currently running" (status.go:171): every published entry *)
(* has an address.                                                         *)
(***************************************************************************)
OnlyAddresses == \A i \in Ings : NoAddress \notin status[i]
=============================================================================
