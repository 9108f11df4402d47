----------------------------- MODULE Controller -----------------------------
(***************************************************************************)
(* The synchronisation loop of the NGINX controller: informer handlers and *)
(* file watchers report changes, the loop in Start turns them into queue   *)
(* requests, and syncIngress builds a model of the cluster, compares it    *)
(* with runningConfig and brings NGINX up to date by a reload, by POSTs to *)
(* the Lua endpoints, or both.                                             *)
(*                                                                         *)
(* The queue is the abstract one of SyncRequests, which TaskQueue          *)
(* implements.  A configuration is a function from Parts to Values; a part *)
(* stands for all fields of ingress.Configuration that syncIngress treats  *)
(* alike.                                                                  *)
(***************************************************************************)
EXTENDS SyncRequests

CONSTANTS
  Parts,        \* the parts of AllParts this instance looks at
  Values,       \* values a part can have
  InitialValue, \* the value of every part at the start (which one makes no difference)
  SyncWorker,   \* the goroutine of syncQueue.Run
  RingSize,     \* capacity of updateCh
  Retries,      \* DynamicConfigurationRetries
  MaxChanges,   \* bound: changes of the cluster
  MaxFailures   \* bound: steps of a sync that go wrong

\* How syncIngress treats a part:
\*   static       compared, needs a reload: "conf" (BackendConfigChecksum),
\*                "servers" (Servers without certificates), "ports" (the stream
\*                services without endpoints), "passthrough"
\*   dynamic      compared, applied by Lua: "backends", "endpoints" (of stream
\*                services), "certs"
\*   not compared although nginx.conf depends on it: "snippets" (StreamSnippets
\*                and the PathType of a location), "files" (the template and the
\*                geoip databases, watched as files)
Static     == Parts \cap {"conf", "servers", "ports", "passthrough"}
Dynamic    == Parts \cap {"backends", "endpoints", "certs"}
Uncompared == Parts \cap {"snippets", "files"}
Compared   == Static \cup Dynamic

\* Parts that OnUpdate reads again from the store and the file system, past pcfg.
ReadByOnUpdate == Parts \cap {"conf", "files"}

Empty  == "empty"    \* a part of new(ingress.Configuration), and of NGINX at boot
Unread == "unread"   \* a part getConfiguration has not looked at yet

ASSUME ControllerAssumption ==
  /\ Workers = {SyncWorker}
  /\ Parts \subseteq {"conf", "servers", "ports", "passthrough", "backends",
                      "endpoints", "certs", "snippets", "files"}
  /\ InitialValue \in Values
  /\ Empty \notin Values /\ Unread \notin Values
  /\ RingSize \in Nat \ {0}
  /\ Retries \in Nat
  /\ MaxChanges \in Nat
  /\ MaxFailures \in Nat

VARIABLES
  store,      \* the informers' caches and watched files, as configuration values
  pending,    \* changes of objects whose informer handler has not run yet
  watching,   \* changes of files whose watcher has not been called yet
  ring,       \* events in updateCh
  loop,       \* Start: "boot", "select", or "returned"
  stopping,   \* isShuttingDown
  pc,         \* place of syncIngress
  pcfg,       \* the configuration syncIngress assembled
  attempts,   \* attempts of configureDynamically left
  running,    \* runningConfig
  nginx,      \* the configuration NGINX and its Lua code work with
  changes, failures

syncVars == <<pc, pcfg, attempts>>
vars == <<reqVars, store, pending, watching, ring, loop, stopping, syncVars, running,
          nginx, changes, failures>>

PCs == {"idle", "begin", "read", "compare", "update", "backends", "streams", "certs"}

TypeOK ==
  /\ ReqTypeOK
  /\ store \in [Parts -> Values]
  /\ pending \in 0..MaxChanges
  /\ watching \in 0..MaxChanges
  /\ ring \in 0..RingSize
  /\ loop \in {"boot", "select", "returned"}
  /\ stopping \in BOOLEAN
  /\ pc \in PCs
  /\ pcfg \in [Parts -> Values \cup {Unread}]
  /\ attempts \in 0..(Retries + 1)
  /\ running \in [Parts -> Values \cup {Empty}]
  /\ nginx \in [Parts -> Values \cup {Empty}]
  /\ changes \in 0..MaxChanges
  /\ failures \in 0..MaxFailures

Init ==
  /\ ReqInit
  /\ store = [x \in Parts |-> InitialValue]
  /\ pending = 0
  /\ watching = 0
  /\ ring = 0
  /\ loop = "boot"
  /\ stopping = FALSE
  /\ pc = "idle"
  /\ pcfg = [x \in Parts |-> Unread]
  /\ attempts = 0
  /\ running = [x \in Parts |-> Empty]
  /\ nginx = [x \in Parts |-> Empty]
  /\ changes = 0
  /\ failures = 0

-----------------------------------------------------------------------------
(* Changes and how they reach the queue *)

\* An object of the cluster, or a watched file, changes; its handler runs later.
Change(x, v) ==
  /\ changes < MaxChanges
  /\ store[x] # v
  /\ store' = [store EXCEPT ![x] = v]
  /\ changes' = changes + 1
  /\ IF x = "files" THEN watching' = watching + 1 /\ UNCHANGED pending
                    ELSE pending' = pending + 1 /\ UNCHANGED watching
  /\ UNCHANGED <<reqVars, ring, loop, stopping, syncVars, running, nginx, failures>>

\* An informer's handler sends an Event to updateCh, which drops its oldest event
\* when it is full.
Notify ==
  /\ pending > 0
  /\ pending' = pending - 1
  /\ ring' = IF ring < RingSize THEN ring + 1 ELSE ring
  /\ UNCHANGED <<reqVars, store, watching, loop, stopping, syncVars, running, nginx,
                 changes, failures>>

\* A file watcher calls EnqueueTask itself; the queue refuses it when it is down.
NotifyFile ==
  /\ watching > 0
  /\ watching' = watching - 1
  /\ IF down THEN UNCHANGED reqVars ELSE Request
  /\ UNCHANGED <<store, pending, ring, loop, stopping, syncVars, running, nginx,
                 changes, failures>>

\* Start: force the initial sync, then enter the loop.
Boot ==
  /\ loop = "boot"
  /\ loop' = "select"
  /\ IF down THEN UNCHANGED reqVars ELSE Request
  /\ UNCHANGED <<store, pending, watching, ring, stopping, syncVars, running, nginx,
                 changes, failures>>

\* case event := <-n.updateCh.Out(): enqueue, unless the controller is stopping.
TakeEventWhenIdle ==
  /\ loop = "select"
  /\ ring > 0
  /\ ring' = ring - 1
  /\ IF stopping \/ down \/ pc # "idle" THEN UNCHANGED reqVars ELSE Request
  /\ UNCHANGED <<store, pending, watching, loop, stopping, syncVars, running, nginx,
                 changes, failures>>

TakeEvent ==
  /\ loop = "select"
  /\ ring > 0
  /\ ring' = ring - 1
  /\ IF stopping \/ down THEN UNCHANGED reqVars ELSE Request
  /\ UNCHANGED <<store, pending, watching, loop, stopping, syncVars, running, nginx,
                 changes, failures>>

-----------------------------------------------------------------------------
(* syncIngress *)

\* The worker calls syncIngress (the rate limiter only delays it).
BeginBatch ==
  /\ pc = "idle"
  /\ loop # "boot"
  /\ reqs > served + 1
  /\ Begin(SyncWorker)
  /\ pc' = "begin"
  /\ UNCHANGED <<store, pending, watching, ring, loop, stopping, pcfg, attempts,
                 running, nginx, changes, failures>>

BeginSync ==
  /\ pc = "idle"
  /\ loop # "boot"
  /\ Begin(SyncWorker)
  /\ pc' = "begin"
  /\ UNCHANGED <<store, pending, watching, ring, loop, stopping, pcfg, attempts,
                 running, nginx, changes, failures>>

\* syncIngress returns; its local variables are gone.
Leave ==
  /\ pc' = "idle"
  /\ pcfg' = [x \in Parts |-> Unread]
  /\ attempts' = 0

ReturnNil == Leave /\ Succeed(SyncWorker)
ReturnErr == Leave /\ Fail(SyncWorker)

\* if n.syncQueue.IsShuttingDown() { return nil }
CheckShuttingDown ==
  /\ pc = "begin"
  /\ IF down THEN ReturnNil
     ELSE pc' = "read" /\ UNCHANGED <<pcfg, attempts, reqVars>>
  /\ UNCHANGED <<store, pending, watching, ring, loop, stopping, running, nginx,
                 changes, failures>>

\* ListIngresses and getConfiguration look at one cache after the other.
ReadPart(x) ==
  /\ pc = "read"
  /\ pcfg[x] = Unread
  /\ pcfg' = [pcfg EXCEPT ![x] = store[x]]
  /\ pc' = IF \A y \in Parts \ {x} : pcfg[y] # Unread THEN "compare" ELSE "read"
  /\ UNCHANGED <<reqVars, store, pending, watching, ring, loop, stopping, attempts,
                 running, nginx, changes, failures>>

\* Configuration.Equal
Equal(c1, c2) == \A x \in Compared : c1[x] = c2[x]

\* IsDynamicConfigurationEnough: Equal with backends, endpoints and certificates
\* cleared on both sides.
EnoughDespitePassthrough == \A x \in Static \ {"passthrough"} : running[x] = pcfg[x]
IsDynamicConfigurationEnough == \A x \in Static : running[x] = pcfg[x]

\* The comparisons that decide what has to be done.
CompareOneAttemptMore ==
  /\ pc = "compare"
  /\ IF Equal(running, pcfg) THEN ReturnNil
     ELSE /\ pc' = IF IsDynamicConfigurationEnough THEN "backends" ELSE "update"
          /\ attempts' = Retries + 2
          /\ UNCHANGED <<pcfg, reqVars>>
  /\ UNCHANGED <<store, pending, watching, ring, loop, stopping, running, nginx,
                 changes, failures>>

CompareConfiguration ==
  /\ pc = "compare"
  /\ IF Equal(running, pcfg) THEN ReturnNil
     ELSE /\ pc' = IF IsDynamicConfigurationEnough THEN "backends" ELSE "update"
          /\ attempts' = Retries + 1
          /\ UNCHANGED <<pcfg, reqVars>>
  /\ UNCHANGED <<store, pending, watching, ring, loop, stopping, running, nginx,
                 changes, failures>>

\* OnUpdate succeeds: nginx.conf is rendered, tested, written and loaded.
OnUpdate ==
  /\ pc = "update"
  /\ nginx' = [x \in Parts |-> IF x \in Dynamic THEN nginx[x]
                               ELSE IF x \in ReadByOnUpdate THEN store[x] ELSE pcfg[x]]
  /\ pc' = "backends"
  /\ UNCHANGED <<reqVars, store, pending, watching, ring, loop, stopping, pcfg,
                 attempts, running, changes, failures>>

\* OnUpdate fails; generateTemplate has already replaced the server list of the
\* TLS passthrough proxy.
OnUpdateFails ==
  /\ pc = "update"
  /\ failures < MaxFailures
  /\ failures' = failures + 1
  /\ nginx' = [x \in Parts |-> IF x = "passthrough" THEN pcfg[x] ELSE nginx[x]]
  /\ ReturnErr
  /\ UNCHANGED <<store, pending, watching, ring, loop, stopping, running, changes>>

\* configureDynamically looks at what differs from runningConfig.
Differs(S) == \E x \in Parts \cap S : running[x] # pcfg[x]

\* NGINX with the parts of S taken from pcfg.
Applied(S) == [x \in Parts |-> IF x \in S THEN pcfg[x] ELSE nginx[x]]

\* The next attempt of the backoff loop, or its error.
AttemptFails ==
  /\ failures < MaxFailures
  /\ failures' = failures + 1
  /\ IF attempts > 1
     THEN pc' = "backends" /\ attempts' = attempts - 1 /\ UNCHANGED <<pcfg, reqVars>>
     ELSE ReturnErr

\* configureBackends; a failed POST may have been stored.
ConfigureBackends ==
  /\ pc = "backends"
  /\ \/ /\ nginx' = IF Differs({"backends"}) THEN Applied({"backends"}) ELSE nginx
        /\ pc' = "streams"
        /\ UNCHANGED <<pcfg, attempts, reqVars, failures>>
     \/ /\ Differs({"backends"})
        /\ nginx' \in {nginx, Applied({"backends"})}
        /\ AttemptFails
  /\ UNCHANGED <<store, pending, watching, ring, loop, stopping, running, changes>>

\* updateStreamConfiguration writes to a socket and waits for no answer: what was
\* written without error can still be lost.
UpdateStreamsRecords ==
  /\ pc = "streams"
  /\ nginx' = IF Differs({"ports", "endpoints"}) THEN Applied({"endpoints"}) ELSE nginx
  /\ running' = pcfg
  /\ pc' = "certs"
  /\ UNCHANGED <<pcfg, attempts, reqVars, failures>>
  /\ UNCHANGED <<store, pending, watching, ring, loop, stopping, changes>>

UpdateStreams ==
  /\ pc = "streams"
  /\ \/ /\ nginx' = IF Differs({"ports", "endpoints"}) THEN Applied({"endpoints"})
                     ELSE nginx
        /\ pc' = "certs"
        /\ UNCHANGED <<pcfg, attempts, reqVars, failures>>
     \/ /\ Differs({"ports", "endpoints"})
        /\ failures < MaxFailures
        /\ failures' = failures + 1
        /\ pc' = "certs"
        /\ UNCHANGED <<nginx, pcfg, attempts, reqVars>>
     \/ /\ Differs({"ports", "endpoints"})
        /\ nginx' \in {nginx, Applied({"endpoints"})}
        /\ AttemptFails
  /\ UNCHANGED <<store, pending, watching, ring, loop, stopping, running, changes>>

\* configureCertificates, then runningConfig = pcfg.
ConfigureCertificates ==
  /\ pc = "certs"
  /\ \/ /\ nginx' = IF Differs({"servers", "certs"}) THEN Applied({"certs"}) ELSE nginx
        /\ running' = pcfg
        /\ ReturnNil
        /\ UNCHANGED failures
     \/ /\ Differs({"servers", "certs"})
        /\ nginx' \in {nginx, Applied({"certs"})}
        /\ AttemptFails
        /\ UNCHANGED running
  /\ UNCHANGED <<store, pending, watching, ring, loop, stopping, changes>>

-----------------------------------------------------------------------------
(* Stop *)

\* Stop: isShuttingDown is set before the grace period ...
Stopping ==
  /\ ~stopping
  /\ stopping' = TRUE
  /\ UNCHANGED <<reqVars, store, pending, watching, ring, loop, syncVars, running,
                 nginx, changes, failures>>

\* ... after which the channel is closed and the queue shut down.
Stop ==
  /\ stopping
  /\ ShutDown
  /\ UNCHANGED <<store, pending, watching, ring, loop, stopping, syncVars, running,
                 nginx, changes, failures>>

\* case <-n.stopCh
LoopReturns ==
  /\ loop = "select"
  /\ down
  /\ loop' = "returned"
  /\ UNCHANGED <<reqVars, store, pending, watching, ring, stopping, syncVars, running,
                 nginx, changes, failures>>

\* case err := <-n.ngxErrCh: the loop ends when the NGINX master process died; the
\* queue goes on, but nobody takes events any more.
MasterExits ==
  /\ loop = "select"
  /\ loop' = "returned"
  /\ UNCHANGED <<reqVars, store, pending, watching, ring, stopping, syncVars, running,
                 nginx, changes, failures>>

-----------------------------------------------------------------------------
SyncStep ==
  \/ CheckShuttingDown
  \/ \E x \in Parts : ReadPart(x)
  \/ CompareConfiguration
  \/ OnUpdate \/ OnUpdateFails
  \/ ConfigureBackends \/ UpdateStreams \/ ConfigureCertificates

Next ==
  \/ \E x \in Parts, v \in Values : Change(x, v)
  \/ Notify \/ NotifyFile \/ Boot \/ TakeEvent
  \/ BeginSync \/ SyncStep
  \/ Stopping \/ Stop \/ LoopReturns \/ MasterExits

Safety == Init /\ [][Next]_vars

(***************************************************************************)
(* Handlers, the loop in Start and syncIngress keep running; the queue     *)
(* starts a sync while a request is not served (EveryRequestServed, which  *)
(* TaskQueue implements).                                                  *)
(***************************************************************************)
Fairness ==
  /\ WF_vars(Notify) /\ WF_vars(NotifyFile)
  /\ WF_vars(Boot)
  /\ WF_vars(TakeEvent)
  /\ WF_vars(reqs > served /\ BeginSync)
  /\ WF_vars(SyncStep)

Spec == Safety /\ Fairness

-----------------------------------------------------------------------------
(* Properties *)

\* The controller is not stopping and takes events.
Working == ~stopping /\ loop # "returned"

\* A change is on its way to a sync that will see it.
OnItsWay == loop = "boot" \/ pending > 0 \/ watching > 0 \/ ring > 0 \/ reqs > served

(***************************************************************************)
(* No change is lost between the informers, the bounded updateCh, the      *)
(* queue and a sync that reads the caches one after the other: unless the  *)
(* controller is stopping or the loop in Start has ended, runningConfig is *)
(* the cluster's configuration or a change is on its way.                  *)
(***************************************************************************)
NoLostUpdate == Working /\ ~OnItsWay => Equal(running, store)

\* Nothing is on its way and no sync is at work.
Quiet == Working /\ ~OnItsWay /\ pc = "idle"

(***************************************************************************)
(* "runningConfig contains the running configuration in the Backend"       *)
(* (nginx.go:234), in every compared part, whenever the loop has come to   *)
(* rest.                                                                   *)
(***************************************************************************)
RunningConfigIsBackend == Quiet => Equal(running, nginx)

(***************************************************************************)
(* The same comment as long as no step of a sync went wrong: whichever     *)
(* parts a sync reads before and after a change, NGINX at rest works with  *)
(* what syncIngress recorded (configureDynamically compares with           *)
(* runningConfig, never with NGINX).                                       *)
(***************************************************************************)
RunningConfigWithoutErrors == failures = 0 => RunningConfigIsBackend

(***************************************************************************)
(* "Change in Ingress annotations that impacts more than just upstream     *)
(* configuration" requires a reload (docs/how-it-works.md:43): once at     *)
(* rest, NGINX has the stream snippets and path types of the cluster.      *)
(***************************************************************************)
SnippetsReloaded ==
  Quiet /\ "snippets" \in Parts => nginx["snippets"] = store["snippets"]

(***************************************************************************)
(* "File changed detected. Reloading NGINX" (nginx.go:200): once at rest,  *)
(* NGINX has loaded the files as they are.                                 *)
(***************************************************************************)
FilesReloaded ==
  Quiet /\ "files" \in Parts => nginx["files"] = store["files"]

(***************************************************************************)
(* A part of runningConfig gets a new value only when NGINX works with     *)
(* that value: syncIngress assigns runningConfig last (nginx.go:234), and  *)
(* what a sync finds different it has reloaded or POSTed, after whatever   *)
(* errors of earlier syncs.  Not "conf", which OnUpdate reads again, nor   *)
(* "endpoints", which are written to a socket that nobody answers on.      *)
(***************************************************************************)
RecordedWhenApplied ==
  [][\A x \in Compared \ {"conf", "endpoints"} :
       running'[x] # running[x] => nginx'[x] = running'[x]]_vars

(***************************************************************************)
(* Every change reaches NGINX: with finitely many changes and errors, the  *)
(* controller ends up with runningConfig equal to the cluster's, or it is  *)
(* stopped, or NGINX died.                                                 *)
(***************************************************************************)
Converges == <>[](Working => Equal(running, store))
=============================================================================
