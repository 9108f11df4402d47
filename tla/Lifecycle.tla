------------------------------ MODULE Lifecycle ------------------------------
(***************************************************************************)
(* The life of one controller container: main and its goroutine Start,     *)
(* HandleSigterm and Stop, the NGINX master and worker processes, and the  *)
(* kubelet with its liveness probe, its preStop hook (the command          *)
(* wait-shutdown) and its last SIGKILL.                                    *)
(*                                                                         *)
(* Events and the work of the queue are in Controller; here the queue only *)
(* matters for its first synchronisation, which the probe waits for.       *)
(***************************************************************************)
EXTENDS Integers

CONSTANTS
  Attempts,    \* Steps of defaultRetry (10 in the code)
  Threshold,   \* failureThreshold of the liveness probe
  Setups       \* name -> what may go wrong

VARIABLE setup \* the setup of this behaviour

\* Of {"init", "early", "cache", "exec", "webhook", "master"}: what may go wrong
Faults == Setups[setup].faults
\* The kubelet sends SIGKILL after terminationGracePeriodSeconds.
Kills  == Setups[setup].kills

VARIABLES
  main,         \* where main, and HandleSigterm and Stop called by it, are
  retries,      \* retries of createApiserverClient
  code,         \* exitCode
  start,        \* where the goroutine Start is
  shuttingDown, \* isShuttingDown
  stopped,      \* stopCh is closed
  signal,       \* signalChan holds a SIGTERM
  ngxErrCh,     \* what the goroutine of start(cmd) sends: "none", "nil" or "died"
  master,       \* the NGINX master process
  workers,      \* the NGINX workers
  synced,       \* the first configuration has reached Lua
  fails,        \* consecutive failures of the liveness probe
  hook          \* the end of the pod: "idle", "signal", "waiting", "done", "sent"

vars == <<main, retries, code, start, shuttingDown, stopped, signal, ngxErrCh,
          master, workers, synced, fails, hook>>

controller == <<main, retries, code>>
nginxVars == <<master, workers>>
kubelet == <<fails, hook>>

TypeOK ==
  /\ main \in {"flags", "client", "services", "checks", "spawn", "notify", "wait",
               "grace", "closing", "status", "webhook", "quit", "poll", "delay", "exited"}
  /\ retries \in 0..Attempts
  /\ code \in {0, 1, 137, 143, 255}
  /\ start \in {"none", "store", "election", "launch", "enqueue", "loop", "returned"}
  /\ shuttingDown \in BOOLEAN /\ stopped \in BOOLEAN /\ signal \in BOOLEAN
  /\ ngxErrCh \in {"none", "nil", "died"}
  /\ master \in {"none", "up", "told", "quitting", "dead", "ended", "reaped"}
  /\ workers \in {"none", "up", "quitting", "gone"}
  /\ synced \in BOOLEAN
  /\ fails \in 0..Threshold
  /\ hook \in {"idle", "signal", "waiting", "done", "sent"}

Init ==
  /\ setup \in DOMAIN Setups
  /\ main = "flags" /\ retries = 0 /\ code = 0
  /\ start = "none" /\ shuttingDown = FALSE /\ stopped = FALSE
  /\ signal = FALSE /\ ngxErrCh = "none"
  /\ master = "none" /\ workers = "none" /\ synced = FALSE
  /\ fails = 0 /\ hook = "idle"

\* The container ends with main; the kernel kills what is left in it.
Alive == main # "exited"

\* nginx.IsRunning: a process named nginx, zombies included
IsRunning ==
  \/ master \in {"up", "told", "quitting", "dead", "ended"}
  \/ workers \in {"up", "quitting"}

\* NGINXController.Check.  The PID file stays when the master is killed, and
\* /proc has its process until start's goroutine has reaped it; orphaned
\* workers still answer the request.
Check ==
  /\ ~shuttingDown
  /\ master \notin {"none", "reaped"}
  /\ workers = "up" /\ synced

-----------------------------------------------------------------------------
(* main *)

Exit(c) == main' = "exited" /\ code' = c

\* klog.Fatal
Fatal(at) ==
  /\ "init" \in Faults
  /\ main = at /\ Exit(255)
  /\ UNCHANGED <<retries, start, shuttingDown, stopped, signal, ngxErrCh,
                 nginxVars, synced, kubelet>>

Goto(from, to) == main = from /\ main' = to

\* ParseFlags, CreateRequiredDirectories
ParseFlags ==
  /\ Goto("flags", "client")
  /\ UNCHANGED <<retries, code, start, shuttingDown, stopped, signal, ngxErrCh,
                 nginxVars, synced, kubelet>>

\* One attempt of the exponential backoff around ServerVersion.
createApiserverClient ==
  /\ main = "client"
  /\ \/ main' = "services" /\ UNCHANGED <<retries, code>>
     \/ /\ "init" \in Faults
        /\ retries' = retries + 1
        /\ IF retries' = Attempts THEN Exit(255) ELSE UNCHANGED <<main, code>>
  /\ UNCHANGED <<start, shuttingDown, stopped, signal, ngxErrCh, nginxVars, synced, kubelet>>

\* The default backend and publish services exist.
checkService ==
  /\ Goto("services", "checks")
  /\ UNCHANGED <<retries, code, start, shuttingDown, stopped, signal, ngxErrCh,
                 nginxVars, synced, kubelet>>

\* The namespace, the version of the cluster, the ingress classes, the own pod,
\* the collectors, NewNGINXController
InitChecks ==
  /\ Goto("checks", "spawn")
  /\ UNCHANGED <<retries, code, start, shuttingDown, stopped, signal, ngxErrCh,
                 nginxVars, synced, kubelet>>

\* go ngx.Start()
Spawn ==
  /\ Goto("spawn", "notify")
  /\ start' = "store"
  /\ UNCHANGED <<retries, code, shuttingDown, stopped, signal, ngxErrCh,
                 nginxVars, synced, kubelet>>

-----------------------------------------------------------------------------
(* HandleSigterm and Stop *)

Notify ==
  /\ Goto("notify", "wait")
  /\ UNCHANGED <<retries, code, start, shuttingDown, stopped, signal, ngxErrCh,
                 nginxVars, synced, kubelet>>

\* <-signalChan, and Stop's isShuttingDown = true.  Its only caller calls it
\* once: the queue is not shutting down yet.
ReceiveSigterm ==
  /\ signal /\ Goto("wait", "grace")
  /\ signal' = FALSE
  /\ shuttingDown' = TRUE
  /\ UNCHANGED <<retries, code, start, stopped, ngxErrCh, nginxVars, synced, kubelet>>

\* time.Sleep(ShutdownGracePeriod)
GracePeriod ==
  /\ Goto("grace", "closing")
  /\ UNCHANGED <<retries, code, start, shuttingDown, stopped, signal, ngxErrCh,
                 nginxVars, synced, kubelet>>

\* close(n.stopCh); go n.syncQueue.Shutdown()
CloseStopCh ==
  /\ Goto("closing", "status")
  /\ stopped' = TRUE
  /\ UNCHANGED <<retries, code, start, shuttingDown, signal, ngxErrCh,
                 nginxVars, synced, kubelet>>

\* n.syncStatus.Shutdown()
ShutdownStatus ==
  /\ Goto("status", "webhook")
  /\ UNCHANGED <<retries, code, start, shuttingDown, stopped, signal, ngxErrCh,
                 nginxVars, synced, kubelet>>

\* Stop returns an error: HandleSigterm logs it and goes on to its delay.
StopError == main' = "delay" /\ code' = 1

\* validationWebhookServer.Close()
CloseWebhook ==
  /\ main = "webhook"
  /\ \/ main' = "quit" /\ UNCHANGED code
     \/ "webhook" \in Faults /\ StopError
  /\ UNCHANGED <<retries, start, shuttingDown, stopped, signal, ngxErrCh,
                 nginxVars, synced, kubelet>>

\* nginx -s quit sends a signal to the process of the PID file and fails if
\* there is none; a zombie can be sent a signal too.
QuitNginx ==
  /\ main = "quit"
  /\ master' = IF master = "up" THEN "told" ELSE master
  /\ IF master \in {"none", "reaped"} THEN StopError ELSE main' = "poll" /\ UNCHANGED code
  /\ UNCHANGED <<retries, start, shuttingDown, stopped, signal, ngxErrCh,
                 workers, synced, kubelet>>

\* As if Stop gave up at some time and returned an error.
AwaitLimited ==
  /\ Goto("poll", "delay")
  /\ code' = IF IsRunning THEN 1 ELSE code
  /\ UNCHANGED <<retries, start, shuttingDown, stopped, signal, ngxErrCh,
                 nginxVars, synced, kubelet>>

\* The ticker of Stop finds no process.
AwaitNginx ==
  /\ Goto("poll", "delay")
  /\ ~IsRunning
  /\ UNCHANGED <<retries, code, start, shuttingDown, stopped, signal, ngxErrCh,
                 nginxVars, synced, kubelet>>

\* time.Sleep(PostShutdownGracePeriod); exit(exitCode)
DelayAndExit ==
  /\ Goto("delay", "exited")
  /\ UNCHANGED <<retries, code, start, shuttingDown, stopped, signal, ngxErrCh,
                 nginxVars, synced, kubelet>>

Main ==
  \/ ParseFlags \/ createApiserverClient \/ checkService \/ InitChecks
  \/ Spawn \/ Notify \/ ReceiveSigterm \/ GracePeriod \/ CloseStopCh \/ ShutdownStatus
  \/ CloseWebhook \/ QuitNginx \/ AwaitNginx \/ DelayAndExit

-----------------------------------------------------------------------------
(* Start *)

StartStep(from, to) == Alive /\ start = from /\ start' = to

\* n.store.Run: waits for the caches or for stopCh, and goes on in both cases.
RunInformers ==
  /\ StartStep("store", "election")
  /\ UNCHANGED <<controller, shuttingDown, stopped, signal, ngxErrCh, nginxVars, synced, kubelet>>

\* setupLeaderElection, setupSSLProxy: goroutines of their own
SetupGoroutines ==
  /\ StartStep("election", "launch")
  /\ UNCHANGED <<controller, shuttingDown, stopped, signal, ngxErrCh, nginxVars, synced, kubelet>>

\* n.start(cmd): klog.Fatalf if NGINX cannot be executed
StartNginx ==
  /\ StartStep("launch", "enqueue")
  /\ \/ master' = "up" /\ workers' = "up" /\ UNCHANGED <<main, code>>
     \/ "exec" \in Faults /\ Exit(255) /\ UNCHANGED nginxVars
  /\ UNCHANGED <<retries, shuttingDown, stopped, signal, ngxErrCh, synced, kubelet>>

\* go syncQueue.Run, the initial-sync task, the cleaner, the webhook server
Enqueue ==
  /\ StartStep("enqueue", "loop")
  /\ UNCHANGED <<controller, shuttingDown, stopped, signal, ngxErrCh, nginxVars, synced, kubelet>>

\* Only an error of the process itself, never the nil of a normal end
IsRespawnIfRequired(err) == err = "died"

\* case err := <-n.ngxErrCh
ReceiveNgxErr ==
  /\ Alive /\ start = "loop" /\ ngxErrCh # "none"
  /\ start' = IF shuttingDown \/ IsRespawnIfRequired(ngxErrCh) THEN "returned" ELSE "loop"
  /\ ngxErrCh' = "none"
  /\ UNCHANGED <<controller, shuttingDown, stopped, signal, nginxVars, synced, kubelet>>

\* case <-n.stopCh
ReceiveStop ==
  /\ stopped /\ StartStep("loop", "returned")
  /\ UNCHANGED <<controller, shuttingDown, stopped, signal, ngxErrCh, nginxVars, synced, kubelet>>

\* The queue's first synchronisation: a reload and the POST of the backends.
FirstSync ==
  /\ Alive /\ start \in {"loop", "returned"} /\ ~stopped /\ ~synced
  /\ master = "up"
  /\ synced' = TRUE
  /\ UNCHANGED <<controller, start, shuttingDown, stopped, signal, ngxErrCh, nginxVars, kubelet>>

Start ==
  \/ RunInformers \/ SetupGoroutines \/ StartNginx \/ Enqueue
  \/ ReceiveNgxErr \/ ReceiveStop \/ FirstSync

-----------------------------------------------------------------------------
(* NGINX *)

NginxStep ==
  Alive /\ UNCHANGED <<controller, start, shuttingDown, stopped, signal, synced, kubelet>>

\* The master closes the listening sockets and tells its workers to quit.
MasterQuits ==
  /\ NginxStep
  /\ master = "told" /\ master' = "quitting" /\ workers' = "quitting"
  /\ UNCHANGED ngxErrCh

\* The last connection ends, or worker_shutdown_timeout closes it.
WorkersEnd ==
  /\ NginxStep
  /\ workers = "quitting" /\ workers' = "gone"
  /\ UNCHANGED <<master, ngxErrCh>>

MasterEnds ==
  /\ NginxStep
  /\ master = "quitting" /\ workers = "gone" /\ master' = "ended"
  /\ UNCHANGED <<workers, ngxErrCh>>

\* Killed (by the OOM killer, say); workers go on, whatever they were told.
MasterDies ==
  /\ NginxStep
  /\ "master" \in Faults
  /\ master \in {"up", "told", "quitting"} /\ master' = "dead"
  /\ UNCHANGED <<workers, ngxErrCh>>

\* As if nobody waited for the process.
NeverReap ==
  /\ FALSE
  /\ UNCHANGED vars

\* n.ngxErrCh <- cmd.Wait() in the goroutine of start
Reap ==
  /\ NginxStep
  /\ master \in {"dead", "ended"} /\ master' = "reaped"
  /\ ngxErrCh' = IF master = "dead" THEN "died" ELSE "nil"
  /\ UNCHANGED workers

Nginx == MasterQuits \/ WorkersEnd \/ MasterEnds \/ Reap

-----------------------------------------------------------------------------
(* The kubelet *)

\* The probe has an initial delay; a slow start may outlast it.
Started == "early" \in Faults \/ (start \in {"loop", "returned"} /\ main # "notify")

\* SIGTERM: signal.Notify sends to the channel unless it is full.  Before
\* Notify its default action ends the process.
Sigterm ==
  IF main \in {"flags", "client", "services", "checks", "spawn", "notify"}
  THEN Exit(143) /\ UNCHANGED signal
  ELSE signal' = TRUE /\ UNCHANGED <<main, code>>

\* A probe of /healthz.  After Threshold failures in a row the container is
\* ended, its hook first.
Probe ==
  /\ Alive /\ hook = "idle" /\ Started
  /\ fails' = IF Check THEN 0 ELSE fails + 1
  /\ hook' = IF fails' = Threshold THEN "signal" ELSE "idle"
  /\ UNCHANGED <<controller, start, shuttingDown, stopped, signal, ngxErrCh, nginxVars, synced>>

\* Somebody deletes the pod.
DeletePod ==
  /\ Alive /\ hook = "idle" /\ Started
  /\ hook' = "signal"
  /\ UNCHANGED <<controller, start, shuttingDown, stopped, signal, ngxErrCh,
                 nginxVars, synced, fails>>

\* wait-shutdown: pkill -SIGTERM -f nginx-ingress-controller
WaitShutdown ==
  /\ Alive /\ hook = "signal"
  /\ Sigterm
  /\ hook' = "waiting"
  /\ UNCHANGED <<retries, start, shuttingDown, stopped, ngxErrCh, nginxVars, synced, fails>>

\* and then its ticker, until there is no NGINX
WaitShutdownEnds ==
  /\ Alive /\ hook = "waiting" /\ ~IsRunning
  /\ hook' = "done"
  /\ UNCHANGED <<controller, start, shuttingDown, stopped, signal, ngxErrCh,
                 nginxVars, synced, fails>>

\* The kubelet's own SIGTERM, after the hook: a second one for the controller
KubeletSigterm ==
  /\ Alive /\ hook = "done"
  /\ Sigterm
  /\ hook' = "sent"
  /\ UNCHANGED <<retries, start, shuttingDown, stopped, ngxErrCh, nginxVars, synced, fails>>

\* terminationGracePeriodSeconds are over.
Sigkill ==
  /\ Alive /\ Kills /\ hook \notin {"idle", "signal"}
  /\ Exit(137)
  /\ UNCHANGED <<retries, start, shuttingDown, stopped, signal, ngxErrCh,
                 nginxVars, synced, kubelet>>

Kubelet == WaitShutdown \/ WaitShutdownEnds \/ KubeletSigterm

-----------------------------------------------------------------------------
Step ==
  \/ Main \/ Start \/ Nginx \/ Kubelet
  \/ \E at \in {"flags", "services", "checks"} : Fatal(at)
  \/ MasterDies \/ Probe \/ DeletePod \/ Sigkill

Next == Step /\ UNCHANGED setup

(***************************************************************************)
(* Every goroutine and process that can go on does: WorkersEnd because     *)
(* worker-shutdown-timeout bounds it.  The probe is periodic and the       *)
(* kubelet ends what it has decided to end.  Nothing need ever fail, and   *)
(* with the fault "cache" the API server need not fill the caches.         *)
(***************************************************************************)
CachesSync == start = "store" => stopped \/ "cache" \notin Faults

Fairness ==
  /\ WF_vars(Main) /\ WF_vars(Start /\ CachesSync)
  /\ WF_vars(MasterQuits) /\ WF_vars(WorkersEnd) /\ WF_vars(MasterEnds) /\ WF_vars(Reap)
  /\ WF_vars(Probe) /\ WF_vars(Kubelet) /\ WF_vars(Sigkill)

Spec == Init /\ [][Next]_<<vars, setup>> /\ Fairness

-----------------------------------------------------------------------------
(* Properties *)

(***************************************************************************)
(* "Stop gracefully stops the NGINX master process": the container does    *)
(* not end while a process of NGINX can still serve a connection.          *)
(***************************************************************************)
GracefulExit == main = "exited" => ~IsRunning

(***************************************************************************)
(* A pod that is to end does end, without SIGKILL: the ticker of Stop and  *)
(* the one of wait-shutdown, which have no limit, both see NGINX go.       *)
(***************************************************************************)
Terminates == (hook # "idle") ~> (main = "exited")

(***************************************************************************)
(* The exit code is honest, whatever fails and whenever SIGTERM arrives:   *)
(* after code 0, set by HandleSigterm when Stop returns no error, NGINX    *)
(* has ended by itself.                                                    *)
(***************************************************************************)
CleanExit == main = "exited" /\ code = 0 => ~IsRunning

\* SIGTERM finds the controller listening, nobody kills a process, and the webhook
\* server closes.
Orderly == Faults \cap {"early", "webhook", "master"} = {} /\ ~Kills

(***************************************************************************)
(* The container ends after NGINX and says so with its exit code: with     *)
(* code 0 whatever fails, and always in an orderly life (Stop), in which   *)
(* the controller can still give up before it has started NGINX.           *)
(***************************************************************************)
StopsCleanly == CleanExit /\ (Orderly => GracefulExit)

(***************************************************************************)
(* "if the nginx master process dies, the workers continue to process      *)
(* requests until the failure of the configured livenessProbe and restart  *)
(* of the pod": a dead master is noticed by Check, although the orphaned   *)
(* workers answer, and the container ends.                                 *)
(***************************************************************************)
DeadMasterRestarts == (master = "dead") ~> (main = "exited")

(***************************************************************************)
(* --post-shutdown-grace-period: "Seconds to wait after the nginx process  *)
(* has stopped before controller exits."                                   *)
(***************************************************************************)
DelayAfterNginx == main = "delay" => ~IsRunning
=============================================================================
