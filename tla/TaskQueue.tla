----------------------------- MODULE TaskQueue ------------------------------
(***************************************************************************)
(* internal/task/queue.go on top of client-go's rate limiting workqueue.   *)
(*                                                                         *)
(* Producers call enqueue; Workers run `wait.Until(t.worker, ...)`.  The   *)
(* controller's queue has one worker; the status syncer's queue gets a     *)
(* further one each time leadership is won again.  An Element carries the  *)
(* wall clock of its creation, and the worker drops an element that is     *)
(* older than the last successful sync.  The point of the model is that    *)
(* this shortcut, the deduplication of the workqueue and the delayed retry *)
(* after an error never lose a request between them.                       *)
(***************************************************************************)
EXTENDS Integers, Sequences

CONSTANTS Keys,         \* keys the key function can produce
          NoKey,        \* an object the key function rejects
          Producers,    \* goroutines that enqueue
          Workers,      \* goroutines that run the worker loop
          Day,          \* 24 hours, in clock units
          MaxClock,     \* bound: last value of the wall clock
          MaxRequests,  \* bound: calls of enqueue with a usable object
          MaxFailures   \* bound: syncs that return an error

ASSUME QueueAssumption ==
  /\ NoKey \notin Keys
  /\ Day \in Nat
  /\ MaxClock \in Nat \ {0}
  /\ MaxRequests \in Nat
  /\ MaxFailures \in Nat

VARIABLES
  clock,         \* time.Now(); never steps back
  queue,         \* workqueue.Type.queue
  dirty,         \* workqueue.Type.dirty
  processing,    \* workqueue.Type.processing
  waiting,       \* elements in the delaying queue, not due yet
  shuttingDown,  \* workqueue.Type.shuttingDown
  lastSync,      \* Queue.lastSync
  workerDone,    \* Queue.workerDone is closed
  stopCh,        \* the channel given to Run is closed
  caller,        \* the goroutine calling Shutdown: "none", "waiting", "returned"
  panicked,      \* close of a closed channel
  ppc, pkey, pkind, pts,         \* per producer: place, arguments and ts of enqueue
  wpc, witem, wts, wstarted,     \* per worker: place, item and ts of worker
  failures,      \* errors returned by sync so far
  reqs, served   \* ghosts: requests issued, requests seen by a successful sync

queueVars  == <<queue, dirty, processing>>
prodVars   == <<ppc, pkey, pkind, pts>>
workVars   == <<wpc, witem, wts, wstarted>>
endVars    == <<workerDone, stopCh, caller, panicked>>
vars == <<clock, queueVars, waiting, shuttingDown, lastSync, prodVars, workVars,
          endVars, failures, reqs, served>>

Times    == 0..(MaxClock + Day)
Elements == [key : Keys, ts : Times]
NoItem   == [key |-> NoKey, ts |-> 0]

Kinds == {"task", "skippable"}   \* EnqueueTask, EnqueueSkippableTask

ProducerPCs == {"idle", "check", "stamp", "add"}
WorkerPCs   == {"run", "get", "stamp", "test", "sync", "done", "quit", "close", "exited"}

\* Places of the worker loop at which it holds an element it got and has not
\* marked as done.
Holding == {"stamp", "test", "sync", "done"}

TypeOK ==
  /\ clock \in 1..MaxClock
  /\ queue \in Seq(Elements)
  /\ dirty \subseteq Elements
  /\ processing \subseteq Elements
  /\ waiting \subseteq Elements
  /\ shuttingDown \in BOOLEAN
  /\ lastSync \in 0..MaxClock
  /\ workerDone \in BOOLEAN
  /\ stopCh \in BOOLEAN
  /\ caller \in {"none", "waiting", "returned"}
  /\ panicked \in BOOLEAN
  /\ ppc \in [Producers -> ProducerPCs]
  /\ pkey \in [Producers -> Keys \cup {NoKey}]
  /\ pkind \in [Producers -> Kinds]
  /\ pts \in [Producers -> Times]
  /\ wpc \in [Workers -> WorkerPCs]
  /\ witem \in [Workers -> Elements \cup {NoItem}]
  /\ wts \in [Workers -> 0..MaxClock]
  /\ wstarted \in [Workers -> 0..MaxRequests]
  /\ failures \in 0..MaxFailures
  /\ reqs \in 0..MaxRequests
  /\ served \in 0..MaxRequests

Init ==
  /\ clock = 1
  /\ queue = <<>> /\ dirty = {} /\ processing = {} /\ waiting = {}
  /\ shuttingDown = FALSE
  /\ lastSync = 0
  /\ workerDone = FALSE /\ stopCh = FALSE /\ caller = "none" /\ panicked = FALSE
  /\ ppc = [p \in Producers |-> "idle"]
  /\ pkey = [p \in Producers |-> NoKey]
  /\ pkind = [p \in Producers |-> "task"]
  /\ pts = [p \in Producers |-> 0]
  /\ wpc = [w \in Workers |-> "run"]
  /\ witem = [w \in Workers |-> NoItem]
  /\ wts = [w \in Workers |-> 0]
  /\ wstarted = [w \in Workers |-> 0]
  /\ failures = 0
  /\ reqs = 0 /\ served = 0

-----------------------------------------------------------------------------
(* The workqueue (external): Add, Get, Done, AddRateLimited. *)

\* Add of an element: dropped after ShutDown or when already dirty; an element
\* that is being processed waits in dirty for Done.
AddElement(e) ==
  IF shuttingDown \/ e \in dirty
  THEN UNCHANGED <<queue, dirty>>
  ELSE /\ dirty' = dirty \cup {e}
       /\ queue' = IF e \in processing THEN queue ELSE Append(queue, e)

\* Get blocks while the queue is empty and not shutting down.
Get(w) ==
  /\ wpc[w] = "get"
  /\ queue # <<>>
  /\ witem' = [witem EXCEPT ![w] = Head(queue)]
  /\ processing' = processing \cup {Head(queue)}
  /\ dirty' = dirty \ {Head(queue)}
  /\ queue' = Tail(queue)
  /\ wpc' = [wpc EXCEPT ![w] = "stamp"]
  /\ UNCHANGED <<clock, waiting, shuttingDown, lastSync, prodVars, wts, wstarted,
                 endVars, failures, reqs, served>>

\* Get reports quit once the queue is drained after ShutDown.
GetQuitUnacknowledged(w) ==
  /\ wpc[w] = "get"
  /\ queue = <<>> /\ shuttingDown
  /\ wpc' = [wpc EXCEPT ![w] = "run"]
  /\ UNCHANGED <<clock, queueVars, waiting, shuttingDown, lastSync, prodVars,
                 witem, wts, wstarted, endVars, failures, reqs, served>>

GetQuit(w) ==
  /\ wpc[w] = "get"
  /\ queue = <<>> /\ shuttingDown
  /\ wpc' = [wpc EXCEPT ![w] = "quit"]
  /\ UNCHANGED <<clock, queueVars, waiting, shuttingDown, lastSync, prodVars,
                 witem, wts, wstarted, endVars, failures, reqs, served>>

\* The delaying queue adds an element whose delay is over; its loop ends with
\* ShutDown.
Due(e) ==
  /\ e \in waiting
  /\ ~shuttingDown
  /\ waiting' = waiting \ {e}
  /\ AddElement(e)
  /\ UNCHANGED <<clock, processing, shuttingDown, lastSync, prodVars, workVars,
                 endVars, failures, reqs, served>>

-----------------------------------------------------------------------------
(* enqueue *)

\* EnqueueTask and EnqueueSkippableTask.
Call(p, key, kind) ==
  /\ ppc[p] = "idle"
  /\ IF key = NoKey THEN UNCHANGED reqs
     ELSE reqs < MaxRequests /\ reqs' = reqs + 1
  /\ ppc' = [ppc EXCEPT ![p] = "check"]
  /\ pkey' = [pkey EXCEPT ![p] = key]
  /\ pkind' = [pkind EXCEPT ![p] = kind]
  /\ UNCHANGED <<clock, queueVars, waiting, shuttingDown, lastSync, pts, workVars,
                 endVars, failures, served>>

\* enqueue returns and its local variables are gone.
Return(p) ==
  /\ ppc' = [ppc EXCEPT ![p] = "idle"]
  /\ pkey' = [pkey EXCEPT ![p] = NoKey]
  /\ pkind' = [pkind EXCEPT ![p] = "task"]
  /\ pts' = [pts EXCEPT ![p] = 0]

\* if t.IsShuttingDown() { return }
CheckShuttingDown(p) ==
  /\ ppc[p] = "check"
  /\ IF shuttingDown THEN Return(p)
     ELSE /\ ppc' = [ppc EXCEPT ![p] = "stamp"]
          /\ UNCHANGED <<pkey, pkind, pts>>
  /\ UNCHANGED <<clock, queueVars, waiting, shuttingDown, lastSync, workVars, endVars,
                 failures, reqs, served>>

\* The timestamp an element gets: a day ahead when it may not be skipped.
Stamp(now, kind) == IF kind = "skippable" THEN now ELSE now + Day

\* ts := time.Now()...; key, err := t.fn(obj); if err != nil { return }
StampElement(p) ==
  /\ ppc[p] = "stamp"
  /\ IF pkey[p] = NoKey THEN Return(p)
     ELSE /\ pts' = [pts EXCEPT ![p] = Stamp(clock, pkind[p])]
          /\ ppc' = [ppc EXCEPT ![p] = "add"]
          /\ UNCHANGED <<pkey, pkind>>
  /\ UNCHANGED <<clock, queueVars, waiting, shuttingDown, lastSync, workVars, endVars,
                 failures, reqs, served>>

\* t.queue.Add(Element{...})
AddToQueue(p) ==
  /\ ppc[p] = "add"
  /\ AddElement([key |-> pkey[p], ts |-> pts[p]])
  /\ Return(p)
  /\ UNCHANGED <<clock, processing, waiting, shuttingDown, lastSync, workVars, endVars,
                 failures, reqs, served>>

-----------------------------------------------------------------------------
(* worker *)

\* wait.Until: look at stopCh, then call worker.
RunWorker(w) ==
  /\ wpc[w] = "run"
  /\ wpc' = [wpc EXCEPT ![w] = IF stopCh THEN "exited" ELSE "get"]
  /\ UNCHANGED <<clock, queueVars, waiting, shuttingDown, lastSync, prodVars,
                 witem, wts, wstarted, endVars, failures, reqs, served>>

\* ts := time.Now().UnixNano()
StampSync(w) ==
  /\ wpc[w] = "stamp"
  /\ wts' = [wts EXCEPT ![w] = clock]
  /\ wpc' = [wpc EXCEPT ![w] = "test"]
  /\ UNCHANGED <<clock, queueVars, waiting, shuttingDown, lastSync, prodVars,
                 witem, wstarted, endVars, failures, reqs, served>>

\* The element is older than the last successful sync and is not a retry.
Skippable(item) == item.ts # 0 /\ lastSync > item.ts

Skip(w) ==
  /\ wpc[w] = "test"
  /\ Skippable(witem[w])
  /\ wpc' = [wpc EXCEPT ![w] = "done"]
  /\ UNCHANGED <<clock, queueVars, waiting, shuttingDown, lastSync, prodVars,
                 witem, wts, wstarted, endVars, failures, reqs, served>>

\* t.sync(key) begins and looks at the world.
StartSync(w) ==
  /\ wpc[w] = "test"
  /\ ~Skippable(witem[w])
  /\ wstarted' = [wstarted EXCEPT ![w] = reqs]
  /\ wpc' = [wpc EXCEPT ![w] = "sync"]
  /\ UNCHANGED <<clock, queueVars, waiting, shuttingDown, lastSync, prodVars,
                 witem, wts, endVars, failures, reqs, served>>

\* The sync returned nil: lastSync becomes the time the element was taken.
SyncOKItemTime(w) ==
  /\ wpc[w] = "sync"
  /\ lastSync' = witem[w].ts
  /\ served' = IF wstarted[w] > served THEN wstarted[w] ELSE served
  /\ wpc' = [wpc EXCEPT ![w] = "done"]
  /\ UNCHANGED <<clock, queueVars, waiting, shuttingDown, prodVars, witem, wts,
                 wstarted, endVars, failures, reqs>>

SyncOKStampAtEnd(w) ==
  /\ wpc[w] = "sync"
  /\ lastSync' = clock
  /\ served' = IF wstarted[w] > served THEN wstarted[w] ELSE served
  /\ wpc' = [wpc EXCEPT ![w] = "done"]
  /\ UNCHANGED <<clock, queueVars, waiting, shuttingDown, prodVars, witem, wts,
                 wstarted, endVars, failures, reqs>>

SyncOK(w) ==
  /\ wpc[w] = "sync"
  /\ lastSync' = wts[w]
  /\ served' = IF wstarted[w] > served THEN wstarted[w] ELSE served
  /\ wpc' = [wpc EXCEPT ![w] = "done"]
  /\ UNCHANGED <<clock, queueVars, waiting, shuttingDown, prodVars, witem, wts,
                 wstarted, endVars, failures, reqs>>

\* The sync returned an error: AddRateLimited with timestamp 0, dropped when
\* the queue is shutting down.
SyncFailEndsWorker(w) ==
  /\ wpc[w] = "sync"
  /\ failures < MaxFailures
  /\ failures' = failures + 1
  /\ waiting' = IF shuttingDown THEN waiting
                ELSE waiting \cup {[key |-> witem[w].key, ts |-> 0]}
  /\ processing' = processing \ {witem[w]}
  /\ queue' = IF witem[w] \in dirty THEN Append(queue, witem[w]) ELSE queue
  /\ wpc' = [wpc EXCEPT ![w] = IF shuttingDown THEN "get" ELSE "exited"]
  /\ UNCHANGED <<clock, dirty, shuttingDown, lastSync, prodVars, witem, wts, wstarted,
                 endVars, reqs, served>>

SyncFail(w) ==
  /\ wpc[w] = "sync"
  /\ failures < MaxFailures
  /\ failures' = failures + 1
  /\ waiting' = IF shuttingDown THEN waiting
                ELSE waiting \cup {[key |-> witem[w].key, ts |-> 0]}
  /\ wpc' = [wpc EXCEPT ![w] = "done"]
  /\ UNCHANGED <<clock, queueVars, shuttingDown, lastSync, prodVars, witem, wts,
                 wstarted, endVars, reqs, served>>

\* The next round of the worker loop: item and ts are gone.
NextRound(w) ==
  /\ wpc' = [wpc EXCEPT ![w] = "get"]
  /\ witem' = [witem EXCEPT ![w] = NoItem]
  /\ wts' = [wts EXCEPT ![w] = 0]
  /\ wstarted' = [wstarted EXCEPT ![w] = 0]

\* t.queue.Done(key): an element that became dirty meanwhile is queued again.
DoneNotCalled(w) ==
  /\ wpc[w] = "done"
  /\ NextRound(w)
  /\ UNCHANGED <<clock, queueVars, waiting, shuttingDown, lastSync, prodVars,
                 endVars, failures, reqs, served>>

Done(w) ==
  /\ wpc[w] = "done"
  /\ processing' = processing \ {witem[w]}
  /\ queue' = IF witem[w] \in dirty THEN Append(queue, witem[w]) ELSE queue
  /\ NextRound(w)
  /\ UNCHANGED <<clock, dirty, waiting, shuttingDown, lastSync, prodVars, endVars,
                 failures, reqs, served>>

\* if !isClosed(t.workerDone): the test and the close are two steps.
TestNothing(w) ==
  /\ wpc[w] = "quit"
  /\ wpc' = [wpc EXCEPT ![w] = "close"]
  /\ UNCHANGED <<clock, queueVars, waiting, shuttingDown, lastSync, prodVars,
                 witem, wts, wstarted, endVars, failures, reqs, served>>

TestWorkerDone(w) ==
  /\ wpc[w] = "quit"
  /\ wpc' = [wpc EXCEPT ![w] = IF workerDone THEN "run" ELSE "close"]
  /\ UNCHANGED <<clock, queueVars, waiting, shuttingDown, lastSync, prodVars,
                 witem, wts, wstarted, endVars, failures, reqs, served>>

\* close(t.workerDone); wait.Until then waits a period and runs worker again.
CloseWorkerDone(w) ==
  /\ wpc[w] = "close"
  /\ workerDone' = TRUE
  /\ panicked' = (panicked \/ workerDone)
  /\ wpc' = [wpc EXCEPT ![w] = "run"]
  /\ UNCHANGED <<clock, queueVars, waiting, shuttingDown, lastSync, prodVars,
                 witem, wts, wstarted, stopCh, caller, failures, reqs, served>>

-----------------------------------------------------------------------------
(* Shutdown, the owner's stop channel, and time *)

\* Shutdown: t.queue.ShutDown(), then wait for the worker.
Shutdown ==
  /\ caller = "none"
  /\ shuttingDown' = TRUE
  /\ caller' = "waiting"
  /\ UNCHANGED <<clock, queueVars, waiting, lastSync, prodVars, workVars,
                 workerDone, stopCh, panicked, failures, reqs, served>>

\* <-t.workerDone
ShutdownReturns ==
  /\ caller = "waiting"
  /\ workerDone
  /\ caller' = "returned"
  /\ UNCHANGED <<clock, queueVars, waiting, shuttingDown, lastSync, prodVars, workVars,
                 workerDone, stopCh, panicked, failures, reqs, served>>

\* The owner of the queue closes the channel it gave to Run.
CloseStopCh ==
  /\ ~stopCh
  /\ stopCh' = TRUE
  /\ UNCHANGED <<clock, queueVars, waiting, shuttingDown, lastSync, prodVars, workVars,
                 workerDone, caller, panicked, failures, reqs, served>>

Tick ==
  /\ clock < MaxClock
  /\ clock' = clock + 1
  /\ UNCHANGED <<queueVars, waiting, shuttingDown, lastSync, prodVars, workVars,
                 endVars, failures, reqs, served>>

-----------------------------------------------------------------------------
Enqueue(p) == CheckShuttingDown(p) \/ StampElement(p) \/ AddToQueue(p)

Worker(w) ==
  \/ RunWorker(w) \/ Get(w) \/ GetQuit(w) \/ StampSync(w) \/ Skip(w) \/ StartSync(w)
  \/ SyncOK(w) \/ SyncFail(w) \/ Done(w) \/ TestWorkerDone(w) \/ CloseWorkerDone(w)

Next ==
  \/ \E p \in Producers, key \in Keys \cup {NoKey}, kind \in Kinds :
        Call(p, key, kind)
  \/ \E p \in Producers : Enqueue(p)
  \/ \E w \in Workers : Worker(w)
  \/ \E e \in waiting : Due(e)
  \/ Shutdown \/ ShutdownReturns \/ CloseStopCh
  \/ Tick

Safety == Init /\ [][Next]_vars

(***************************************************************************)
(* Goroutines that can run do run, a delayed element becomes due, and a    *)
(* sync returns.  Errors are bounded by MaxFailures: a sync that fails for *)
(* ever serves nobody.  Nothing makes a caller call, or time pass.         *)
(***************************************************************************)
Fairness ==
  /\ \A p \in Producers : WF_vars(Enqueue(p))
  /\ \A w \in Workers : WF_vars(Worker(w))
  /\ WF_vars(\E e \in waiting : Due(e))
  /\ WF_vars(ShutdownReturns)

Spec == Safety /\ Fairness

-----------------------------------------------------------------------------
(* Properties *)

\* An element that no sync timed at or after t could make skippable.
Fresh(e, t) == e.ts = 0 \/ e.ts >= t

\* Some sync that sees all the requests is on its way, even after lastSync
\* became t: a queued, delayed or re-queued fresh element, a producer about to
\* add one, a worker that holds one, or a sync that began after the last request.
Covers(t) ==
  \/ \E i \in 1..Len(queue) : Fresh(queue[i], t)
  \/ \E e \in dirty \cap processing : Fresh(e, t)
  \/ \E e \in waiting : Fresh(e, t)
  \/ \E p \in Producers : pkey[p] # NoKey /\ ppc[p] \in {"check", "stamp"}
  \/ \E p \in Producers : ppc[p] = "add" /\ (pts[p] = 0 \/ pts[p] >= t)
  \/ \E w \in Workers : wpc[w] \in {"stamp", "test"} /\ Fresh(witem[w], t)
  \/ \E w \in Workers : wpc[w] = "sync" /\ wstarted[w] = reqs

(***************************************************************************)
(* "By using a work queue it is possible to not lose changes"              *)
(* (docs/how-it-works.md): while a request is not served and the queue is  *)
(* not shut down, a sync that will see it is under way, although worker    *)
(* skips elements, the workqueue merges equal ones and errors are retried. *)
(***************************************************************************)
NoLostRequest == (reqs > served /\ ~shuttingDown) => Covers(lastSync)

\* What the workqueue promises about an element in dirty: it is queued, or a
\* worker holds it and will queue it again in Done.
DirtyIsPending ==
  \A e \in dirty :
    \/ \E i \in 1..Len(queue) : queue[i] = e
    \/ e \in processing /\ \E w \in Workers : wpc[w] \in Holding /\ witem[w] = e

(***************************************************************************)
(* workqueue's contract as worker uses it (Get ... Done): two workers      *)
(* never hold the same element at the same time.                           *)
(***************************************************************************)
OneHolder ==
  \A v, w \in Workers :
    v # w /\ wpc[v] \in Holding /\ wpc[w] \in Holding => witem[v] # witem[w]

(***************************************************************************)
(* "workerDone is closed when the worker exits": it is closed once, for    *)
(* one worker, although Run calls worker again each period.                *)
(***************************************************************************)
NoDoubleClose == ~panicked

(***************************************************************************)
(* "Shutdown shuts down the work queue and waits for the worker to ACK":   *)
(* if a worker is past its look at stopCh when Shutdown is called, the     *)
(* call returns, with the queue drained and every element marked done.     *)
(***************************************************************************)
ShutdownAcked ==
  (caller = "waiting" /\ \E w \in Workers : wpc[w] \notin {"run", "exited"})
    ~> (caller = "returned")

\* The sync requests this queue implements.
Requests == INSTANCE SyncRequests WITH
  started <- [w \in Workers |-> IF wpc[w] = "sync" THEN wstarted[w] ELSE -1],
  down    <- shuttingDown \/ stopCh

(***************************************************************************)
(* The queue implements SyncRequests: every request is served by a sync    *)
(* that began after it, unless the owner stopped the queue (Shutdown, or   *)
(* stopCh, which keeps a worker that has not started from starting).       *)
(***************************************************************************)
ImplementsRequests == Requests!ReqSpec
=============================================================================
