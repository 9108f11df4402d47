-------------------------- MODULE TaskQueueProofs ---------------------------
(***************************************************************************)
(* Proofs about TaskQueue, for every set of keys, producers and workers,   *)
(* every length of the day and every bound.                                *)
(***************************************************************************)
EXTENDS TaskQueue, SequenceTheorems, TLAPS

\* What enqueue and worker know about their local variables.
LocalsOK ==
  /\ \A p \in Producers : ppc[p] = "add" => pkey[p] \in Keys
  /\ \A w \in Workers : wpc[w] \in Holding => witem[w] \in Elements

\* No recorded time is ahead of the clock.
TimesOK ==
  /\ lastSync <= clock
  /\ \A w \in Workers : wts[w] <= clock

\* An element in dirty is queued or being processed.
DirtyOK == \A e \in dirty : e \in processing \/ \E i \in 1..Len(queue) : queue[i] = e

\* An element being processed is held by a worker.
ProcessingHeld ==
  \A e \in processing : \E w \in Workers : wpc[w] \in Holding /\ witem[w] = e

\* When a sync that began before the last request succeeds, lastSync becomes the
\* time it was taken; the requests it misses must still be covered then.
SyncCovered ==
  \A w \in Workers :
    (wpc[w] = "sync" /\ reqs > served /\ reqs > wstarted[w] /\ ~shuttingDown)
      => Covers(wts[w])

-----------------------------------------------------------------------------
(* Sequences and elements *)

\* What Get relies on: the head of a non-empty queue is an element and the tail
\* keeps the others.
LEMMA QueueHeadTail ==
  ASSUME NEW S, NEW q \in Seq(S), q # <<>>
  PROVE  /\ Head(q) \in S
         /\ Head(q) = q[1]
         /\ Tail(q) \in Seq(S)
         /\ \A i \in 1..Len(q) :
              i = 1 \/ (i - 1 \in 1..Len(Tail(q)) /\ Tail(q)[i - 1] = q[i])
<1>1. /\ Head(q) \in S /\ Tail(q) \in Seq(S)
      /\ Len(Tail(q)) = Len(q) - 1 /\ Head(q) = q[1]
      /\ \A i \in 1..Len(Tail(q)) : Tail(q)[i] = q[i + 1]
  BY HeadTailProperties
<1>2. Len(q) \in Nat
  BY LenProperties
<1> QED
  BY <1>1, <1>2

\* What Add and Done rely on: appending keeps the elements and adds one.
LEMMA QueueAppend ==
  ASSUME NEW S, NEW q \in Seq(S), NEW e \in S
  PROVE  /\ Append(q, e) \in Seq(S)
         /\ \A i \in 1..Len(q) :
              i \in 1..Len(Append(q, e)) /\ Append(q, e)[i] = q[i]
         /\ \E i \in 1..Len(Append(q, e)) : Append(q, e)[i] = e
<1>1. /\ Append(q, e) \in Seq(S) /\ Len(Append(q, e)) = Len(q) + 1
      /\ \A i \in 1..Len(q) : Append(q, e)[i] = q[i]
      /\ Append(q, e)[Len(q) + 1] = e
  BY AppendProperties
<1>2. Len(q) \in Nat
  BY LenProperties
<1> QED
  BY <1>1, <1>2

LEMMA NoItemHasNoElement == NoItem \notin Elements
  BY QueueAssumption DEF NoItem, Elements

\* What Add does to the queue, from the two producers of elements: enqueue and
\* the delaying queue.
LEMMA AddElementEffect ==
  ASSUME TypeOK, DirtyOK, NEW e \in Elements, AddElement(e)
  PROVE  /\ queue' \in Seq(Elements)
         /\ dirty' \subseteq Elements
         /\ dirty \subseteq dirty'
         /\ \A i \in 1..Len(queue) : i \in 1..Len(queue') /\ queue'[i] = queue[i]
         /\ \A f \in dirty' : f \in processing \/ \E i \in 1..Len(queue') : queue'[i] = f
         /\ ~shuttingDown => e \in dirty'
<1>1. CASE shuttingDown \/ e \in dirty
  BY <1>1 DEF AddElement, TypeOK, DirtyOK
<1>2. CASE ~(shuttingDown \/ e \in dirty) /\ e \in processing
  BY <1>2 DEF AddElement, TypeOK, DirtyOK
<1>3. CASE ~(shuttingDown \/ e \in dirty) /\ e \notin processing
  <2>1. queue \in Seq(Elements)
    BY DEF TypeOK
  <2>2. queue' = Append(queue, e) /\ dirty' = dirty \cup {e}
    BY <1>3 DEF AddElement
  <2> QED
    BY <2>1, <2>2, QueueAppend DEF TypeOK, DirtyOK
<1> QED
  BY <1>1, <1>2, <1>3

-----------------------------------------------------------------------------
(* Types, local variables and times *)

Basics == TypeOK /\ LocalsOK /\ TimesOK /\ DirtyOK /\ ProcessingHeld

LEMMA TimesFacts ==
  /\ 0 \in Times
  /\ \A n \in 1..MaxClock : n \in Times /\ n + Day \in Times
  BY QueueAssumption DEF Times

LEMMA BasicsInit == Init => Basics
<1> SUFFICES ASSUME Init PROVE Basics
  OBVIOUS
<1> USE QueueAssumption, TimesFacts
<1>1. queue \in Seq(Elements) /\ Len(queue) = 0
  BY EmptySeq DEF Init
<1>2. TypeOK
  <2>1. /\ ppc \in [Producers -> ProducerPCs] /\ pkey \in [Producers -> Keys \cup {NoKey}]
        /\ pkind \in [Producers -> Kinds] /\ pts \in [Producers -> Times]
    BY DEF Init, ProducerPCs, Kinds
  <2>2. /\ wpc \in [Workers -> WorkerPCs] /\ witem \in [Workers -> Elements \cup {NoItem}]
        /\ wts \in [Workers -> 0..MaxClock] /\ wstarted \in [Workers -> 0..MaxRequests]
    BY DEF Init, WorkerPCs
  <2>3. /\ shuttingDown \in BOOLEAN /\ workerDone \in BOOLEAN
        /\ stopCh \in BOOLEAN /\ panicked \in BOOLEAN
        /\ caller \in {"none", "waiting", "returned"}
    BY DEF Init
  <2>4. /\ clock \in 1..MaxClock /\ lastSync \in 0..MaxClock
        /\ failures \in 0..MaxFailures /\ reqs \in 0..MaxRequests /\ served \in 0..MaxRequests
        /\ dirty \subseteq Elements /\ processing \subseteq Elements
        /\ waiting \subseteq Elements
    BY DEF Init
  <2> QED
    BY <1>1, <2>1, <2>2, <2>3, <2>4 DEF TypeOK
<1> QED
  BY <1>1, <1>2 DEF Init, Basics, LocalsOK, TimesOK, DirtyOK, ProcessingHeld, Holding

LEMMA BasicsEnqueue ==
  ASSUME Basics,
         NEW p \in Producers,
         \/ \E key \in Keys \cup {NoKey}, kind \in Kinds : Call(p, key, kind)
         \/ Enqueue(p)
  PROVE  Basics'
<1> USE QueueAssumption, TimesFacts
<1>1. ASSUME NEW key \in Keys \cup {NoKey}, NEW kind \in Kinds,
             Call(p, key, kind)
      PROVE  Basics'
  BY <1>1 DEF Basics, Call, TypeOK, LocalsOK, TimesOK, DirtyOK, ProcessingHeld, queueVars,
     workVars, endVars, ProducerPCs, Kinds
<1>2. CASE CheckShuttingDown(p)
  <2>1. /\ ppc' \in [Producers -> ProducerPCs] /\ pkey' \in [Producers -> Keys \cup {NoKey}]
        /\ pkind' \in [Producers -> Kinds] /\ pts' \in [Producers -> Times]
    BY <1>2 DEF Basics, CheckShuttingDown, Return, TypeOK, ProducerPCs, Kinds
  <2>2. LocalsOK'
    BY <1>2 DEF Basics, CheckShuttingDown, Return, TypeOK, LocalsOK, workVars
  <2> QED
    BY <1>2, <2>1, <2>2 DEF Basics, CheckShuttingDown, TypeOK, TimesOK, DirtyOK,
       ProcessingHeld, queueVars, workVars, endVars
<1>3. CASE StampElement(p)
  <2>1. /\ ppc' \in [Producers -> ProducerPCs] /\ pkey' \in [Producers -> Keys \cup {NoKey}]
        /\ pkind' \in [Producers -> Kinds] /\ pts' \in [Producers -> Times]
    BY <1>3 DEF Basics, StampElement, Stamp, Return, TypeOK, ProducerPCs, Kinds
  <2>2. LocalsOK'
    BY <1>3 DEF Basics, StampElement, Return, TypeOK, LocalsOK, workVars
  <2> QED
    BY <1>3, <2>1, <2>2 DEF Basics, StampElement, TypeOK, TimesOK, DirtyOK,
       ProcessingHeld, queueVars, workVars, endVars
<1>4. CASE AddToQueue(p)
  <2>1. [key |-> pkey[p], ts |-> pts[p]] \in Elements
    BY <1>4 DEF AddToQueue, Basics, TypeOK, LocalsOK, Elements
  <2>2. /\ queue' \in Seq(Elements) /\ dirty' \subseteq Elements
        /\ \A f \in dirty' : f \in processing \/ \E i \in 1..Len(queue') : queue'[i] = f
    BY <1>4, <2>1, AddElementEffect DEF AddToQueue, Basics
  <2> QED
    BY <1>4, <2>2 DEF Basics, AddToQueue, Return, TypeOK, LocalsOK, TimesOK, DirtyOK,
       ProcessingHeld, workVars, endVars, ProducerPCs, Kinds, Times
<1> QED
  BY <1>1, <1>2, <1>3, <1>4 DEF Enqueue

LEMMA BasicsWorker ==
  ASSUME Basics, NEW w \in Workers, Worker(w)
  PROVE  Basics'
<1> USE QueueAssumption, TimesFacts
<1>1. CASE RunWorker(w)
  BY <1>1 DEF Basics, RunWorker, TypeOK, LocalsOK, TimesOK, DirtyOK, ProcessingHeld,
     queueVars, prodVars, endVars, WorkerPCs, Holding
<1>2. CASE Get(w)
  <2>1. /\ Head(queue) \in Elements /\ Tail(queue) \in Seq(Elements)
        /\ \A i \in 1..Len(queue) :
             queue[i] = Head(queue) \/ \E j \in 1..Len(Tail(queue)) : Tail(queue)[j] = queue[i]
    BY <1>2, QueueHeadTail DEF Get, Basics, TypeOK
  <2>2. TypeOK'
    BY <1>2, <2>1 DEF Basics, Get, TypeOK, prodVars, endVars, WorkerPCs
  <2>3. LocalsOK' /\ TimesOK' /\ ProcessingHeld'
    BY <1>2, <2>1 DEF Basics, Get, TypeOK, LocalsOK, TimesOK, ProcessingHeld, prodVars,
       WorkerPCs, Holding
  <2>4. DirtyOK'
    BY <1>2, <2>1 DEF Basics, Get, DirtyOK
  <2> QED
    BY <2>2, <2>3, <2>4 DEF Basics
<1>3. CASE GetQuit(w)
  <2>1. /\ wpc[w] = "get"
        /\ wpc' = [wpc EXCEPT ![w] = "quit"]
        /\ UNCHANGED <<clock, queueVars, waiting, shuttingDown, lastSync, prodVars,
                       witem, wts, wstarted, endVars, failures, reqs, served>>
    BY <1>3 DEF GetQuit
  <2> QED
    BY <2>1 DEF Basics, TypeOK, LocalsOK, TimesOK, DirtyOK, ProcessingHeld,
       queueVars, prodVars, endVars, WorkerPCs, Holding
<1>4. CASE StampSync(w)
  BY <1>4 DEF Basics, StampSync, TypeOK, LocalsOK, TimesOK, DirtyOK, ProcessingHeld,
     queueVars, prodVars, endVars, WorkerPCs, Holding
<1>5. CASE Skip(w)
  BY <1>5 DEF Basics, Skip, TypeOK, LocalsOK, TimesOK, DirtyOK, ProcessingHeld,
     queueVars, prodVars, endVars, WorkerPCs, Holding
<1>6. CASE StartSync(w)
  BY <1>6 DEF Basics, StartSync, TypeOK, LocalsOK, TimesOK, DirtyOK, ProcessingHeld,
     queueVars, prodVars, endVars, WorkerPCs, Holding
<1>7. CASE SyncOK(w)
  BY <1>7 DEF Basics, SyncOK, TypeOK, LocalsOK, TimesOK, DirtyOK, ProcessingHeld,
     queueVars, prodVars, endVars, WorkerPCs, Holding
<1>8. CASE SyncFail(w)
  <2>1. [key |-> witem[w].key, ts |-> 0] \in Elements
    BY <1>8 DEF SyncFail, Basics, LocalsOK, Holding, Elements
  <2>2. waiting' \subseteq Elements
    BY <1>8, <2>1 DEF SyncFail, Basics, TypeOK
  <2> QED
    BY <1>8, <2>2 DEF Basics, SyncFail, TypeOK, LocalsOK, TimesOK, DirtyOK, ProcessingHeld,
       queueVars, prodVars, endVars, WorkerPCs, Holding
<1>9. CASE Done(w)
  <2>1. witem[w] \in Elements
    BY <1>9 DEF Done, Basics, LocalsOK, Holding
  <2>2. /\ Append(queue, witem[w]) \in Seq(Elements)
        /\ \A i \in 1..Len(queue) : \E j \in 1..Len(Append(queue, witem[w])) :
             Append(queue, witem[w])[j] = queue[i]
        /\ \E i \in 1..Len(Append(queue, witem[w])) : Append(queue, witem[w])[i] = witem[w]
    BY <2>1, QueueAppend DEF Basics, TypeOK
  <2>3. queue' \in Seq(Elements)
    BY <1>9, <2>2 DEF Done, Basics, TypeOK
  <2>4. TypeOK'
    BY <1>9, <2>3 DEF Basics, Done, NextRound, TypeOK, prodVars, endVars, WorkerPCs
  <2>5. LocalsOK' /\ TimesOK' /\ ProcessingHeld'
    BY <1>9 DEF Basics, Done, NextRound, TypeOK, LocalsOK, TimesOK, ProcessingHeld,
       prodVars, Holding
  <2>6. DirtyOK'
    BY <1>9, <2>2 DEF Basics, Done, DirtyOK
  <2> QED
    BY <2>4, <2>5, <2>6 DEF Basics
<1>10. CASE TestWorkerDone(w)
  BY <1>10 DEF Basics, TestWorkerDone, TypeOK, LocalsOK, TimesOK, DirtyOK, ProcessingHeld,
     queueVars, prodVars, endVars, WorkerPCs, Holding
<1>11. CASE CloseWorkerDone(w)
  <2>1. workerDone' \in BOOLEAN /\ panicked' \in BOOLEAN
    BY <1>11 DEF CloseWorkerDone
  <2> QED
    BY <1>11, <2>1 DEF Basics, CloseWorkerDone, TypeOK, LocalsOK, TimesOK, DirtyOK,
       ProcessingHeld, queueVars, prodVars, WorkerPCs, Holding
<1> QED
  BY <1>1, <1>2, <1>3, <1>4, <1>5, <1>6, <1>7, <1>8, <1>9, <1>10, <1>11 DEF Worker

LEMMA BasicsRest ==
  ASSUME Basics,
         \/ \E e \in waiting : Due(e)
         \/ Shutdown \/ ShutdownReturns \/ CloseStopCh \/ Tick
         \/ UNCHANGED vars
  PROVE  Basics'
<1> USE QueueAssumption
<1>1. ASSUME NEW e \in waiting, Due(e) PROVE Basics'
  <2>1. e \in Elements
    BY DEF Basics, TypeOK
  <2>2. /\ queue' \in Seq(Elements) /\ dirty' \subseteq Elements
        /\ \A f \in dirty' : f \in processing \/ \E i \in 1..Len(queue') : queue'[i] = f
    BY <1>1, <2>1, AddElementEffect DEF Due, Basics
  <2>3. waiting' \subseteq Elements
    BY <1>1 DEF Due, Basics, TypeOK
  <2> QED
    BY <1>1, <2>2, <2>3 DEF Basics, Due, TypeOK, LocalsOK, TimesOK, DirtyOK, ProcessingHeld,
       prodVars, workVars, endVars
<1>2. CASE Shutdown
  BY <1>2 DEF Basics, Shutdown, TypeOK, LocalsOK, TimesOK, DirtyOK, ProcessingHeld,
     queueVars, prodVars, workVars
<1>3. CASE ShutdownReturns
  BY <1>3 DEF Basics, ShutdownReturns, TypeOK, LocalsOK, TimesOK, DirtyOK, ProcessingHeld,
     queueVars, prodVars, workVars
<1>4. CASE CloseStopCh
  BY <1>4 DEF Basics, CloseStopCh, TypeOK, LocalsOK, TimesOK, DirtyOK, ProcessingHeld,
     queueVars, prodVars, workVars
<1>5. CASE Tick
  BY <1>5 DEF Basics, Tick, TypeOK, LocalsOK, TimesOK, DirtyOK, ProcessingHeld,
     queueVars, prodVars, workVars, endVars
<1>6. CASE UNCHANGED vars
  BY <1>6 DEF Basics, vars, TypeOK, LocalsOK, TimesOK, DirtyOK, ProcessingHeld,
     queueVars, prodVars, workVars, endVars
<1> QED
  BY <1>1, <1>2, <1>3, <1>4, <1>5, <1>6

LEMMA BasicsNext == Basics /\ [Next]_vars => Basics'
  BY BasicsEnqueue, BasicsWorker, BasicsRest DEF Next

\* Type correctness of the queue, its producers and its workers.
THEOREM TypeCorrect == Safety => []TypeOK
<1>1. Init => Basics
  BY BasicsInit
<1>2. Basics /\ [Next]_vars => Basics'
  BY BasicsNext
<1>3. Basics => TypeOK
  BY DEF Basics
<1> QED
  BY <1>1, <1>2, <1>3, PTL DEF Safety

\* An element the workqueue considers dirty is queued, or a worker holds it and
\* queues it again in Done: a change that arrives while its key is being synced
\* is not dropped by the deduplication.
THEOREM DirtyPending == Safety => []DirtyIsPending
<1>1. Init => Basics
  BY BasicsInit
<1>2. Basics /\ [Next]_vars => Basics'
  BY BasicsNext
<1>3. Basics => DirtyIsPending
  BY DEF Basics, DirtyIsPending, DirtyOK, ProcessingHeld
<1> QED
  BY <1>1, <1>2, <1>3, PTL DEF Safety

-----------------------------------------------------------------------------
(* Coverage *)

LEMMA CoversEnqueue ==
  ASSUME Basics, ~shuttingDown, NEW t \in Nat, t <= clock, Covers(t),
         NEW p \in Producers, Enqueue(p)
  PROVE  Covers(t)'
<1> USE QueueAssumption
<1>1. CASE CheckShuttingDown(p)
  BY <1>1 DEF CheckShuttingDown, Covers, Fresh, Basics, TypeOK, queueVars, workVars
<1>2. CASE StampElement(p)
  <2>1. CASE pkey[p] = NoKey
    BY <1>2, <2>1 DEF StampElement, Return, Covers, Fresh, Basics, TypeOK, queueVars, workVars
  <2>2. CASE pkey[p] # NoKey
    <3>1. pts'[p] >= t /\ ppc'[p] = "add"
      BY <1>2, <2>2 DEF StampElement, Stamp, Basics, TypeOK
    <3> QED
      BY <3>1 DEF Covers
  <2> QED
    BY <2>1, <2>2
<1>3. CASE AddToQueue(p)
  <2> DEFINE e == [key |-> pkey[p], ts |-> pts[p]]
  <2>1. e \in Elements
    BY <1>3 DEF AddToQueue, Basics, TypeOK, LocalsOK, Elements
  <2>2. /\ dirty \subseteq dirty' /\ e \in dirty'
        /\ \A i \in 1..Len(queue) : i \in 1..Len(queue') /\ queue'[i] = queue[i]
        /\ \A f \in dirty' : f \in processing \/ \E i \in 1..Len(queue') : queue'[i] = f
    BY <1>3, <2>1, AddElementEffect DEF AddToQueue, Basics
  <2>3. e \in dirty' \cap processing' \/ \E i \in 1..Len(queue') : queue'[i] = e
    BY <1>3, <2>2 DEF AddToQueue
  <2>4. ASSUME pts[p] = 0 \/ pts[p] >= t PROVE Covers(t)'
    <3>1. Fresh(e, t)
      BY <2>4 DEF Fresh
    <3> QED
      BY <2>3, <3>1 DEF Covers, Fresh
  <2>5. CASE ~(pts[p] = 0 \/ pts[p] >= t)
    BY <1>3, <2>2, <2>5 DEF AddToQueue, Return, Covers, Fresh, Basics, TypeOK, workVars
  <2> QED
    BY <2>4, <2>5
<1> QED
  BY <1>1, <1>2, <1>3 DEF Enqueue

LEMMA CoversWorker ==
  ASSUME Basics, ~shuttingDown, NEW t \in Nat, t <= clock, Covers(t),
         NEW w \in Workers, Worker(w),
         Skip(w) => ~Fresh(witem[w], t),
         SyncOK(w) => wstarted[w] # reqs
  PROVE  Covers(t)'
<1> USE QueueAssumption
<1>1. CASE RunWorker(w)
  BY <1>1 DEF RunWorker, Covers, Basics, TypeOK, queueVars, prodVars
<1>2. CASE Get(w)
  <2>1. \A i \in 1..Len(queue) :
             queue[i] = Head(queue) \/ \E j \in 1..Len(Tail(queue)) : Tail(queue)[j] = queue[i]
    BY <1>2, QueueHeadTail DEF Get, Basics, TypeOK
  <2>2. wpc'[w] = "stamp" /\ witem'[w] = Head(queue)
    BY <1>2 DEF Get, Basics, TypeOK
  <2>3. CASE Fresh(Head(queue), t)
    BY <2>2, <2>3 DEF Covers, Fresh
  <2>4. CASE ~Fresh(Head(queue), t)
    BY <1>2, <2>1, <2>4 DEF Get, Covers, Fresh, Basics, TypeOK, prodVars
  <2> QED
    BY <2>3, <2>4
<1>4. CASE StampSync(w)
  BY <1>4 DEF StampSync, Covers, Basics, TypeOK, queueVars, prodVars
<1>5. CASE Skip(w)
  BY <1>5 DEF Skip, Covers, Basics, TypeOK, queueVars, prodVars
<1>6. CASE StartSync(w)
  BY <1>6 DEF StartSync, Covers, Basics, TypeOK, queueVars, prodVars
<1>7. CASE SyncOK(w)
  BY <1>7 DEF SyncOK, Covers, Basics, TypeOK, queueVars, prodVars
<1>8. CASE SyncFail(w)
  <2>1. [key |-> witem[w].key, ts |-> 0] \in waiting'
    BY <1>8 DEF SyncFail
  <2> QED
    BY <2>1 DEF Covers, Fresh
<1>9. CASE Done(w)
  <2>1. witem[w] \in Elements
    BY <1>9 DEF Done, Basics, LocalsOK, Holding
  <2>2. /\ \A i \in 1..Len(queue) : \E j \in 1..Len(queue') : queue'[j] = queue[i]
        /\ witem[w] \in dirty => \E i \in 1..Len(queue') : queue'[i] = witem[w]
    BY <1>9, <2>1, QueueAppend DEF Done, Basics, TypeOK
  <2>3. \A v \in Workers : wpc[v] \in {"stamp", "test", "sync"} =>
             wpc'[v] = wpc[v] /\ witem'[v] = witem[v] /\ wstarted'[v] = wstarted[v]
    BY <1>9 DEF Done, NextRound, Basics, TypeOK
  <2>4. /\ processing' = processing \ {witem[w]} /\ dirty' = dirty /\ waiting' = waiting
        /\ pkey' = pkey /\ ppc' = ppc /\ pts' = pts /\ reqs' = reqs
    BY <1>9 DEF Done, prodVars
  <2>5. CASE \E i \in 1..Len(queue) : Fresh(queue[i], t)
    BY <2>2, <2>5 DEF Covers, Fresh
  <2>6. CASE \E e \in dirty \cap processing : Fresh(e, t)
    <3>1. PICK e \in dirty \cap processing : Fresh(e, t)
      BY <2>6
    <3>2. CASE e = witem[w]
      BY <2>2, <3>1, <3>2 DEF Covers, Fresh
    <3>3. CASE e # witem[w]
      BY <2>4, <3>1, <3>3 DEF Covers, Fresh
    <3> QED
      BY <3>2, <3>3
  <2>7. CASE \/ \E v \in Workers : wpc[v] \in {"stamp", "test"} /\ Fresh(witem[v], t)
             \/ \E v \in Workers : wpc[v] = "sync" /\ wstarted[v] = reqs
    BY <2>3, <2>4, <2>7 DEF Covers, Fresh
  <2> QED
    BY <2>4, <2>5, <2>6, <2>7 DEF Covers, Fresh
<1>10. CASE TestWorkerDone(w)
  BY <1>10 DEF TestWorkerDone, Covers, Basics, TypeOK, queueVars, prodVars
<1>11. CASE CloseWorkerDone(w)
  BY <1>11 DEF CloseWorkerDone, Covers, Basics, TypeOK, queueVars, prodVars
<1> QED
  BY <1>1, <1>2, <1>4, <1>5, <1>6, <1>7, <1>8, <1>9, <1>10, <1>11 DEF Worker, GetQuit

LEMMA CoversRest ==
  ASSUME Basics, ~shuttingDown, NEW t \in Nat, t <= clock, Covers(t),
         \/ \E e \in waiting : Due(e)
         \/ ShutdownReturns \/ CloseStopCh \/ Tick
         \/ UNCHANGED vars
  PROVE  Covers(t)'
<1>1. ASSUME NEW e \in waiting, Due(e) PROVE Covers(t)'
  <2>1. e \in Elements
    BY DEF Basics, TypeOK
  <2>2. /\ dirty \subseteq dirty' /\ e \in dirty'
        /\ \A i \in 1..Len(queue) : i \in 1..Len(queue') /\ queue'[i] = queue[i]
        /\ \A f \in dirty' : f \in processing \/ \E i \in 1..Len(queue') : queue'[i] = f
    BY <1>1, <2>1, AddElementEffect DEF Due, Basics
  <2>3. e \in dirty' \cap processing' \/ \E i \in 1..Len(queue') : queue'[i] = e
    BY <1>1, <2>2 DEF Due
  <2>4. CASE Fresh(e, t)
    BY <2>3, <2>4 DEF Covers, Fresh
  <2>5. CASE ~Fresh(e, t)
    BY <1>1, <2>2, <2>5 DEF Due, Covers, Fresh, prodVars, workVars
  <2> QED
    BY <2>4, <2>5
<1>2. CASE ShutdownReturns
  BY <1>2 DEF ShutdownReturns, Covers, Fresh, queueVars, prodVars, workVars
<1>3. CASE CloseStopCh
  BY <1>3 DEF CloseStopCh, Covers, Fresh, queueVars, prodVars, workVars
<1>4. CASE Tick
  BY <1>4 DEF Tick, Covers, Fresh, queueVars, prodVars, workVars
<1>5. CASE UNCHANGED vars
  BY <1>5 DEF vars, Covers, Fresh, queueVars, prodVars, workVars
<1> QED
  BY <1>1, <1>2, <1>3, <1>4, <1>5

\* A call of enqueue is its own cover until it has added its element.
LEMMA CoversCall ==
  ASSUME Basics, NEW p \in Producers, NEW key \in Keys, NEW kind \in Kinds,
         Call(p, key, kind), NEW t
  PROVE  Covers(t)'
<1>1. pkey'[p] # NoKey /\ ppc'[p] = "check"
  BY QueueAssumption DEF Call, Basics, TypeOK
<1> QED
  BY <1>1 DEF Covers

LEMMA CoversCallNoKey ==
  ASSUME Basics, NEW p \in Producers, NEW kind \in Kinds, Call(p, NoKey, kind),
         NEW t, Covers(t)
  PROVE  Covers(t)'
  BY DEF Call, Covers, Fresh, Basics, TypeOK, queueVars, workVars

\* A cover that holds out against a later lastSync holds out against an earlier
\* one (stated of the next state, where it is used).
LEMMA CoversEarlier ==
  ASSUME Basics', NEW t \in Nat, NEW u \in Nat, u <= t, Covers(t)'
  PROVE  Covers(u)'
<1>1. \A e \in Elements : Fresh(e, t) => Fresh(e, u)
  BY QueueAssumption DEF Fresh, Elements, Times
<1>2. \A i \in 1..Len(queue') : queue'[i] \in Elements
  BY ElementOfSeq DEF Basics, TypeOK
<1>3. \A w \in Workers : wpc'[w] \in {"stamp", "test"} => witem'[w] \in Elements
  BY DEF Basics, LocalsOK, Holding
<1>4. \A p \in Producers : pts'[p] >= t => pts'[p] >= u
  BY QueueAssumption DEF Basics, TypeOK, Times
<1>5. dirty' \subseteq Elements /\ waiting' \subseteq Elements
  BY DEF Basics, TypeOK
<1> QED
  BY <1>1, <1>2, <1>3, <1>4, <1>5 DEF Covers, Fresh

-----------------------------------------------------------------------------
(* The inductive invariant *)

\* NoLostRequest alone is not inductive: a sync in flight will move lastSync to
\* the time it was taken, so what it misses must be covered against that time.
IInv == Basics /\ NoLostRequest /\ SyncCovered

LEMMA IInvInit == Init => IInv
<1> SUFFICES ASSUME Init PROVE IInv
  OBVIOUS
<1>1. reqs = 0 /\ served = 0
  BY DEF Init
<1> QED
  BY <1>1, BasicsInit DEF IInv, NoLostRequest, SyncCovered

\* Steps that neither issue nor serve a request, nor begin or end a sync.
LEMMA IInvQuiet ==
  ASSUME IInv,
         UNCHANGED <<reqs, served, lastSync, shuttingDown>>,
         \A v \in Workers : wpc'[v] = "sync" =>
            wpc[v] = "sync" /\ wts'[v] = wts[v] /\ wstarted'[v] = wstarted[v],
         \A t \in Nat : t <= clock /\ ~shuttingDown /\ Covers(t) => Covers(t)'
  PROVE  NoLostRequest' /\ SyncCovered'
<1>1. lastSync \in Nat /\ lastSync <= clock
  BY QueueAssumption DEF IInv, Basics, TypeOK, TimesOK
<1>2. \A v \in Workers : wts[v] \in Nat /\ wts[v] <= clock
  BY QueueAssumption DEF IInv, Basics, TypeOK, TimesOK
<1>3. NoLostRequest'
  <2> SUFFICES ASSUME reqs > served, ~shuttingDown PROVE Covers(lastSync)'
    BY DEF NoLostRequest
  <2>1. Covers(lastSync)
    BY DEF IInv, NoLostRequest
  <2>2. PICK t \in Nat : t = lastSync
    BY <1>1
  <2>3. Covers(t)'
    BY <1>1, <2>1, <2>2
  <2> QED
    BY <2>2, <2>3 DEF Covers, Fresh
<1>4. SyncCovered'
  <2> SUFFICES ASSUME NEW v \in Workers, wpc'[v] = "sync", reqs > served,
                      reqs > wstarted[v], ~shuttingDown
               PROVE  Covers(wts[v])'
    BY DEF SyncCovered
  <2>1. Covers(wts[v])
    BY DEF IInv, SyncCovered
  <2>2. PICK t \in Nat : t = wts[v]
    BY <1>2
  <2>3. Covers(t)'
    BY <1>2, <2>1, <2>2
  <2> QED
    BY <2>2, <2>3 DEF Covers, Fresh
<1> QED
  BY <1>3, <1>4

LEMMA IInvCall ==
  ASSUME IInv, NEW p \in Producers, NEW key \in Keys \cup {NoKey}, NEW kind \in Kinds,
         Call(p, key, kind)
  PROVE  NoLostRequest' /\ SyncCovered'
<1> USE DEF IInv
<1>1. CASE key = NoKey
  <2>1. \A t \in Nat : Covers(t) => Covers(t)'
    BY <1>1, CoversCallNoKey
  <2> QED
    BY <1>1, <2>1, IInvQuiet DEF Call, workVars
<1>2. CASE key \in Keys
  <2>1. \A t \in Nat : Covers(t)'
    BY <1>2, CoversCall
  <2>2. lastSync' \in Nat /\ \A v \in Workers : wts'[v] \in Nat
    BY QueueAssumption DEF Call, Basics, TypeOK, workVars
  <2>3. PICK t \in Nat : t = lastSync'
    BY <2>2
  <2>4. Covers(lastSync)'
    BY <2>1, <2>3 DEF Covers, Fresh
  <2>5. ASSUME NEW v \in Workers PROVE Covers(wts[v])'
    <3>1. PICK u \in Nat : u = wts'[v]
      BY <2>2
    <3> QED
      BY <2>1, <3>1 DEF Covers, Fresh
  <2> QED
    BY <2>4, <2>5 DEF NoLostRequest, SyncCovered
<1> QED
  BY <1>1, <1>2

LEMMA IInvEnqueue ==
  ASSUME IInv, NEW p \in Producers, Enqueue(p)
  PROVE  NoLostRequest' /\ SyncCovered'
<1>1. \A t \in Nat : t <= clock /\ ~shuttingDown /\ Covers(t) => Covers(t)'
  BY CoversEnqueue DEF IInv
<1>2. UNCHANGED <<reqs, served, lastSync, shuttingDown, wpc, wts, wstarted>>
  BY DEF Enqueue, CheckShuttingDown, StampElement, AddToQueue, workVars
<1> QED
  BY <1>1, <1>2, IInvQuiet

LEMMA IInvSkip ==
  ASSUME IInv, NEW w \in Workers, Skip(w)
  PROVE  NoLostRequest' /\ SyncCovered'
<1> USE QueueAssumption
<1>1. /\ lastSync \in Nat /\ lastSync <= clock
      /\ \A v \in Workers : wts[v] \in Nat /\ wts[v] <= clock
  BY DEF IInv, Basics, TypeOK, TimesOK
<1>2. witem[w] \in Elements /\ witem[w].ts \in Nat /\ witem[w].ts < lastSync
      /\ witem[w].ts # 0
  BY DEF IInv, Basics, LocalsOK, Holding, Skip, Skippable, Elements, Times, TypeOK
<1>3. Worker(w)
  BY DEF Worker
<1>4. Basics'
  BY <1>3, BasicsWorker DEF IInv
<1>5. UNCHANGED <<reqs, served, lastSync, shuttingDown, wts, wstarted>>
  BY DEF Skip
<1>6. PICK t \in Nat : t = lastSync
  BY <1>1
<1>7. ASSUME reqs > served, ~shuttingDown PROVE Covers(t)'
  <2>1. Covers(t)
    BY <1>6, <1>7 DEF IInv, NoLostRequest
  <2>2. ~Fresh(witem[w], t)
    BY <1>2, <1>6 DEF Fresh
  <2>3. ~SyncOK(w)
    BY DEF Skip, SyncOK
  <2> QED
    BY <1>1, <1>3, <1>6, <1>7, <2>1, <2>2, <2>3, CoversWorker DEF IInv
<1>8. NoLostRequest'
  BY <1>5, <1>6, <1>7 DEF NoLostRequest, Covers, Fresh
<1>9. ASSUME NEW v \in Workers, wpc[v] = "sync", reqs > served, reqs > wstarted[v],
             ~shuttingDown
      PROVE  Covers(wts[v])'
  <2>1. PICK u \in Nat : u = wts[v]
    BY <1>1
  <2>2. Covers(u)
    BY <1>9, <2>1 DEF IInv, SyncCovered
  <2>3. CASE Fresh(witem[w], u)
    <3>1. u <= t
      BY <1>2, <1>6, <2>3 DEF Fresh
    <3>2. Covers(u)'
      BY <1>4, <1>7, <1>9, <3>1, CoversEarlier
    <3> QED
      BY <1>5, <2>1, <3>2 DEF Covers, Fresh
  <2>4. CASE ~Fresh(witem[w], u)
    <3>1. ~SyncOK(w)
      BY DEF Skip, SyncOK
    <3>2. Covers(u)'
      BY <1>1, <1>3, <1>9, <2>1, <2>2, <2>4, <3>1, CoversWorker DEF IInv
    <3> QED
      BY <1>5, <2>1, <3>2 DEF Covers, Fresh
  <2> QED
    BY <2>3, <2>4
<1>10. \A v \in Workers : wpc'[v] = "sync" => wpc[v] = "sync"
  BY DEF Skip, IInv, Basics, TypeOK
<1> QED
  BY <1>5, <1>8, <1>9, <1>10 DEF SyncCovered

LEMMA IInvStartSync ==
  ASSUME IInv, NEW w \in Workers, StartSync(w)
  PROVE  NoLostRequest' /\ SyncCovered'
<1> USE QueueAssumption
<1>1. /\ lastSync \in Nat /\ lastSync <= clock
      /\ \A v \in Workers : wts[v] \in Nat /\ wts[v] <= clock
  BY DEF IInv, Basics, TypeOK, TimesOK
<1>2. Worker(w) /\ ~Skip(w) /\ ~SyncOK(w)
  BY DEF Worker, Skip, StartSync, SyncOK
<1>3. ASSUME NEW t \in Nat, t <= clock, ~shuttingDown, Covers(t) PROVE Covers(t)'
  BY <1>2, <1>3, CoversWorker DEF IInv
<1>4. /\ UNCHANGED <<reqs, served, lastSync, shuttingDown, wts>>
      /\ wstarted'[w] = reqs
      /\ \A v \in Workers \ {w} : wstarted'[v] = wstarted[v] /\ wpc'[v] = wpc[v]
  BY DEF StartSync, IInv, Basics, TypeOK
<1>5. NoLostRequest'
  <2> SUFFICES ASSUME reqs > served, ~shuttingDown PROVE Covers(lastSync)'
    BY <1>4 DEF NoLostRequest
  <2>1. PICK t \in Nat : t = lastSync
    BY <1>1
  <2>2. Covers(t)'
    BY <1>1, <1>3, <2>1 DEF IInv, NoLostRequest
  <2> QED
    BY <1>4, <2>1, <2>2 DEF Covers, Fresh
<1>6. SyncCovered'
  <2> SUFFICES ASSUME NEW v \in Workers, wpc'[v] = "sync", reqs > served,
                      reqs > wstarted'[v], ~shuttingDown
               PROVE  Covers(wts[v])'
    BY <1>4 DEF SyncCovered
  <2>1. v # w
    BY <1>4 DEF IInv, Basics, TypeOK
  <2>2. PICK u \in Nat : u = wts[v]
    BY <1>1
  <2>3. Covers(u)
    BY <1>4, <2>1, <2>2 DEF IInv, SyncCovered
  <2>4. Covers(u)'
    BY <1>1, <1>3, <2>2, <2>3
  <2> QED
    BY <1>4, <2>2, <2>4 DEF Covers, Fresh
<1> QED
  BY <1>5, <1>6

LEMMA IInvSyncOK ==
  ASSUME IInv, NEW w \in Workers, SyncOK(w)
  PROVE  NoLostRequest' /\ SyncCovered'
<1> USE QueueAssumption
<1>1. \A v \in Workers : wts[v] \in Nat /\ wts[v] <= clock
  BY DEF IInv, Basics, TypeOK, TimesOK
<1>2. /\ UNCHANGED <<reqs, shuttingDown, wts, wstarted>>
      /\ lastSync' = wts[w]
      /\ wpc[w] = "sync"
      /\ \A v \in Workers : wpc'[v] = "sync" => wpc[v] = "sync"
  BY DEF SyncOK, IInv, Basics, TypeOK
<1>3. reqs > served' => reqs > served /\ reqs > wstarted[w]
  BY DEF SyncOK, IInv, Basics, TypeOK
<1>4. ASSUME NEW v \in Workers, wpc[v] = "sync", reqs > served', reqs > wstarted[v],
             ~shuttingDown
      PROVE  Covers(wts[v])'
  <2>1. PICK u \in Nat : u = wts[v]
    BY <1>1
  <2>2. Covers(u)
    BY <1>3, <1>4, <2>1 DEF IInv, SyncCovered
  <2>3. Worker(w) /\ ~Skip(w) /\ wstarted[w] # reqs
    BY <1>3, <1>4 DEF Worker, Skip, SyncOK, IInv, Basics, TypeOK
  <2>4. Covers(u)'
    BY <1>1, <1>4, <2>1, <2>2, <2>3, CoversWorker DEF IInv
  <2> QED
    BY <1>2, <2>1, <2>4 DEF Covers, Fresh
<1>5. SyncCovered'
  BY <1>2, <1>4 DEF SyncCovered
<1>6. NoLostRequest'
  <2> SUFFICES ASSUME reqs > served', ~shuttingDown PROVE Covers(lastSync)'
    BY <1>2 DEF NoLostRequest
  <2>1. Covers(wts[w])'
    BY <1>2, <1>3, <1>4
  <2> QED
    BY <1>2, <2>1 DEF Covers, Fresh
<1> QED
  BY <1>5, <1>6

LEMMA IInvWorker ==
  ASSUME IInv, NEW w \in Workers, Worker(w)
  PROVE  NoLostRequest' /\ SyncCovered'
<1>1. CASE Skip(w)
  BY <1>1, IInvSkip
<1>2. CASE StartSync(w)
  BY <1>2, IInvStartSync
<1>3. CASE SyncOK(w)
  BY <1>3, IInvSyncOK
<1>4. CASE ~Skip(w) /\ ~StartSync(w) /\ ~SyncOK(w)
  <2>1. \A t \in Nat : t <= clock /\ ~shuttingDown /\ Covers(t) => Covers(t)'
    BY <1>4, CoversWorker DEF IInv
  <2>2. UNCHANGED <<reqs, served, lastSync, shuttingDown>>
    BY <1>4 DEF Worker, RunWorker, Get, GetQuit, StampSync, SyncFail, Done, TestWorkerDone,
       CloseWorkerDone
  <2>3. \A v \in Workers : wpc'[v] = "sync" =>
            wpc[v] = "sync" /\ wts'[v] = wts[v] /\ wstarted'[v] = wstarted[v]
    BY <1>4 DEF Worker, RunWorker, Get, GetQuit, StampSync, SyncFail, Done, NextRound,
       TestWorkerDone, CloseWorkerDone, IInv, Basics, TypeOK
  <2> QED
    BY <2>1, <2>2, <2>3, IInvQuiet
<1> QED
  BY <1>1, <1>2, <1>3, <1>4

LEMMA IInvRest ==
  ASSUME IInv,
         \/ \E e \in waiting : Due(e)
         \/ Shutdown \/ ShutdownReturns \/ CloseStopCh \/ Tick
         \/ UNCHANGED vars
  PROVE  NoLostRequest' /\ SyncCovered'
<1>1. CASE Shutdown
  BY <1>1 DEF Shutdown, NoLostRequest, SyncCovered
<1>2. CASE ~Shutdown
  <2>1. \A t \in Nat : t <= clock /\ ~shuttingDown /\ Covers(t) => Covers(t)'
    BY <1>2, CoversRest DEF IInv
  <2>2. UNCHANGED <<reqs, served, lastSync, shuttingDown, wpc, wts, wstarted>>
    BY <1>2 DEF Due, ShutdownReturns, CloseStopCh, Tick, vars, workVars
  <2> QED
    BY <2>1, <2>2, IInvQuiet
<1> QED
  BY <1>1, <1>2

LEMMA IInvNext == IInv /\ [Next]_vars => IInv'
<1> SUFFICES ASSUME IInv, [Next]_vars PROVE IInv'
  OBVIOUS
<1>1. Basics'
  BY BasicsNext DEF IInv
<1>2. NoLostRequest' /\ SyncCovered'
  BY IInvCall, IInvEnqueue, IInvWorker, IInvRest DEF Next
<1> QED
  BY <1>1, <1>2 DEF IInv

\* No change is lost between enqueue, the merging of equal elements, the skipping
\* of elements older than lastSync and the retry after an error: whatever the
\* number of producers and workers, a request that is not served yet has a sync
\* that will see it on its way until the queue shuts down.
THEOREM NoRequestLost == Safety => []NoLostRequest
<1>1. Init => IInv
  BY IInvInit
<1>2. IInv /\ [Next]_vars => IInv'
  BY IInvNext
<1>3. IInv => NoLostRequest
  BY DEF IInv
<1> QED
  BY <1>1, <1>2, <1>3, PTL DEF Safety

-----------------------------------------------------------------------------
(* The queue implements SyncRequests (safety part) *)

Began == [w \in Workers |-> IF wpc[w] = "sync" THEN wstarted[w] ELSE -1]

LEMMA RequestsStep ==
  ASSUME Basics, [Next]_vars
  PROVE  [Requests!ReqNext]_(Requests!reqVars)
<1> USE QueueAssumption DEF Requests!ReqNext, Requests!reqVars
<1>1. ASSUME NEW p \in Producers, NEW key \in Keys \cup {NoKey}, NEW kind \in Kinds,
             Call(p, key, kind)
      PROVE  Requests!Request \/ UNCHANGED Requests!reqVars
  BY <1>1 DEF Call, Requests!Request, workVars, endVars
<1>2. ASSUME NEW p \in Producers, Enqueue(p) PROVE UNCHANGED Requests!reqVars
  BY <1>2 DEF Enqueue, CheckShuttingDown, StampElement, AddToQueue, workVars, endVars
<1>3. ASSUME NEW w \in Workers, Worker(w)
      PROVE  \/ Requests!Begin(w) \/ Requests!Succeed(w) \/ Requests!Fail(w)
             \/ UNCHANGED Requests!reqVars
  <2>1. CASE StartSync(w)
    BY <2>1 DEF StartSync, Requests!Begin, Requests!Idle, Basics, TypeOK, endVars
  <2>2. CASE SyncOK(w)
    <3>1. Began[w] = wstarted[w] /\ Began[w] # -1
      BY <2>2 DEF SyncOK, Began, Basics, TypeOK
    <3>2. Began' = [Began EXCEPT ![w] = -1]
      BY <2>2 DEF SyncOK, Began, Basics, TypeOK
    <3>3. /\ served' = IF wstarted[w] > served THEN wstarted[w] ELSE served
          /\ UNCHANGED <<reqs, shuttingDown, stopCh>>
      BY <2>2 DEF SyncOK, endVars
    <3> QED
      BY <3>1, <3>2, <3>3 DEF Began, Requests!Succeed, Requests!Idle
  <2>3. CASE SyncFail(w)
    BY <2>3 DEF SyncFail, Requests!Fail, Requests!Idle, Basics, TypeOK, endVars
  <2>4. CASE ~StartSync(w) /\ ~SyncOK(w) /\ ~SyncFail(w)
    <3>1. UNCHANGED <<reqs, served, shuttingDown, stopCh>>
      BY <1>3, <2>4 DEF Worker, RunWorker, Get, GetQuit, StampSync, Skip, Done,
         TestWorkerDone, CloseWorkerDone, endVars
    <3>2. Began' = Began
      BY <1>3, <2>4 DEF Began, Worker, RunWorker, Get, GetQuit, StampSync, Skip, Done,
         NextRound, TestWorkerDone, CloseWorkerDone, Basics, TypeOK
    <3> QED
      BY <3>1, <3>2 DEF Began
  <2> QED
    BY <2>1, <2>2, <2>3, <2>4
<1>4. ASSUME \/ \E e \in waiting : Due(e)
             \/ Shutdown \/ ShutdownReturns \/ CloseStopCh \/ Tick
             \/ UNCHANGED vars
      PROVE  Requests!ShutDown \/ UNCHANGED Requests!reqVars
  <2>1. CASE Shutdown
    BY <2>1 DEF Shutdown, Requests!ShutDown, workVars, Basics, TypeOK
  <2>2. CASE CloseStopCh
    BY <2>2 DEF CloseStopCh, Requests!ShutDown, workVars, Basics, TypeOK
  <2>3. CASE ~Shutdown /\ ~CloseStopCh
    BY <1>4, <2>3 DEF Due, ShutdownReturns, Tick, vars, workVars, endVars
  <2> QED
    BY <2>1, <2>2, <2>3
<1> QED
  BY <1>1, <1>2, <1>3, <1>4 DEF Next

\* Every step of the queue is a step of SyncRequests or changes nothing there: a
\* request counts as served only by a sync that began after it and returned nil.
THEOREM RefinesRequests ==
  Safety => Requests!ReqInit /\ [][Requests!ReqNext]_(Requests!reqVars)
<1>1. Init => Basics /\ Requests!ReqInit
  BY BasicsInit DEF Init, Requests!ReqInit, Requests!Idle
<1>2. Basics /\ [Next]_vars => Basics'
  BY BasicsNext
<1>3. Basics /\ [Next]_vars => [Requests!ReqNext]_(Requests!reqVars)
  BY RequestsStep
<1> QED
  BY <1>1, <1>2, <1>3, PTL DEF Safety

-----------------------------------------------------------------------------
(* One holder of an element *)

\* The workqueue's own order between queue, dirty and processing.
QueueOK ==
  /\ \A i, j \in 1..Len(queue) : i # j => queue[i] # queue[j]
  /\ \A i \in 1..Len(queue) : queue[i] \in dirty \ processing
  /\ \A w \in Workers : wpc[w] \in Holding => witem[w] \in processing

HolderInv == Basics /\ QueueOK /\ OneHolder

\* Appending an element that is not queued keeps the queue without repetitions.
LEMMA AppendDistinct ==
  ASSUME NEW S, NEW q \in Seq(S), NEW e \in S, NEW D,
         \A i, j \in 1..Len(q) : i # j => q[i] # q[j],
         \A i \in 1..Len(q) : q[i] # e,
         \A i \in 1..Len(q) : q[i] \in D,
         e \in D
  PROVE  /\ \A i, j \in 1..Len(Append(q, e)) : i # j => Append(q, e)[i] # Append(q, e)[j]
         /\ \A i \in 1..Len(Append(q, e)) : Append(q, e)[i] \in D
<1> DEFINE a == Append(q, e)
<1>1. /\ Len(a) = Len(q) + 1 /\ a[Len(q) + 1] = e
      /\ \A i \in 1..Len(q) : a[i] = q[i]
  BY AppendProperties
<1>2. Len(q) \in Nat
  BY LenProperties
<1> HIDE DEF a
<1>3. \A i \in 1..Len(a) : i \in 1..Len(q) \/ i = Len(q) + 1
  BY <1>1, <1>2
<1>4. /\ \A i, j \in 1..Len(a) : i # j => a[i] # a[j]
      /\ \A i \in 1..Len(a) : a[i] \in D
  BY <1>1, <1>3
<1> QED
  BY <1>4 DEF a

\* Add, called by enqueue and by the delaying queue.
LEMMA QueueOKAdd ==
  ASSUME HolderInv, NEW e \in Elements, AddElement(e), UNCHANGED <<processing, wpc, witem>>
  PROVE  QueueOK' /\ OneHolder'
<1>1. OneHolder'
  BY DEF HolderInv, OneHolder
<1>2. CASE shuttingDown \/ e \in dirty
  BY <1>2, <1>1 DEF AddElement, HolderInv, QueueOK
<1>3. CASE ~(shuttingDown \/ e \in dirty) /\ e \in processing
  BY <1>3, <1>1 DEF AddElement, HolderInv, QueueOK
<1>4. CASE ~(shuttingDown \/ e \in dirty) /\ e \notin processing
  <2>1. queue' = Append(queue, e) /\ dirty' = dirty \cup {e}
    BY <1>4 DEF AddElement
  <2>2. queue \in Seq(Elements)
    BY DEF HolderInv, Basics, TypeOK
  <2>3. /\ \A i, j \in 1..Len(queue) : i # j => queue[i] # queue[j]
        /\ \A i \in 1..Len(queue) : queue[i] # e /\ queue[i] \in dirty' \ processing
        /\ e \in dirty' \ processing
    BY <1>4, <2>1 DEF HolderInv, QueueOK
  <2>4. /\ \A i, j \in 1..Len(queue') : i # j => queue'[i] # queue'[j]
        /\ \A i \in 1..Len(queue') : queue'[i] \in dirty' \ processing
    BY <2>1, <2>2, <2>3, AppendDistinct
  <2> QED
    BY <1>1, <2>4 DEF HolderInv, QueueOK
<1> QED
  BY <1>2, <1>3, <1>4

LEMMA QueueOKGet ==
  ASSUME HolderInv, NEW w \in Workers, Get(w)
  PROVE  QueueOK' /\ OneHolder'
<1>1. queue \in Seq(Elements) /\ queue # <<>> /\ Len(queue) \in Nat
  BY LenProperties DEF Get, HolderInv, Basics, TypeOK
<1>2. /\ Len(Tail(queue)) = Len(queue) - 1 /\ Head(queue) = queue[1]
      /\ \A i \in 1..Len(Tail(queue)) : Tail(queue)[i] = queue[i + 1]
  BY <1>1, HeadTailProperties
<1>3. Len(queue) # 0
  BY <1>1, EmptySeq
<1> DEFINE h == Head(queue)
<1>4. /\ queue' = Tail(queue) /\ dirty' = dirty \ {h} /\ processing' = processing \cup {h}
      /\ witem' = [witem EXCEPT ![w] = h] /\ wpc' = [wpc EXCEPT ![w] = "stamp"]
  BY DEF Get
<1>5. h \notin processing /\ \A i \in 2..Len(queue) : queue[i] # h
  BY <1>1, <1>2, <1>3 DEF HolderInv, QueueOK
<1>6. \A i \in 1..Len(queue') :
        /\ i + 1 \in 2..Len(queue) /\ i + 1 \in 1..Len(queue)
        /\ queue'[i] = queue[i + 1]
  BY <1>1, <1>2, <1>4
<1> HIDE DEF h
<1>7. \A i, j \in 1..Len(queue') : i # j => queue'[i] # queue'[j]
  BY <1>6 DEF HolderInv, QueueOK
<1>8. \A i \in 1..Len(queue') : queue'[i] \in dirty' \ processing'
  BY <1>4, <1>5, <1>6 DEF HolderInv, QueueOK
<1>9. \A v \in Workers : wpc'[v] \in Holding => witem'[v] \in processing'
  BY <1>4 DEF HolderInv, QueueOK, Basics, TypeOK
<1>10. OneHolder'
  <2> SUFFICES ASSUME NEW u \in Workers, NEW v \in Workers, u # v,
                      wpc'[u] \in Holding, wpc'[v] \in Holding
               PROVE  witem'[u] # witem'[v]
    BY DEF OneHolder
  <2>1. CASE u # w /\ v # w
    BY <1>4, <2>1 DEF HolderInv, OneHolder, Basics, TypeOK
  <2>2. CASE u = w \/ v = w
    BY <1>4, <1>5, <2>2 DEF HolderInv, QueueOK, Basics, TypeOK
  <2> QED
    BY <2>1, <2>2
<1> QED
  BY <1>7, <1>8, <1>9, <1>10 DEF QueueOK

LEMMA QueueOKDone ==
  ASSUME HolderInv, NEW w \in Workers, Done(w)
  PROVE  QueueOK' /\ OneHolder'
<1> DEFINE e == witem[w]
<1>1. queue \in Seq(Elements) /\ e \in Elements /\ wpc[w] \in Holding /\ e \in processing
  BY DEF Done, HolderInv, QueueOK, Basics, TypeOK, LocalsOK, Holding
<1>2. /\ processing' = processing \ {e} /\ UNCHANGED dirty
      /\ queue' = IF e \in dirty THEN Append(queue, e) ELSE queue
      /\ wpc' = [wpc EXCEPT ![w] = "get"] /\ witem' = [witem EXCEPT ![w] = NoItem]
  BY DEF Done, NextRound
<1> HIDE DEF e
<1>3. \A i \in 1..Len(queue) : queue[i] # e /\ queue[i] \in dirty \ processing'
  BY <1>1, <1>2 DEF HolderInv, QueueOK
<1>4. /\ \A i, j \in 1..Len(queue') : i # j => queue'[i] # queue'[j]
      /\ \A i \in 1..Len(queue') : queue'[i] \in dirty' \ processing'
  <2>1. CASE e \in dirty
    BY <1>1, <1>2, <1>3, <2>1, AppendDistinct DEF HolderInv, QueueOK
  <2>2. CASE e \notin dirty
    BY <1>2, <1>3, <2>2 DEF HolderInv, QueueOK
  <2> QED
    BY <2>1, <2>2
<1>5. ASSUME NEW v \in Workers, wpc'[v] \in Holding
      PROVE  /\ v # w /\ wpc[v] \in Holding /\ witem'[v] = witem[v] /\ witem[v] # e
             /\ witem[v] \in processing
  <2>1. v # w
    BY <1>2, <1>5 DEF HolderInv, Basics, TypeOK, Holding
  <2>2. wpc[v] \in Holding /\ witem'[v] = witem[v]
    BY <1>2, <1>5, <2>1 DEF HolderInv, Basics, TypeOK
  <2> QED
    BY <1>1, <2>1, <2>2 DEF e, HolderInv, QueueOK, OneHolder
<1>6. OneHolder' /\ \A v \in Workers : wpc'[v] \in Holding => witem'[v] \in processing'
  BY <1>2, <1>5 DEF HolderInv, OneHolder
<1> QED
  BY <1>4, <1>6 DEF QueueOK

LEMMA HolderInvNext == HolderInv /\ [Next]_vars => HolderInv'
<1> SUFFICES ASSUME HolderInv, [Next]_vars PROVE QueueOK' /\ OneHolder'
  BY BasicsNext DEF HolderInv
<1>1. ASSUME UNCHANGED <<queueVars, wpc, witem>> PROVE QueueOK' /\ OneHolder'
  BY <1>1 DEF HolderInv, QueueOK, OneHolder, queueVars
<1>2. ASSUME NEW p \in Producers, Enqueue(p) PROVE QueueOK' /\ OneHolder'
  <2>1. CASE AddToQueue(p)
    <3>1. [key |-> pkey[p], ts |-> pts[p]] \in Elements
      BY <2>1 DEF AddToQueue, HolderInv, Basics, TypeOK, LocalsOK, Elements
    <3> QED
      BY <2>1, <3>1, QueueOKAdd DEF AddToQueue, workVars
  <2>2. CASE CheckShuttingDown(p) \/ StampElement(p)
    BY <2>2, <1>1 DEF CheckShuttingDown, StampElement, workVars
  <2> QED
    BY <1>2, <2>1, <2>2 DEF Enqueue
<1>3. ASSUME NEW e \in waiting, Due(e) PROVE QueueOK' /\ OneHolder'
  BY <1>3, QueueOKAdd DEF Due, workVars, HolderInv, Basics, TypeOK
<1>4. ASSUME NEW w \in Workers, Worker(w) PROVE QueueOK' /\ OneHolder'
  <2>1. CASE Get(w) \/ Done(w)
    BY <2>1, QueueOKGet, QueueOKDone
  <2>2. CASE ~(Get(w) \/ Done(w))
    <3>1. /\ UNCHANGED <<queueVars, witem>>
          /\ \A v \in Workers : wpc'[v] \in Holding => wpc[v] \in Holding
      BY <1>4, <2>2 DEF Worker, RunWorker, GetQuit, StampSync, Skip, StartSync, SyncOK, SyncFail,
         TestWorkerDone, CloseWorkerDone, HolderInv, Basics, TypeOK, Holding
    <3> QED
      BY <3>1 DEF HolderInv, QueueOK, OneHolder, queueVars
  <2> QED
    BY <2>1, <2>2
<1>5. CASE \E p \in Producers, key \in Keys \cup {NoKey}, kind \in Kinds : Call(p, key, kind)
  BY <1>1, <1>5 DEF Call, workVars
<1>6. CASE Shutdown \/ ShutdownReturns \/ CloseStopCh \/ Tick \/ UNCHANGED vars
  BY <1>1, <1>6 DEF Shutdown, ShutdownReturns, CloseStopCh, Tick, vars, workVars
<1> QED
  BY <1>2, <1>3, <1>4, <1>5, <1>6 DEF Next

\* The workqueue never lets two workers hold one element, although an element that
\* becomes dirty while it is processed is queued again: with the further workers that
\* the status queue gets, no element is synced by two of them at the same time.
THEOREM ElementsHeldOnce == Safety => []OneHolder
<1>1. Init => HolderInv
  <2> SUFFICES ASSUME Init PROVE HolderInv
    OBVIOUS
  <2>1. Len(queue) = 0 /\ \A w \in Workers : wpc[w] \notin Holding
    BY EmptySeq DEF Init, Holding
  <2> QED
    BY <2>1, BasicsInit DEF HolderInv, QueueOK, OneHolder
<1>2. HolderInv => OneHolder
  BY DEF HolderInv
<1> QED
  BY <1>1, <1>2, HolderInvNext, PTL DEF Safety

-----------------------------------------------------------------------------
(* workerDone is closed once *)

\* A worker that found workerDone open still finds it open when it closes it.
CloseOK == ~panicked /\ \A w \in Workers : wpc[w] = "close" => ~workerDone

\* With one worker, the one the controller's queue has, workerDone is closed at
\* most once although wait.Until calls worker again each period.  With two, the
\* test and the close can interleave: the hypothesis is needed.
THEOREM ClosesOnce ==
  ASSUME \A v, w \in Workers : v = w
  PROVE  Safety => []NoDoubleClose
<1>1. Init => Basics /\ CloseOK
  BY BasicsInit DEF Init, CloseOK
<1>2. Basics /\ CloseOK /\ [Next]_vars => Basics' /\ CloseOK'
  <2> SUFFICES ASSUME Basics, CloseOK, [Next]_vars PROVE CloseOK'
    BY BasicsNext
  <2>1. ASSUME NEW w \in Workers, Worker(w) PROVE CloseOK'
    <3>1. CASE CloseWorkerDone(w)
      BY <3>1 DEF CloseWorkerDone, CloseOK, Basics, TypeOK
    <3>2. CASE TestWorkerDone(w)
      BY <3>2 DEF TestWorkerDone, CloseOK, Basics, TypeOK, endVars
    <3>3. CASE ~(CloseWorkerDone(w) \/ TestWorkerDone(w))
      BY <2>1, <3>3 DEF Worker, RunWorker, Get, GetQuit, StampSync, Skip, StartSync, SyncOK,
         SyncFail, Done, NextRound, CloseOK, Basics, TypeOK, endVars
    <3> QED
      BY <3>1, <3>2, <3>3
  <2>2. CASE ~\E w \in Workers : Worker(w)
    <3>1. UNCHANGED <<wpc, workerDone, panicked>>
      <4>1. CASE \E p \in Producers, key \in Keys \cup {NoKey}, kind \in Kinds :
                   Call(p, key, kind)
        BY <4>1 DEF Call, workVars, endVars
      <4>2. CASE \E p \in Producers : Enqueue(p)
        BY <4>2 DEF Enqueue, CheckShuttingDown, StampElement, AddToQueue, workVars, endVars
      <4>3. CASE \E e \in waiting : Due(e)
        BY <4>3 DEF Due, workVars, endVars
      <4>4. CASE Shutdown \/ ShutdownReturns \/ CloseStopCh \/ Tick \/ UNCHANGED vars
        BY <4>4 DEF Shutdown, ShutdownReturns, CloseStopCh, Tick, vars, workVars, endVars
      <4> QED
        BY <2>2, <4>1, <4>2, <4>3, <4>4 DEF Next
    <3> QED
      BY <3>1 DEF CloseOK
  <2> QED
    BY <2>1, <2>2
<1>3. CloseOK => NoDoubleClose
  BY DEF CloseOK, NoDoubleClose
<1> QED
  BY <1>1, <1>2, <1>3, PTL DEF Safety
=============================================================================
