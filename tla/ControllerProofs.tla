-------------------------- MODULE ControllerProofs --------------------------
(***************************************************************************)
(* Proofs about Controller, for every choice of parts, values, channel     *)
(* size, retries and bounds.                                               *)
(***************************************************************************)
EXTENDS Controller, TLAPS

Applying == {"compare", "update", "backends", "streams", "certs"}

\* The request a sync serves, and what it has read, match its place in the code.
SyncOK ==
  /\ pending + watching <= changes
  /\ served <= reqs
  /\ pc = "idle" <=> started[SyncWorker] = Idle
  /\ pc # "idle" => served <= started[SyncWorker] /\ started[SyncWorker] <= reqs
  /\ pc \in {"idle", "begin"} => \A x \in Parts : pcfg[x] = Unread
  /\ pc \in Applying => \A x \in Parts : pcfg[x] \in Values
  /\ down => stopping

\* A part that changed after the sync at work has read it is reported by a later
\* event or request.
ReadOK ==
  ~stopping /\ pc # "idle" =>
    \A x \in Parts :
      pcfg[x] \notin {Unread, store[x]} =>
        pending > 0 \/ watching > 0 \/ ring > 0 \/ reqs > started[SyncWorker]

CInv == TypeOK /\ SyncOK /\ ReadOK /\ NoLostUpdate

LEMMA CInvInit == Init => CInv
<1> SUFFICES ASSUME Init PROVE CInv
  OBVIOUS
<1> USE ControllerAssumption, MaxRequestsAssumption
<1>1. ReqTypeOK
  <2>1. started \in [Workers -> {Idle} \cup 0..MaxRequests]
    BY DEF Init, ReqInit
  <2>2. down \in BOOLEAN
    BY DEF Init, ReqInit
  <2> QED
    BY <2>1, <2>2 DEF Init, ReqInit, ReqTypeOK
<1>2. TypeOK
  <2>1. stopping \in BOOLEAN
    BY DEF Init
  <2>2. /\ store \in [Parts -> Values] /\ pcfg \in [Parts -> Values \cup {Unread}]
        /\ running \in [Parts -> Values \cup {Empty}]
        /\ nginx \in [Parts -> Values \cup {Empty}]
    BY DEF Init
  <2>3. /\ pending \in 0..MaxChanges /\ watching \in 0..MaxChanges /\ ring \in 0..RingSize
        /\ attempts \in 0..(Retries + 1)
        /\ changes \in 0..MaxChanges /\ failures \in 0..MaxFailures
    BY DEF Init
  <2>4. loop \in {"boot", "select", "returned"} /\ pc \in PCs
    BY DEF Init, PCs
  <2> QED
    BY <1>1, <2>1, <2>2, <2>3, <2>4 DEF TypeOK
<1>3. SyncOK /\ ReadOK /\ NoLostUpdate
  BY DEF Init, ReqInit, SyncOK, ReadOK, NoLostUpdate, Working, OnItsWay, Applying, Idle
<1> QED
  BY <1>2, <1>3 DEF CInv

-----------------------------------------------------------------------------
(* Types *)

\* The four ways in which the controller uses the queue.
LEMMA QueueTypes ==
  ASSUME TypeOK,
         \/ Request \/ Begin(SyncWorker) \/ Succeed(SyncWorker) \/ Fail(SyncWorker)
         \/ ShutDown \/ UNCHANGED reqVars
  PROVE  ReqTypeOK'
<1> USE ControllerAssumption, MaxRequestsAssumption DEF TypeOK, ReqTypeOK
<1>1. CASE Request
  BY <1>1 DEF Request
<1>2. CASE Begin(SyncWorker)
  BY <1>2 DEF Begin
<1>3. CASE Succeed(SyncWorker)
  BY <1>3 DEF Succeed, Idle
<1>4. CASE Fail(SyncWorker)
  BY <1>4 DEF Fail
<1>5. CASE ShutDown
  BY <1>5 DEF ShutDown
<1>6. CASE UNCHANGED reqVars
  BY <1>6 DEF reqVars
<1> QED
  BY <1>1, <1>2, <1>3, <1>4, <1>5, <1>6

LEMMA TypeEnvironment ==
  ASSUME TypeOK, SyncOK,
         \/ \E x \in Parts, v \in Values : Change(x, v)
         \/ Notify \/ NotifyFile \/ Boot \/ TakeEvent
         \/ Stopping \/ Stop \/ LoopReturns \/ MasterExits \/ UNCHANGED vars
  PROVE  TypeOK'
<1> USE ControllerAssumption
<1>1. ASSUME NEW x \in Parts, NEW v \in Values, Change(x, v) PROVE TypeOK'
  <2>1. pending' \in 0..MaxChanges /\ watching' \in 0..MaxChanges
    BY <1>1 DEF Change, TypeOK, SyncOK
  <2> QED
    BY <1>1, <2>1, QueueTypes DEF Change, TypeOK, syncVars
<1>2. CASE Notify
  BY <1>2, QueueTypes DEF Notify, TypeOK, syncVars
<1>3. CASE NotifyFile
  BY <1>3, QueueTypes DEF NotifyFile, TypeOK, syncVars
<1>4. CASE Boot
  BY <1>4, QueueTypes DEF Boot, TypeOK, syncVars
<1>5. CASE TakeEvent
  BY <1>5, QueueTypes DEF TakeEvent, TypeOK, syncVars
<1>6. CASE Stopping
  BY <1>6, QueueTypes DEF Stopping, TypeOK, syncVars
<1>7. CASE Stop
  BY <1>7, QueueTypes DEF Stop, TypeOK, syncVars
<1>8. CASE LoopReturns \/ MasterExits
  BY <1>8, QueueTypes DEF LoopReturns, MasterExits, TypeOK, syncVars
<1>9. CASE UNCHANGED vars
  BY <1>9, QueueTypes DEF vars, TypeOK, syncVars
<1> QED
  BY <1>1, <1>2, <1>3, <1>4, <1>5, <1>6, <1>7, <1>8, <1>9

LEMMA TypeSync ==
  ASSUME TypeOK, SyncOK, BeginSync \/ SyncStep
  PROVE  TypeOK'
<1> USE ControllerAssumption
<1>1. CASE BeginSync
  BY <1>1, QueueTypes DEF BeginSync, TypeOK, PCs
<1>2. CASE CheckShuttingDown
  BY <1>2, QueueTypes DEF CheckShuttingDown, ReturnNil, Leave, TypeOK, PCs
<1>3. ASSUME NEW x \in Parts, ReadPart(x) PROVE TypeOK'
  BY <1>3, QueueTypes DEF ReadPart, TypeOK, PCs
<1>4. CASE CompareConfiguration
  BY <1>4, QueueTypes DEF CompareConfiguration, ReturnNil, Leave, TypeOK, PCs
<1>5. CASE OnUpdate
  BY <1>5, QueueTypes DEF OnUpdate, TypeOK, SyncOK, Applying, PCs
<1>6. CASE OnUpdateFails
  BY <1>6, QueueTypes DEF OnUpdateFails, ReturnErr, Leave, TypeOK, SyncOK, Applying, PCs
<1>7. CASE ConfigureBackends
  <2>1. nginx' \in [Parts -> Values \cup {Empty}]
    BY <1>7 DEF ConfigureBackends, Applied, TypeOK, SyncOK, Applying
  <2> QED
    BY <1>7, <2>1, QueueTypes DEF ConfigureBackends, AttemptFails, ReturnErr, Leave,
       TypeOK, PCs
<1>8. CASE UpdateStreams
  <2>1. nginx' \in [Parts -> Values \cup {Empty}]
    BY <1>8 DEF UpdateStreams, Applied, TypeOK, SyncOK, Applying
  <2> QED
    BY <1>8, <2>1, QueueTypes DEF UpdateStreams, AttemptFails, ReturnErr, Leave,
       TypeOK, PCs
<1>9. CASE ConfigureCertificates
  <2>1. nginx' \in [Parts -> Values \cup {Empty}]
    BY <1>9 DEF ConfigureCertificates, Applied, TypeOK, SyncOK, Applying
  <2>2. running' \in [Parts -> Values \cup {Empty}]
    BY <1>9 DEF ConfigureCertificates, TypeOK, SyncOK, Applying
  <2> QED
    BY <1>9, <2>1, <2>2, QueueTypes DEF ConfigureCertificates, AttemptFails, ReturnNil,
       ReturnErr, Leave, TypeOK, PCs
<1> QED
  BY <1>1, <1>2, <1>3, <1>4, <1>5, <1>6, <1>7, <1>8, <1>9 DEF SyncStep

-----------------------------------------------------------------------------
(* No update is lost *)

LEMMA CInvEnvironment ==
  ASSUME CInv,
         \/ \E x \in Parts, v \in Values : Change(x, v)
         \/ Notify \/ NotifyFile \/ Boot \/ TakeEvent
         \/ Stopping \/ Stop \/ LoopReturns \/ MasterExits \/ UNCHANGED vars
  PROVE  SyncOK' /\ ReadOK' /\ NoLostUpdate'
<1> USE ControllerAssumption, MaxRequestsAssumption DEF CInv
<1>1. ASSUME NEW x \in Parts, NEW v \in Values, Change(x, v)
      PROVE  SyncOK' /\ ReadOK' /\ NoLostUpdate'
  <2>1. SyncOK'
    BY <1>1 DEF Change, SyncOK, TypeOK, reqVars, syncVars
  <2>2. pending' > 0 \/ watching' > 0
    BY <1>1 DEF Change, TypeOK
  <2> QED
    BY <1>1, <2>1, <2>2 DEF Change, ReadOK, NoLostUpdate, Working, OnItsWay
<1>2. CASE Notify
  <2>1. ring' > 0
    BY <1>2 DEF Notify, TypeOK
  <2> QED
    BY <1>2, <2>1 DEF Notify, SyncOK, ReadOK, NoLostUpdate, Working, OnItsWay, TypeOK, reqVars,
       syncVars
<1>3. CASE NotifyFile
  <2>1. CASE down
    BY <1>3, <2>1 DEF NotifyFile, SyncOK, ReadOK, NoLostUpdate, Working, TypeOK, reqVars, syncVars
  <2>2. CASE ~down
    BY <1>3, <2>2 DEF NotifyFile, Request, SyncOK, ReadOK, NoLostUpdate, Working, OnItsWay, TypeOK,
       ReqTypeOK, syncVars
  <2> QED
    BY <2>1, <2>2
<1>4. CASE Boot
  <2>1. CASE down
    BY <1>4, <2>1 DEF Boot, SyncOK, ReadOK, NoLostUpdate, Working, TypeOK, reqVars, syncVars
  <2>2. CASE ~down
    BY <1>4, <2>2 DEF Boot, Request, SyncOK, ReadOK, NoLostUpdate, Working, OnItsWay, TypeOK,
       ReqTypeOK, syncVars
  <2> QED
    BY <2>1, <2>2
<1>5. CASE TakeEvent
  <2>1. CASE stopping \/ down
    BY <1>5, <2>1 DEF TakeEvent, SyncOK, ReadOK, NoLostUpdate, Working, TypeOK, reqVars, syncVars
  <2>2. CASE ~(stopping \/ down)
    BY <1>5, <2>2 DEF TakeEvent, Request, SyncOK, ReadOK, NoLostUpdate, Working, OnItsWay, TypeOK,
       ReqTypeOK, syncVars
  <2> QED
    BY <2>1, <2>2
<1>6. CASE Stopping
  BY <1>6 DEF Stopping, SyncOK, ReadOK, NoLostUpdate, Working, reqVars, syncVars
<1>7. CASE Stop
  BY <1>7 DEF Stop, ShutDown, SyncOK, ReadOK, NoLostUpdate, Working, syncVars
<1>8. CASE LoopReturns \/ MasterExits
  BY <1>8 DEF LoopReturns, MasterExits, SyncOK, ReadOK, NoLostUpdate, Working, OnItsWay, reqVars, syncVars
<1>9. CASE UNCHANGED vars
  BY <1>9 DEF vars, SyncOK, ReadOK, NoLostUpdate, Working, OnItsWay, Equal, reqVars, syncVars
<1> QED
  BY <1>1, <1>2, <1>3, <1>4, <1>5, <1>6, <1>7, <1>8, <1>9

\* A sync that returns an error leaves its request unserved.
LEMMA CInvReturnErr ==
  ASSUME CInv, pc # "idle", ReturnErr,
         UNCHANGED <<store, pending, watching, ring, loop, stopping, running, changes>>
  PROVE  SyncOK' /\ ReadOK' /\ NoLostUpdate'
<1>1. started'[SyncWorker] = Idle /\ UNCHANGED <<reqs, served, down>>
  BY ControllerAssumption DEF ReturnErr, Fail, CInv, TypeOK, ReqTypeOK
<1> QED
  BY <1>1 DEF ReturnErr, Leave, CInv, SyncOK, ReadOK, NoLostUpdate, Working, OnItsWay, Equal, Applying

\* A sync that returns nil has recorded what it read, which is what the store
\* holds unless something is on its way.
LEMMA CInvReturnNil ==
  ASSUME CInv, pc # "idle", ReturnNil,
         UNCHANGED <<store, pending, watching, ring, loop, stopping, changes>>,
         \/ stopping
         \/ pc \in Applying /\ \A x \in Compared : running'[x] = pcfg[x]
  PROVE  SyncOK' /\ ReadOK' /\ NoLostUpdate'
<1> USE ControllerAssumption, MaxRequestsAssumption
<1>1. /\ started'[SyncWorker] = Idle /\ UNCHANGED <<reqs, down>>
      /\ served' = started[SyncWorker]
  BY DEF ReturnNil, Succeed, CInv, TypeOK, ReqTypeOK, SyncOK, Idle
<1>2. SyncOK' /\ ReadOK'
  BY <1>1 DEF ReturnNil, Leave, CInv, SyncOK, ReadOK, Applying
<1>3. NoLostUpdate'
  <2> SUFFICES ASSUME ~stopping, ~OnItsWay', NEW x \in Compared
               PROVE  running'[x] = store'[x]
    BY DEF NoLostUpdate, Working, Equal
  <2>1. ~(pending > 0) /\ ~(watching > 0) /\ ~(ring > 0) /\ ~(reqs > started[SyncWorker])
    BY <1>1 DEF OnItsWay
  <2>2. x \in Parts /\ pcfg[x] \in Values
    BY DEF Compared, Static, Dynamic, CInv, SyncOK
  <2>3. pcfg[x] = store[x]
    BY <2>1, <2>2 DEF CInv, ReadOK
  <2> QED
    BY <2>3
<1> QED
  BY <1>2, <1>3

\* Steps inside a sync that leave the recorded configuration alone.
LEMMA CInvInside ==
  ASSUME CInv, pc # "idle", pc' \notin {"idle", "begin"}, pc' \in Applying => pc \in Applying,
         UNCHANGED <<reqVars, store, pending, watching, ring, loop, stopping, pcfg, running,
                     changes>>
  PROVE  SyncOK' /\ ReadOK' /\ NoLostUpdate'
  BY DEF CInv, SyncOK, ReadOK, NoLostUpdate, Working, OnItsWay, Equal, Applying, reqVars

LEMMA CInvSync ==
  ASSUME CInv, BeginSync \/ SyncStep
  PROVE  SyncOK' /\ ReadOK' /\ NoLostUpdate'
<1> USE ControllerAssumption, MaxRequestsAssumption
<1>1. CASE BeginSync
  <2>1. started'[SyncWorker] = reqs /\ UNCHANGED <<reqs, served, down>>
    BY <1>1 DEF BeginSync, Begin, CInv, TypeOK, ReqTypeOK
  <2>2. SyncOK'
    BY <1>1, <2>1 DEF BeginSync, CInv, SyncOK, Applying, TypeOK, ReqTypeOK, Idle
  <2>3. ReadOK'
    BY <1>1, <2>1 DEF BeginSync, CInv, SyncOK, ReadOK
  <2>4. NoLostUpdate'
    BY <1>1, <2>1 DEF BeginSync, CInv, NoLostUpdate, Working, OnItsWay, Equal
  <2> QED
    BY <2>2, <2>3, <2>4
<1>2. CASE CheckShuttingDown
  <2>1. CASE down
    <3>1. stopping /\ pc # "idle" /\ ReturnNil
      BY <1>2, <2>1 DEF CheckShuttingDown, CInv, SyncOK
    <3> QED
      BY <1>2, <3>1, CInvReturnNil DEF CheckShuttingDown
  <2>2. CASE ~down
    <3>1. pc = "begin" /\ pc' = "read" /\ UNCHANGED <<pcfg, reqVars>>
      BY <1>2, <2>2 DEF CheckShuttingDown
    <3> QED
      BY <1>2, <3>1, CInvInside DEF CheckShuttingDown, Applying
  <2> QED
    BY <2>1, <2>2
<1>3. ASSUME NEW x \in Parts, ReadPart(x) PROVE SyncOK' /\ ReadOK' /\ NoLostUpdate'
  <2>1. SyncOK'
    BY <1>3 DEF ReadPart, CInv, SyncOK, TypeOK, Applying, reqVars
  <2> QED
    BY <1>3, <2>1 DEF ReadPart, CInv, ReadOK, NoLostUpdate, Working, OnItsWay, Equal, TypeOK, reqVars
<1>4. CASE CompareConfiguration
  <2>1. CASE Equal(running, pcfg)
    BY <1>4, <2>1, CInvReturnNil DEF CompareConfiguration, Equal, Applying
  <2>2. CASE ~Equal(running, pcfg)
    BY <1>4, <2>2, CInvInside DEF CompareConfiguration, Applying
  <2> QED
    BY <2>1, <2>2
<1>5. CASE OnUpdate
  BY <1>5, CInvInside DEF OnUpdate, Applying
<1>6. CASE OnUpdateFails
  BY <1>6, CInvReturnErr DEF OnUpdateFails
<1>7. CASE ConfigureBackends
  BY <1>7, CInvInside, CInvReturnErr DEF ConfigureBackends, AttemptFails, Applying
<1>8. CASE UpdateStreams
  BY <1>8, CInvInside, CInvReturnErr DEF UpdateStreams, AttemptFails, Applying
<1>9. CASE ConfigureCertificates
  <2>1. CASE AttemptFails /\ UNCHANGED running
    BY <1>9, <2>1, CInvInside, CInvReturnErr DEF ConfigureCertificates, AttemptFails, Applying
  <2>2. CASE running' = pcfg /\ ReturnNil
    BY <1>9, <2>2, CInvReturnNil DEF ConfigureCertificates, Applying
  <2> QED
    BY <1>9, <2>1, <2>2 DEF ConfigureCertificates
<1> QED
  BY <1>1, <1>2, <1>3, <1>4, <1>5, <1>6, <1>7, <1>8, <1>9 DEF SyncStep

LEMMA CInvNext == CInv /\ [Next]_vars => CInv'
<1> SUFFICES ASSUME CInv, [Next]_vars PROVE CInv'
  OBVIOUS
<1>1. TypeOK'
  BY TypeEnvironment, TypeSync DEF Next, CInv
<1>2. SyncOK' /\ ReadOK' /\ NoLostUpdate'
  BY CInvEnvironment, CInvSync DEF Next
<1> QED
  BY <1>1, <1>2 DEF CInv

\* Type correctness of the synchronisation loop.
THEOREM ControllerTypes == Safety => []TypeOK
<1>1. CInv => TypeOK
  BY DEF CInv
<1> QED
  BY <1>1, CInvInit, CInvNext, PTL DEF Safety

\* For every size of updateCh and whatever steps of a sync fail, a change of the
\* cluster is never forgotten: until the controller stops, runningConfig equals
\* the configuration of the store or a sync that will compare them is on its way.
THEOREM UpdatesNotLost == Safety => []NoLostUpdate
<1>1. CInv => NoLostUpdate
  BY DEF CInv
<1> QED
  BY <1>1, CInvInit, CInvNext, PTL DEF Safety

-----------------------------------------------------------------------------
(* What NGINX has been given *)

\* The compared parts that the sync at work has brought to NGINX at a place of
\* syncIngress: the static ones by the reload, or because they did not differ.
Given(place) ==
  {x \in Compared :
     \/ x \in Static /\ place \in {"backends", "streams", "certs"}
     \/ x = "backends" /\ place \in {"streams", "certs"}
     \/ x = "endpoints" /\ place = "certs"}

\* What differed from runningConfig and has been given, NGINX works with.
GivenOK ==
  \A x \in Given(pc) \ {"conf", "endpoints"} :
    running[x] # pcfg[x] => nginx[x] = pcfg[x]

\* As long as no step went wrong, NGINX works with what it has been given and, for
\* the other parts, with what was recorded.
ExactlyGiven ==
  failures = 0 =>
    \A x \in Compared \ {"conf"} :
      nginx[x] = IF x \in Given(pc) THEN pcfg[x] ELSE running[x]

AppliedInv == CInv /\ GivenOK /\ ExactlyGiven

LEMMA AppliedInit == Init => AppliedInv
<1> SUFFICES ASSUME Init PROVE AppliedInv
  OBVIOUS
<1>1. Given(pc) = {}
  BY DEF Init, Given
<1>2. \A x \in Compared : nginx[x] = running[x]
  BY DEF Init, Compared, Static, Dynamic
<1> QED
  BY <1>1, <1>2, CInvInit DEF AppliedInv, GivenOK, ExactlyGiven

\* A sync that has begun and given nothing yet, or that has returned.
LEMMA AppliedNothingGiven ==
  ASSUME AppliedInv, Given(pc) = {}, Given(pc') = {},
         UNCHANGED <<running, nginx, failures>>
  PROVE  GivenOK' /\ ExactlyGiven'
  BY DEF AppliedInv, GivenOK, ExactlyGiven, Given, Compared, Static, Dynamic

\* A step that goes wrong and returns an error or tries again, from a place at
\* which the static parts have been given.
LEMMA AppliedAttemptFails ==
  ASSUME AppliedInv, AttemptFails, pc \in {"backends", "streams", "certs"},
         UNCHANGED running,
         \A x \in Static : nginx'[x] = nginx[x]
  PROVE  GivenOK' /\ ExactlyGiven'
<1>1. failures' # 0
  BY DEF AttemptFails, AppliedInv, CInv, TypeOK
<1>2. ExactlyGiven'
  BY <1>1 DEF ExactlyGiven
<1>3. CASE pc' = "backends" /\ UNCHANGED pcfg
  <2>1. Given("backends") = Static /\ Static \subseteq Given(pc)
    BY DEF Given, Compared, Static
  <2> QED
    BY <1>2, <1>3, <2>1 DEF AppliedInv, GivenOK
<1>4. CASE ReturnErr
  <2>1. pc' = "idle" /\ Given("idle") = {}
    BY <1>4 DEF ReturnErr, Leave, Given
  <2> QED
    BY <1>2, <2>1 DEF GivenOK
<1> QED
  BY <1>3, <1>4 DEF AttemptFails

LEMMA AppliedSync ==
  ASSUME AppliedInv, BeginSync \/ SyncStep
  PROVE  GivenOK' /\ ExactlyGiven'
<1> USE ControllerAssumption
<1>1. CASE BeginSync
  BY <1>1, AppliedNothingGiven DEF BeginSync, Given
<1>2. CASE CheckShuttingDown
  BY <1>2, AppliedNothingGiven DEF CheckShuttingDown, ReturnNil, Leave, Given
<1>3. ASSUME NEW x \in Parts, ReadPart(x) PROVE GivenOK' /\ ExactlyGiven'
  BY <1>3, AppliedNothingGiven DEF ReadPart, Given
<1>4. CASE CompareConfiguration
  <2>1. CASE pc' # "backends"
    BY <1>4, <2>1, AppliedNothingGiven DEF CompareConfiguration, ReturnNil, Leave, Given
  <2>2. CASE pc' = "backends"
    <3>1. /\ IsDynamicConfigurationEnough /\ Given(pc) = {} /\ Given(pc') = Static
          /\ UNCHANGED <<pcfg, running, nginx, failures>>
      BY <1>4, <2>2 DEF CompareConfiguration, ReturnNil, Leave, Given, Compared, Static
    <3> QED
      BY <3>1 DEF IsDynamicConfigurationEnough, AppliedInv, GivenOK, ExactlyGiven, Compared,
         Static, Dynamic
  <2> QED
    BY <2>1, <2>2
<1>5. CASE OnUpdate
  <2>1. /\ Given(pc) = {} /\ Given(pc') = Static /\ UNCHANGED <<pcfg, running, failures>>
    BY <1>5 DEF OnUpdate, Given, Compared, Static
  <2>2. \A x \in Static \ {"conf"} : nginx'[x] = pcfg[x]
    BY <1>5 DEF OnUpdate, Static, Dynamic, ReadByOnUpdate
  <2>3. \A x \in Dynamic : nginx'[x] = nginx[x]
    BY <1>5 DEF OnUpdate, Dynamic
  <2> QED
    BY <2>1, <2>2, <2>3 DEF AppliedInv, GivenOK, ExactlyGiven, Compared, Static, Dynamic
<1>6. CASE OnUpdateFails
  <2>1. failures' # 0 /\ Given(pc') = {}
    BY <1>6 DEF OnUpdateFails, ReturnErr, Leave, Given, AppliedInv, CInv, TypeOK
  <2> QED
    BY <2>1 DEF GivenOK, ExactlyGiven
<1>7. CASE ConfigureBackends
  <2>1. CASE AttemptFails
    <3>1. \A x \in Static : nginx'[x] = nginx[x]
      BY <1>7 DEF ConfigureBackends, Applied, Static, AppliedInv, CInv, TypeOK
    <3> QED
      BY <1>7, <2>1, <3>1, AppliedAttemptFails DEF ConfigureBackends
  <2>2. CASE ~AttemptFails
    <3>1. /\ nginx' = IF Differs({"backends"}) THEN Applied({"backends"}) ELSE nginx
          /\ pc = "backends" /\ pc' = "streams"
          /\ UNCHANGED <<pcfg, running, failures>>
      BY <1>7, <2>2 DEF ConfigureBackends
    <3>2. \A x \in Parts \ {"backends"} : nginx'[x] = nginx[x]
      BY <3>1 DEF Applied
    <3>3. \A x \in Parts \cap {"backends"} :
            /\ running[x] # pcfg[x] => nginx'[x] = pcfg[x]
            /\ running[x] = pcfg[x] => nginx'[x] = nginx[x]
      BY <3>1 DEF Differs, Applied
    <3>4. Given("streams") = Given("backends") \cup (Parts \cap {"backends"})
      BY DEF Given, Compared, Static, Dynamic
    <3>5. "backends" \notin Given("backends")
      BY DEF Given, Static
    <3>6. Given("streams") \subseteq Parts
      BY DEF Given, Compared, Static, Dynamic
    <3>7. GivenOK'
      BY <3>1, <3>2, <3>3, <3>4, <3>6 DEF AppliedInv, GivenOK
    <3>8. ExactlyGiven'
      <4> SUFFICES ASSUME failures = 0, NEW x \in Compared \ {"conf"}
                   PROVE  nginx'[x] = IF x \in Given("streams") THEN pcfg[x] ELSE running[x]
        BY <3>1 DEF ExactlyGiven
      <4>1. nginx[x] = IF x \in Given("backends") THEN pcfg[x] ELSE running[x]
        BY <3>1 DEF AppliedInv, ExactlyGiven
      <4>2. x \in Parts
        BY DEF Compared, Static, Dynamic
      <4> QED
        BY <4>1, <4>2, <3>2, <3>3, <3>4, <3>5
    <3> QED
      BY <3>7, <3>8
  <2> QED
    BY <2>1, <2>2
<1>8. CASE UpdateStreams
  <2>1. CASE AttemptFails
    <3>1. \A x \in Static : nginx'[x] = nginx[x]
      BY <1>8 DEF UpdateStreams, Applied, Static, AppliedInv, CInv, TypeOK
    <3> QED
      BY <1>8, <2>1, <3>1, AppliedAttemptFails DEF UpdateStreams
  <2>2. CASE ~AttemptFails
    <3>1. /\ pc = "streams" /\ pc' = "certs" /\ UNCHANGED <<pcfg, running>>
          /\ \/ /\ nginx' = IF Differs({"ports", "endpoints"}) THEN Applied({"endpoints"})
                             ELSE nginx
                /\ UNCHANGED failures
             \/ nginx' = nginx /\ failures' = failures + 1
      BY <1>8, <2>2 DEF UpdateStreams
    <3>2. \A x \in Parts \ {"endpoints"} : nginx'[x] = nginx[x]
      BY <3>1 DEF Applied
    <3>3. Given("certs") = Given("streams") \cup (Parts \cap {"endpoints"})
      BY DEF Given, Compared, Static, Dynamic
    <3>4. Given("certs") \subseteq Parts /\ "endpoints" \notin Given("streams")
      BY DEF Given, Compared, Static, Dynamic
    <3>5. GivenOK'
      BY <3>1, <3>2, <3>3, <3>4 DEF AppliedInv, GivenOK
    <3>6. ExactlyGiven'
      <4> SUFFICES ASSUME failures' = 0, NEW x \in Compared \ {"conf"}
                   PROVE  nginx'[x] = IF x \in Given("certs") THEN pcfg[x] ELSE running[x]
        BY <3>1 DEF ExactlyGiven
      <4>1. /\ failures = 0
            /\ nginx' = IF Differs({"ports", "endpoints"}) THEN Applied({"endpoints"})
                        ELSE nginx
        BY <3>1 DEF AppliedInv, CInv, TypeOK
      <4>2. nginx[x] = IF x \in Given("streams") THEN pcfg[x] ELSE running[x]
        BY <3>1, <4>1 DEF AppliedInv, ExactlyGiven
      <4>3. x \in Parts
        BY DEF Compared, Static, Dynamic
      <4>4. CASE x = "endpoints"
        <5>1. x \in Given("certs") /\ nginx[x] = running[x]
          BY <3>3, <3>4, <4>2, <4>3, <4>4
        <5>2. running[x] # pcfg[x] => Differs({"ports", "endpoints"})
          BY <4>3, <4>4 DEF Differs
        <5>3. nginx'[x] = pcfg[x]
          BY <4>1, <4>3, <4>4, <5>1, <5>2 DEF Applied
        <5> QED
          BY <5>1, <5>3
      <4>5. CASE x # "endpoints"
        BY <3>2, <3>3, <4>2, <4>3, <4>5
      <4> QED
        BY <4>4, <4>5
    <3> QED
      BY <3>5, <3>6
  <2> QED
    BY <2>1, <2>2
<1>9. CASE ConfigureCertificates
  <2>1. CASE AttemptFails /\ UNCHANGED running
    <3>1. \A x \in Static : nginx'[x] = nginx[x]
      BY <1>9 DEF ConfigureCertificates, Applied, Static, AppliedInv, CInv, TypeOK
    <3> QED
      BY <1>9, <2>1, <3>1, AppliedAttemptFails DEF ConfigureCertificates
  <2>2. CASE ~(AttemptFails /\ UNCHANGED running)
    <3>1. /\ pc = "certs" /\ pc' = "idle" /\ running' = pcfg /\ UNCHANGED failures
          /\ nginx' = IF Differs({"servers", "certs"}) THEN Applied({"certs"}) ELSE nginx
      BY <1>9, <2>2 DEF ConfigureCertificates, ReturnNil, Leave
    <3>2. Given("idle") = {}
      BY DEF Given
    <3>3. ASSUME failures = 0, NEW x \in Compared \ {"conf"} PROVE nginx'[x] = pcfg[x]
      <4>1. nginx[x] = IF x \in Given("certs") THEN pcfg[x] ELSE running[x]
        BY <3>1, <3>3 DEF AppliedInv, ExactlyGiven
      <4>2. x \in Given("certs") \/ x = "certs"
        BY DEF Given, Compared, Static, Dynamic
      <4>3. x = "certs" => x \notin Given("certs")
        BY DEF Given, Static
      <4>4. x \in Parts
        BY DEF Compared, Static, Dynamic
      <4>5. CASE x = "certs"
        BY <3>1, <4>1, <4>3, <4>4, <4>5 DEF Differs, Applied
      <4>6. CASE x # "certs"
        BY <3>1, <4>1, <4>2, <4>4, <4>6 DEF Applied
      <4> QED
        BY <4>5, <4>6
    <3> QED
      BY <3>1, <3>2, <3>3 DEF GivenOK, ExactlyGiven
  <2> QED
    BY <2>1, <2>2
<1> QED
  BY <1>1, <1>2, <1>3, <1>4, <1>5, <1>6, <1>7, <1>8, <1>9 DEF SyncStep

LEMMA AppliedNext == AppliedInv /\ [Next]_vars => AppliedInv'
<1> SUFFICES ASSUME AppliedInv, [Next]_vars PROVE AppliedInv'
  OBVIOUS
<1>1. CInv'
  BY CInvNext DEF AppliedInv
<1>2. CASE BeginSync \/ SyncStep
  BY <1>1, <1>2, AppliedSync DEF AppliedInv
<1>3. CASE ~(BeginSync \/ SyncStep)
  <2>1. UNCHANGED <<pc, pcfg, running, nginx, failures>>
    BY <1>3 DEF Next, Change, Notify, NotifyFile, Boot, TakeEvent, Stopping, Stop, LoopReturns,
       MasterExits, vars, syncVars
  <2> QED
    BY <1>1, <2>1 DEF AppliedInv, GivenOK, ExactlyGiven, Given
<1> QED
  BY <1>2, <1>3

\* As long as no step of a sync went wrong, NGINX at rest works with runningConfig,
\* in every compared part but the one OnUpdate reads again ("conf").
THEOREM RunningConfigExact ==
  Safety => [](failures = 0 /\ Quiet =>
                 \A x \in Compared \ {"conf"} : nginx[x] = running[x])
<1>1. AppliedInv => (failures = 0 /\ Quiet =>
                       \A x \in Compared \ {"conf"} : nginx[x] = running[x])
  BY DEF AppliedInv, ExactlyGiven, Quiet, Given
<1> QED
  BY <1>1, AppliedInit, AppliedNext, PTL DEF Safety

\* The comment at runningConfig is true of every configuration without "conf", for
\* any number of changes, as long as no step of a sync went wrong.
THEOREM RunningConfigRight ==
  ASSUME "conf" \notin Parts
  PROVE  Safety => []RunningConfigWithoutErrors
<1>1. AppliedInv => RunningConfigWithoutErrors
  BY DEF AppliedInv, ExactlyGiven, RunningConfigWithoutErrors, RunningConfigIsBackend, Quiet,
     Given, Equal, Compared, Static, Dynamic
<1> QED
  BY <1>1, AppliedInit, AppliedNext, PTL DEF Safety

\* Only the last step of a sync records, and what it records anew NGINX works with,
\* whatever steps of this and of earlier syncs went wrong.
LEMMA RecordedStep ==
  ASSUME AppliedInv, [Next]_vars,
         NEW x \in Compared \ {"conf", "endpoints"}, running'[x] # running[x]
  PROVE  nginx'[x] = running'[x]
<1>1. ConfigureCertificates
  BY DEF Next, SyncStep, Change, Notify, NotifyFile, Boot, TakeEvent, BeginSync,
     CheckShuttingDown, ReadPart, CompareConfiguration, OnUpdate, OnUpdateFails,
     ConfigureBackends, UpdateStreams, Stopping, Stop, LoopReturns, MasterExits, vars
<1>2. /\ pc = "certs" /\ running' = pcfg
      /\ nginx' = IF Differs({"servers", "certs"}) THEN Applied({"certs"}) ELSE nginx
  BY <1>1 DEF ConfigureCertificates
<1>3. x \in Parts
  BY DEF Compared, Static, Dynamic
<1>4. CASE x = "certs"
  BY <1>2, <1>3, <1>4 DEF Differs, Applied
<1>5. CASE x # "certs"
  <2>1. x \in Given("certs")
    BY <1>5 DEF Given, Compared, Static, Dynamic
  <2>2. nginx[x] = pcfg[x]
    BY <1>2, <2>1 DEF AppliedInv, GivenOK
  <2> QED
    BY <1>2, <1>3, <1>5, <2>2 DEF Applied
<1> QED
  BY <1>4, <1>5

\* A part of runningConfig gets a new value only when NGINX works with that value,
\* for any number of changes, retries and errors.
THEOREM RecordsWhatIsApplied == Safety => RecordedWhenApplied
<1>1. AppliedInv /\ [Next]_vars =>
        [\A x \in Compared \ {"conf", "endpoints"} :
           running'[x] # running[x] => nginx'[x] = running'[x]]_vars
  BY RecordedStep
<1> QED
  BY <1>1, AppliedInit, AppliedNext, PTL DEF Safety, RecordedWhenApplied
=============================================================================
