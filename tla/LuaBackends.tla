----------------------------- MODULE LuaBackends ----------------------------
(***************************************************************************)
(* How a list of backends POSTed by the controller reaches the balancers   *)
(* of every NGINX worker process: configuration.lua stores the list and a  *)
(* timestamp in seconds in a shared dictionary, and timers of balancer.lua *)
(* in each worker pick it up and resolve ExternalName services.            *)
(*                                                                         *)
(* A worker process runs one Lua thread at a time and switches only at a   *)
(* DNS lookup; the shared dictionary changes between any two accesses.     *)
(***************************************************************************)
EXTENDS Integers

CONSTANTS
  NginxWorkers,      \* worker processes
  Names,             \* names of backends
  Plain, External,   \* backends of cluster services and of ExternalName services
  WithoutEndpoints,  \* those of them that have no endpoints
  Absent,            \* a name that is not in a list
  Lists,             \* lists the controller may send, functions on Names
  None,              \* nothing stored, no balancer, no entry
  Apart,             \* seconds between the stamp of a list and the next POST
  MaxClock,          \* bound: seconds
  MaxFailures,       \* bound: failing writes to the dictionary
  MaxRestarts        \* bound: worker processes started by reloads

ASSUME LuaAssumption ==
  /\ Plain \cap External = {}
  /\ WithoutEndpoints \subseteq Plain \cup External
  /\ {Absent, None} \cap (Plain \cup External) = {}
  /\ Absent # None
  /\ Lists \subseteq [Names -> Plain \cup External \cup {Absent}]
  /\ None \notin Lists
  /\ Apart \in Nat
  /\ MaxClock \in Nat \ {0, 1}
  /\ MaxFailures \in Nat
  /\ MaxRestarts \in Nat

VARIABLES
  clock,      \* ngx.time() after ngx.update_time(); never steps back
  data,       \* configuration_data: "backends"
  stamp,      \* configuration_data: "raw_backends_last_synced_at"; 1 when not set
  post,       \* the last POST: "none", "reading", "stored", "created", "failed"
  body,       \* the list it carries
  wpc, wraw,  \* per worker: place in sync_backends and the stamp it read
  last,       \* per worker: backends_last_synced_at
  balancers,  \* per worker and name: the backend its balancer was made from
  external,   \* per worker and name: backends_with_external_name
  resolving,  \* per worker: lookups under way, with the backend they are for
  failures, restarts

postVars == <<data, stamp, post, body>>
workVars == <<wpc, wraw, last, balancers, external, resolving>>
vars == <<clock, postVars, workVars, failures, restarts>>

Backends == Plain \cup External

TypeOK ==
  /\ clock \in 2..MaxClock
  /\ data \in Lists \cup {None}
  /\ stamp \in 1..MaxClock
  /\ post \in {"none", "reading", "stored", "created", "failed"}
  /\ body \in Lists \cup {None}
  /\ wpc \in [NginxWorkers -> {"idle", "data"}]
  /\ wraw \in [NginxWorkers -> 0..MaxClock]
  /\ last \in [NginxWorkers -> 0..MaxClock]
  /\ balancers \in [NginxWorkers -> [Names -> Backends \cup {None}]]
  /\ external \in [NginxWorkers -> [Names -> External \cup {None}]]
  /\ resolving \in [NginxWorkers -> SUBSET (Names \X External)]
  /\ failures \in 0..MaxFailures
  /\ restarts \in 0..MaxRestarts

Nothing == [n \in Names |-> None]

Init ==
  /\ clock = 2
  /\ data = None /\ stamp = 1 /\ post = "none" /\ body = None
  /\ wpc = [w \in NginxWorkers |-> "idle"]
  /\ wraw = [w \in NginxWorkers |-> 0]
  /\ last = [w \in NginxWorkers |-> 0]
  /\ balancers = [w \in NginxWorkers |-> Nothing]
  /\ external = [w \in NginxWorkers |-> Nothing]
  /\ resolving = [w \in NginxWorkers |-> {}]
  /\ failures = 0 /\ restarts = 0

-----------------------------------------------------------------------------
(* configuration.lua: handle_backends *)

\* configureBackends POSTs a list and waits for the answer.
Post(list) ==
  /\ post \in {"none", "created", "failed"}
  /\ clock >= stamp + Apart
  /\ post' = "reading"
  /\ body' = list
  /\ UNCHANGED <<clock, data, stamp, workVars, failures, restarts>>

\* configuration_data:set("backends", backends)
StoreBackends ==
  /\ post = "reading"
  /\ data' = body
  /\ post' = "stored"
  /\ UNCHANGED <<clock, stamp, body, workVars, failures, restarts>>

\* A set that fails may have removed the old value.
StoreBackendsFails ==
  /\ post = "reading"
  /\ failures < MaxFailures
  /\ failures' = failures + 1
  /\ data' \in {data, None}
  /\ post' = "failed"
  /\ UNCHANGED <<clock, stamp, body, workVars, restarts>>

\* configuration_data:set("raw_backends_last_synced_at", ngx.time()), then 201
StoreStamp ==
  /\ post = "stored"
  /\ stamp' = clock
  /\ post' = "created"
  /\ UNCHANGED <<clock, data, body, workVars, failures, restarts>>

\* That set fails: the list is stored, the stamp is gone or as before.
StoreStampFails ==
  /\ post = "stored"
  /\ failures < MaxFailures
  /\ failures' = failures + 1
  /\ stamp' \in {stamp, 1}
  /\ post' = "failed"
  /\ UNCHANGED <<clock, data, body, workVars, restarts>>

-----------------------------------------------------------------------------
(* balancer.lua *)

\* sync_backend: no balancer for a backend without endpoints.
BalancerFor(b) == IF b \in WithoutEndpoints THEN None ELSE b

\* sync_backends: if raw_backends_last_synced_at <= backends_last_synced_at then return
ReadStamp(w) ==
  /\ wpc[w] = "idle"
  /\ stamp > last[w]
  /\ wraw' = [wraw EXCEPT ![w] = stamp]
  /\ wpc' = [wpc EXCEPT ![w] = "data"]
  /\ UNCHANGED <<clock, postVars, last, balancers, external, resolving, failures, restarts>>

\* What a list leaves of a worker's balancers ...
KeptRemoved(list, old) ==
  [n \in Names |-> IF list[n] \in Plain THEN BalancerFor(list[n]) ELSE old[n]]

KeptBalancers(list, old) ==
  [n \in Names |-> IF list[n] \in Plain THEN BalancerFor(list[n])
                   ELSE IF list[n] = Absent THEN None ELSE old[n]]

\* ... and of its backends with external name: an entry goes when the name is not
\* in the list and has a balancer.
KeptAsExternal(list, old, have) ==
  [n \in Names |-> IF list[n] # Absent THEN list[n]
                   ELSE IF have[n] # None THEN None ELSE old[n]]

KeptExternal(list, old, have) ==
  [n \in Names |-> IF list[n] \in External THEN list[n]
                   ELSE IF list[n] = Absent /\ have[n] # None THEN None ELSE old[n]]

\* The rest of sync_backends, which reads the list and does not yield.
SyncBackends(w) ==
  /\ wpc[w] = "data"
  /\ IF data = None
     THEN /\ balancers' = [balancers EXCEPT ![w] = Nothing]
          /\ UNCHANGED <<last, external>>
     ELSE /\ balancers' = [balancers EXCEPT ![w] = KeptBalancers(data, @)]
          /\ external' = [external EXCEPT ![w] = KeptExternal(data, @, balancers[w])]
          /\ last' = [last EXCEPT ![w] = wraw[w]]
  /\ wraw' = [wraw EXCEPT ![w] = 0]
  /\ wpc' = [wpc EXCEPT ![w] = "idle"]
  /\ UNCHANGED <<clock, postVars, resolving, failures, restarts>>

\* sync_backends_with_external_name calls sync_backend for an entry, which waits
\* for the DNS unless there are no endpoints.  Rounds of the timer overlap.
ResolveOnce(w, n) ==
  /\ wpc[w] = "idle"
  /\ external[w][n] \notin {None} \cup WithoutEndpoints
  /\ balancers[w][n] = None
  /\ <<n, external[w][n]>> \notin resolving[w]
  /\ resolving' = [resolving EXCEPT ![w] = @ \cup {<<n, external[w][n]>>}]
  /\ UNCHANGED <<clock, postVars, wpc, wraw, last, balancers, external, failures, restarts>>

StartResolve(w, n) ==
  /\ wpc[w] = "idle"
  /\ external[w][n] # None
  /\ IF external[w][n] \in WithoutEndpoints
     THEN /\ balancers[w][n] # None
          /\ balancers' = [balancers EXCEPT ![w][n] = None]
          /\ UNCHANGED resolving
     ELSE /\ <<n, external[w][n]>> \notin resolving[w]
          /\ resolving' = [resolving EXCEPT ![w] = @ \cup {<<n, external[w][n]>>}]
          /\ UNCHANGED balancers
  /\ UNCHANGED <<clock, postVars, wpc, wraw, last, external, failures, restarts>>

\* The lookup returned, with addresses or with the name itself.
FinishResolve(w, n, b) ==
  /\ wpc[w] = "idle"
  /\ <<n, b>> \in resolving[w]
  /\ balancers' = [balancers EXCEPT ![w][n] = b]
  /\ resolving' = [resolving EXCEPT ![w] = @ \ {<<n, b>>}]
  /\ UNCHANGED <<clock, postVars, wpc, wraw, last, external, failures, restarts>>

\* A reload replaces the worker process; init_worker calls sync_backends before
\* any request is served.
StartWorker(w) ==
  /\ restarts < MaxRestarts
  /\ restarts' = restarts + 1
  /\ wpc' = [wpc EXCEPT ![w] = "data"]
  /\ wraw' = [wraw EXCEPT ![w] = stamp]
  /\ last' = [last EXCEPT ![w] = 0]
  /\ balancers' = [balancers EXCEPT ![w] = Nothing]
  /\ external' = [external EXCEPT ![w] = Nothing]
  /\ resolving' = [resolving EXCEPT ![w] = {}]
  /\ UNCHANGED <<clock, postVars, failures>>

Tick ==
  /\ clock < MaxClock
  /\ clock' = clock + 1
  /\ UNCHANGED <<postVars, workVars, failures, restarts>>

-----------------------------------------------------------------------------
HandleBackends ==
  \/ StoreBackends \/ StoreBackendsFails \/ StoreStamp \/ StoreStampFails

Next ==
  \/ \E list \in Lists : Post(list)
  \/ HandleBackends
  \/ \E w \in NginxWorkers : ReadStamp(w) \/ SyncBackends(w) \/ StartWorker(w)
  \/ \E w \in NginxWorkers, n \in Names : StartResolve(w, n)
  \/ \E w \in NginxWorkers, n \in Names, b \in External : FinishResolve(w, n, b)
  \/ Tick

Safety == Init /\ [][Next]_vars

(***************************************************************************)
(* The handler answers, the timers of a worker fire and a DNS lookup       *)
(* returns (its timeouts are bounded).  Nothing makes the controller POST. *)
(***************************************************************************)
Fairness ==
  /\ WF_vars(HandleBackends)
  /\ \A w \in NginxWorkers :
       /\ WF_vars(ReadStamp(w)) /\ WF_vars(SyncBackends(w))
       /\ \A n \in Names :
            /\ WF_vars(StartResolve(w, n))
            /\ \A b \in External : WF_vars(FinishResolve(w, n, b))

Spec == Safety /\ Fairness

-----------------------------------------------------------------------------
(* Properties *)

\* Names that are never backed by an ExternalName service.
NeverExternal == {n \in Names : \A list \in Lists : list[n] \notin External}

\* What the worker should have for a name of the list.
Wanted(list, n) == IF list[n] = Absent THEN None ELSE BalancerFor(list[n])

\* The worker's sync_backends returns at once, and the last POST was answered 201.
CaughtUp(w) == post = "created" /\ wpc[w] = "idle" /\ stamp <= last[w]

(***************************************************************************)
(* A worker that sees nothing new to pick up (raw_backends_last_synced_at  *)
(* <= backends_last_synced_at) routes to the endpoints of the last list,   *)
(* for the names that are never ExternalName services.  This needs lists   *)
(* that arrive in different seconds (Apart > 0).                           *)
(***************************************************************************)
NoStaleWorker ==
  \A w \in NginxWorkers, n \in NeverExternal :
    CaughtUp(w) => balancers[w][n] = Wanted(body, n)

(***************************************************************************)
(* The same for all names whose service is not of type ExternalName now.   *)
(***************************************************************************)
NoStaleWorkerPlain ==
  \A w \in NginxWorkers, n \in Names :
    CaughtUp(w) /\ body[n] \in Plain => balancers[w][n] = Wanted(body, n)

(***************************************************************************)
(* "it will take <the delay until controller POSTed the backend object to  *)
(* the Nginx endpoint> + BACKENDS_SYNC_INTERVAL" (balancer.lua:21-24):     *)
(* once the POSTs end with a 201, every worker has the balancers of the    *)
(* last list, those of ExternalName services included.                     *)
(***************************************************************************)
PickedUp ==
  <>[](post = "created" =>
         \A w \in NginxWorkers, n \in Names :
           body[n] # Absent => balancers[w][n] = Wanted(body, n))
=============================================================================
