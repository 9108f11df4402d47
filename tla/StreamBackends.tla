---------------------------- MODULE StreamBackends --------------------------
(***************************************************************************)
(* TCP and UDP services: the controller writes a list of backends to the   *)
(* stream socket without reading an answer, tcp_udp_configuration.lua      *)
(* stores it, and a timer of tcp_udp_balancer.lua in every worker process  *)
(* picks it up.                                                            *)
(*                                                                         *)
(* A worker runs one Lua thread at a time and switches only at a DNS       *)
(* lookup; the timer fires every second, so that runs of sync_backends     *)
(* overlap while a lookup takes long.                                      *)
(***************************************************************************)
EXTENDS Integers

CONSTANTS
  Workers,             \* worker processes
  Runs,                \* runs of sync_backends that may overlap in a worker
  Names,               \* names of backends
  Four, Six, External, \* backends with IPv4, IPv6 addresses, of ExternalName services
  Absent, None,
  Force,               \* BACKENDS_FORCE_SYNC_INTERVAL
  MaxClock,            \* bound: seconds
  Setups               \* name -> what is sent and what happens meanwhile

VARIABLE setup         \* the setup of this behaviour

Lists        == Setups[setup].lists      \* lists the controller may send
MaxPosts     == Setups[setup].posts      \* bound: lists sent
MaxLost      == Setups[setup].lost       \* bound: lists that do not reach the dictionary
MaxUnstamped == Setups[setup].unstamped  \* bound: failing writes of the timestamp
MaxRestarts  == Setups[setup].restarts   \* bound: worker processes started by reloads

Backends == Four \cup Six \cup External

VARIABLES
  clock,      \* ngx.time()
  sent,       \* the last list the controller sent
  post,       \* call() of tcp_udp_configuration: "none", "read", "stored"
  data,       \* tcp_udp_configuration_data: "backends"
  stamp,      \* tcp_udp_configuration_data: "raw_backends_last_synced_at", 1 when not set
  run,        \* per worker: its runs of sync_backends
  last,       \* per worker: backends_last_synced_at
  balancers,  \* per worker and name: the balancer, [of, good, id]
  external,   \* per worker and name: backends_with_external_name
  made,       \* per worker: balancers made so far
  posts, lost, unstamped, restarts

confVars == <<sent, post, data, stamp, posts, lost, unstamped>>
workVars == <<run, last, balancers, external, made, restarts>>
vars == <<clock, confVars, workVars>>

IdleRun == [pc |-> "idle", full |-> FALSE, raw |-> 0, list |-> None, todo |-> {},
            name |-> None, of |-> None, id |-> 0]
Nothing == [n \in Names |-> None]

TypeOK ==
  /\ clock \in 2..MaxClock /\ stamp \in 1..MaxClock
  /\ sent \in Lists \cup {None} /\ data \in Lists \cup {None}
  /\ post \in {"none", "read", "stored"}
  /\ \A w \in Workers :
       /\ last[w] \in 0..MaxClock
       /\ \A r \in Runs :
            /\ run[w][r].pc \in {"idle", "data", "loop", "dns"}
            /\ run[w][r].todo \subseteq Names
            /\ run[w][r].pc = "dns" => run[w][r].id \in 1..made[w]
       /\ \A n \in Names :
            /\ balancers[w][n] # None => /\ balancers[w][n].of \in Backends
                                         /\ balancers[w][n].id \in 1..made[w]
            /\ external[w][n] \in External \cup {None}
       /\ \A r, q \in Runs : r # q => {run[w][r].pc, run[w][q].pc} \cap {"idle", "dns"} # {}
  /\ posts \in 0..MaxPosts /\ lost \in 0..MaxLost
  /\ unstamped \in 0..MaxUnstamped /\ restarts \in 0..MaxRestarts

Init ==
  /\ setup \in DOMAIN Setups
  /\ clock = 2 /\ sent = None /\ post = "none" /\ data = None /\ stamp = 1
  /\ run = [w \in Workers |-> [r \in Runs |-> IdleRun]]
  /\ last = [w \in Workers |-> 0]
  /\ balancers = [w \in Workers |-> Nothing]
  /\ external = [w \in Workers |-> Nothing]
  /\ made = [w \in Workers |-> 0]
  /\ posts = 0 /\ lost = 0 /\ unstamped = 0 /\ restarts = 0

-----------------------------------------------------------------------------
(* updateStreamConfiguration and tcp_udp_configuration.lua: call *)

\* The controller connects, writes and closes.
Send(list) ==
  /\ post = "none" /\ posts < MaxPosts
  /\ clock + Force <= MaxClock
  /\ sent' = list /\ post' = "read"
  /\ posts' = posts + 1
  /\ UNCHANGED <<clock, data, stamp, lost, unstamped, workVars>>

\* No socket, an incomplete line, or set fails: the error goes to the socket,
\* which nobody reads.  A set that fails may have removed the old value.
Lose ==
  /\ post = "read" /\ lost < MaxLost
  /\ lost' = lost + 1
  /\ data' \in {data, None}
  /\ post' = "none"
  /\ UNCHANGED <<clock, sent, stamp, posts, unstamped, workVars>>

\* tcp_udp_configuration_data:set("backends", backends)
StoreBackends ==
  /\ post = "read"
  /\ data' = sent /\ post' = "stored"
  /\ UNCHANGED <<clock, sent, stamp, posts, lost, unstamped, workVars>>

\* set("raw_backends_last_synced_at", ngx.time())
StoreStamp ==
  /\ post = "stored"
  /\ stamp' = clock /\ post' = "none"
  /\ UNCHANGED <<clock, sent, data, posts, lost, unstamped, workVars>>

\* "new upstream peers waiting for force syncing"
StoreStampFails ==
  /\ post = "stored" /\ unstamped < MaxUnstamped
  /\ unstamped' = unstamped + 1
  /\ stamp' \in {stamp, 1} /\ post' = "none"
  /\ UNCHANGED <<clock, sent, data, posts, lost, workVars>>

\* The last seconds before the bound are left for a forced sync.
Tick ==
  /\ clock < IF post = "none" THEN MaxClock ELSE MaxClock - Force
  /\ clock' = clock + 1
  /\ UNCHANGED <<confVars, workVars>>

-----------------------------------------------------------------------------
(* tcp_udp_balancer.lua *)

\* No run of the worker is between two lookups.
Free(w) == \A r \in Runs : run[w][r].pc \in {"idle", "dns"}

\* current_timestamp - backends_last_synced_at < BACKENDS_FORCE_SYNC_INTERVAL and
\* raw_backends_last_synced_at <= backends_last_synced_at
NothingNewUnforced(w) == stamp <= last[w]

NothingNew(w) == clock - last[w] < Force /\ stamp <= last[w]

\* The timer calls sync_backends: with nothing new it only resolves the external
\* names again.
BeginSync(w, r) ==
  /\ Free(w) /\ run[w][r].pc = "idle"
  /\ LET names == {n \in Names : external[w][n] # None}
     IN  IF NothingNew(w)
         THEN /\ names # {}
              /\ run' = [run EXCEPT ![w][r] = [IdleRun EXCEPT !.pc = "loop", !.todo = names]]
         ELSE run' = [run EXCEPT ![w][r] = [IdleRun EXCEPT !.pc = "data", !.full = TRUE,
                                                            !.raw = stamp]]
  /\ UNCHANGED <<clock, confVars, last, balancers, external, made, restarts>>

\* configuration.get_backends_data()
GetData(w, r) ==
  /\ run[w][r].pc = "data"
  /\ IF data = None
     THEN /\ balancers' = [balancers EXCEPT ![w] = Nothing]
          /\ run' = [run EXCEPT ![w][r] = IdleRun]
     ELSE /\ run' = [run EXCEPT ![w][r].pc = "loop", ![w][r].list = data,
                                ![w][r].todo = {n \in Names : data[n] # Absent}]
          /\ UNCHANGED balancers
  /\ UNCHANGED <<clock, confVars, last, external, made, restarts>>

\* The backend a run has for a name.
Backend(w, r, n) == IF run[w][r].full THEN run[w][r].list[n] ELSE external[w][n]

\* backends_with_external_name after a backend of a full sync
Remembered(w, r, n) ==
  IF run[w][r].full /\ run[w][r].list[n] \in External
  THEN [external EXCEPT ![w][n] = run[w][r].list[n]] ELSE external

\* sync_backend without a balancer: made from the endpoints as they are, neither
\* resolved nor formatted.
NewBalancer(w, r, n) ==
  /\ run[w][r].pc = "loop" /\ n \in run[w][r].todo
  /\ balancers[w][n] = None /\ Backend(w, r, n) # None
  /\ made' = [made EXCEPT ![w] = @ + 1]
  /\ balancers' = [balancers EXCEPT ![w][n] =
                     [of |-> Backend(w, r, n), good |-> Backend(w, r, n) \in Four,
                      id |-> made[w] + 1]]
  /\ external' = Remembered(w, r, n)
  /\ run' = [run EXCEPT ![w][r].todo = @ \ {n}]
  /\ UNCHANGED <<clock, confVars, last, restarts>>

\* sync_backend with a balancer: format the IPv6 addresses, then balancer:sync;
\* the addresses of an external name come from the DNS.
SyncBalancer(w, r, n) ==
  /\ run[w][r].pc = "loop" /\ n \in run[w][r].todo
  /\ balancers[w][n] # None /\ Backend(w, r, n) # None
  /\ IF Backend(w, r, n) \in External
     THEN /\ run' = [run EXCEPT ![w][r].pc = "dns", ![w][r].name = n,
                                ![w][r].id = balancers[w][n].id,
                                ![w][r].of = Backend(w, r, n), ![w][r].todo = @ \ {n}]
          /\ UNCHANGED <<balancers, external>>
     ELSE /\ balancers' = [balancers EXCEPT ![w][n].of = Backend(w, r, n), ![w][n].good = TRUE]
          /\ run' = [run EXCEPT ![w][r].todo = @ \ {n}]
          /\ UNCHANGED external
  /\ UNCHANGED <<clock, confVars, last, made, restarts>>

\* An entry that another run removed is not visited any more.
SkipEntry(w, r, n) ==
  /\ run[w][r].pc = "loop" /\ n \in run[w][r].todo
  /\ Backend(w, r, n) = None
  /\ run' = [run EXCEPT ![w][r].todo = @ \ {n}]
  /\ UNCHANGED <<clock, confVars, last, balancers, external, made, restarts>>

\* dns_lookup returned, with addresses or with the name itself; the balancer that
\* is changed is the one the run found before it.
Resolved(w, r) ==
  /\ run[w][r].pc = "dns" /\ Free(w)
  /\ LET n == run[w][r].name
         same == balancers[w][n] # None /\ balancers[w][n].id = run[w][r].id
     IN  /\ \E ok \in BOOLEAN :
              balancers' = IF same
                           THEN [balancers EXCEPT ![w][n].of = run[w][r].of,
                                                  ![w][n].good = ok]
                           ELSE balancers
         /\ external' = Remembered(w, r, n)
  /\ run' = [run EXCEPT ![w][r].pc = "loop", ![w][r].name = None,
                        ![w][r].of = None, ![w][r].id = 0]
  /\ UNCHANGED <<clock, confVars, last, made, restarts>>

\* The end of the loop: a full sync drops the balancers of other names.
EndSync(w, r) ==
  /\ run[w][r].pc = "loop" /\ run[w][r].todo = {}
  /\ IF run[w][r].full
     THEN LET gone == {n \in Names : run[w][r].list[n] = Absent /\ balancers[w][n] # None}
          IN  /\ balancers' = [balancers EXCEPT ![w] = [n \in Names |->
                                 IF n \in gone THEN None ELSE @[n]]]
              /\ external' = [external EXCEPT ![w] = [n \in Names |->
                                IF n \in gone THEN None ELSE @[n]]]
              /\ last' = [last EXCEPT ![w] = run[w][r].raw]
     ELSE UNCHANGED <<balancers, external, last>>
  /\ run' = [run EXCEPT ![w][r] = IdleRun]
  /\ UNCHANGED <<clock, confVars, made, restarts>>

\* A reload: init_worker of the new process calls sync_backends at once.
StartWorker(w) ==
  /\ restarts < MaxRestarts
  /\ restarts' = restarts + 1
  /\ \E r \in Runs :
       run' = [run EXCEPT ![w] = [q \in Runs |->
                 IF q = r THEN [IdleRun EXCEPT !.pc = "data", !.full = TRUE, !.raw = stamp]
                 ELSE IdleRun]]
  /\ last' = [last EXCEPT ![w] = 0]
  /\ balancers' = [balancers EXCEPT ![w] = Nothing]
  /\ external' = [external EXCEPT ![w] = Nothing]
  /\ made' = [made EXCEPT ![w] = 0]
  /\ UNCHANGED <<clock, confVars>>

-----------------------------------------------------------------------------
Receive == Lose \/ StoreBackends \/ StoreStamp \/ StoreStampFails

SyncStep(w, r) ==
  \/ GetData(w, r) \/ EndSync(w, r)
  \/ \E n \in Names : NewBalancer(w, r, n) \/ SyncBalancer(w, r, n) \/ SkipEntry(w, r, n)

Step ==
  \/ \E list \in Lists : Send(list)
  \/ Receive
  \/ Tick
  \/ \E w \in Workers :
       \/ \E r \in Runs : BeginSync(w, r) \/ SyncStep(w, r) \/ Resolved(w, r)
       \/ StartWorker(w)

Next == Step /\ UNCHANGED setup

(***************************************************************************)
(* What is written to the socket is read, the timer fires, lookups return  *)
(* (their timeouts are bounded) and time passes.                           *)
(***************************************************************************)
Fairness ==
  /\ WF_vars(Receive) /\ WF_vars(Tick)
  /\ \A w \in Workers :
       /\ WF_vars(\E r \in Runs : BeginSync(w, r))
       /\ \A r \in Runs : WF_vars(SyncStep(w, r)) /\ WF_vars(Resolved(w, r))

Spec == Init /\ [][Next]_<<vars, setup>> /\ Fairness

-----------------------------------------------------------------------------
(* Properties *)

\* What a worker has for a name is what a list wants.
Fits(w, n, list) ==
  IF list[n] = Absent THEN balancers[w][n] = None
  ELSE /\ balancers[w][n] # None
       /\ balancers[w][n].of = list[n]
       /\ list[n] \notin External => balancers[w][n].good

(***************************************************************************)
(* Once the controller stops sending, and its last list is stored, every   *)
(* worker ends with balancers of that list: lists of the same second, a    *)
(* timestamp that was not stored, lookups that overlap a later list, a     *)
(* service that stops being an ExternalName and addresses that were never  *)
(* formatted are all repaired by the forced sync                           *)
(* (tcp_udp_balancer.lua:117-118).                                         *)
(***************************************************************************)
PickedUp ==
  <>[](sent # None /\ data = sent => \A w \in Workers, n \in Names : Fits(w, n, sent))

(***************************************************************************)
(* The same for every list that updateStreamConfiguration sent without an  *)
(* error, as "Dynamic reconfiguration succeeded." (controller.go:211) says *)
(* of it.                                                                  *)
(***************************************************************************)
SentIsPickedUp ==
  <>[](sent # None => \A w \in Workers, n \in Names : Fits(w, n, sent))

(***************************************************************************)
(* "for an Nginx worker to pick up the new list of upstream peers it will  *)
(* take <the delay until controller POSTed the backend object to the Nginx *)
(* endpoint> + BACKENDS_SYNC_INTERVAL" (tcp_udp_balancer.lua:17-20): a     *)
(* worker for which nothing is new has usable peers of the last list.      *)
(***************************************************************************)
UsableWhenSynced ==
  \A w \in Workers, n \in Names :
    /\ sent # None /\ post = "none" /\ stamp = last[w]
    /\ \A r \in Runs : run[w][r].pc = "idle"
    => Fits(w, n, sent)
=============================================================================
