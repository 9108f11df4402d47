------------------------------- MODULE Metrics -------------------------------
(***************************************************************************)
(* Metrics of requests and certificates: rootfs/etc/nginx/lua/monitor.lua, *)
(* the socket collector and the controller's gauges                        *)
(* (internal/ingress/metric), and the calls syncIngress makes to them.     *)
(*                                                                         *)
(* Every NGINX worker collects a batch and sends it over a socket once a   *)
(* second; each connection is handled by a goroutine, item by item.  A     *)
(* sync meanwhile changes the hosts that are reported and removes the      *)
(* series of the ingresses that are gone.  A configuration is a set of     *)
(* ingresses, each with one host and a certificate; an item, and a series, *)
(* is <<host, ingress>>.                                                   *)
(***************************************************************************)
EXTENDS Naturals, Sequences, FiniteSets, SequencesExt

CONSTANTS None,
          Ingresses,
          HostOf,        \* the host of an ingress
          Stray,         \* a host nobody serves, as clients may send it
          Broken,        \* ingresses that NGINX does not accept
          Workers,
          PerHost,       \* --metrics-per-host
          MaxBatch,      \* MAX_BATCH_SIZE
          Setups         \* name -> what happens

VARIABLE setup           \* the setup of this behaviour

Coming      == Setups[setup].ingresses  \* the ingresses that come and go
Lossy       == Setups[setup].lossy      \* may the socket fail?
MaxRequests == Setups[setup].requests   \* bound on the requests
MaxChanges  == Setups[setup].changes    \* bound on the changes of the store

VARIABLES store,      \* ingresses of the store
          pending,    \* is a sync requested?
          sync,       \* the sync under way, None if there is none
          running,    \* runningConfig
          master,     \* what the NGINX master has loaded
          conf,       \* what a worker runs
          batch,      \* metrics_raw_batch of a worker
          wire,       \* batches sent: [items, st], in the order they were sent
          hosts,      \* hosts of the socket collector
          series,     \* request series
          expiry,     \* hosts that have a certificate gauge
          count,      \* requests counted, skipped and lost, and all of them
          changes,
          ever        \* history: hosts that were ever served

reporting == <<hosts, series, expiry>>
workers   == <<master, conf, batch>>
vars      == <<store, pending, sync, running, master, conf, batch, wire, hosts, series, expiry,
               count, changes, ever>>

HostsOf(c) == {HostOf[i] : i \in c}
Items(c)   == {<<HostOf[i], i>> : i \in c} \cup {<<Stray, None>>}

(***************************************************************************)
(* monitor.lua                                                             *)
(***************************************************************************)
Full(w) == Len(batch[w]) >= MaxBatch

\* A request ends in worker w; a full batch takes no more.
call(w, x) ==
    /\ count.all < MaxRequests
    /\ x \in Items(conf[w])
    /\ IF Full(w)
       THEN /\ count' = [count EXCEPT !.all = @ + 1, !.lost = @ + 1]
            /\ UNCHANGED batch
       ELSE /\ count' = [count EXCEPT !.all = @ + 1]
            /\ batch' = [batch EXCEPT ![w] = Append(@, x)]
    /\ UNCHANGED <<store, pending, sync, running, master, conf, wire, reporting, changes, ever>>

\* Mutant: the batch is cleared when it is sent, not before.
KeepBatch(b) == b

\* The batch is cleared before the send, which yields to other requests.
ClearBatch(b) == <<>>

flush(w) ==
    /\ batch[w] # <<>>
    /\ wire' = Append(wire, [items |-> batch[w], st |-> "sent"])
    /\ batch' = [batch EXCEPT ![w] = ClearBatch(@)]
    /\ UNCHANGED <<store, pending, sync, running, master, conf, reporting, count, changes, ever>>

\* connect, send or close raise an error, or a message cannot be read.
Lose(k) ==
    /\ Lossy
    /\ k \in DOMAIN wire
    /\ wire[k].st = "sent"
    /\ count' = [count EXCEPT !.lost = @ + Len(wire[k].items)]
    /\ wire' = RemoveAt(wire, k)
    /\ UNCHANGED <<store, pending, sync, running, workers, reporting, changes, ever>>

\* A worker of the old configuration ends; its timer is premature and sends nothing.
Replace(w) ==
    /\ conf[w] # master
    /\ conf' = [conf EXCEPT ![w] = master]
    /\ batch' = [batch EXCEPT ![w] = <<>>]
    /\ count' = [count EXCEPT !.lost = @ + Len(batch[w])]
    /\ UNCHANGED <<store, pending, sync, running, master, wire, reporting, changes, ever>>

(***************************************************************************)
(* The socket collector                                                    *)
(***************************************************************************)
\* A connection is accepted and read to its end, in a goroutine of its own.
handleMessages(k) ==
    /\ k \in DOMAIN wire
    /\ wire[k].st = "sent"
    /\ wire' = [wire EXCEPT ![k].st = "read"]
    /\ UNCHANGED <<store, pending, sync, running, workers, reporting, count, changes, ever>>

\* Message k without its first item.
Rest(k) == IF Len(wire[k].items) = 1 THEN RemoveAt(wire, k)
           ELSE [wire EXCEPT ![k] = [items |-> Tail(@.items), st |-> "read"]]

HostServed(h) == PerHost => h \in hosts

\* handleMessage looks whether the host of the next item is served,
Check(k) ==
    /\ k \in DOMAIN wire
    /\ wire[k].st = "read"
    /\ IF HostServed(Head(wire[k].items)[1])
       THEN /\ wire' = [wire EXCEPT ![k].st = "checked"]
            /\ UNCHANGED count
       ELSE /\ wire' = Rest(k)
            /\ count' = [count EXCEPT !.skipped = @ + 1]
    /\ UNCHANGED <<store, pending, sync, running, workers, reporting, changes, ever>>

\* and counts it, in a series that is created if there is none.
Count(k) ==
    /\ k \in DOMAIN wire
    /\ wire[k].st = "checked"
    /\ series' = series \cup {Head(wire[k].items)}
    /\ count' = [count EXCEPT !.counted = @ + 1]
    /\ wire' = Rest(k)
    /\ UNCHANGED <<store, pending, sync, running, workers, hosts, expiry, changes, ever>>

(***************************************************************************)
(* The store and syncs                                                     *)
(***************************************************************************)
Change(i) ==
    /\ changes < MaxChanges
    /\ changes' = changes + 1
    /\ store' = IF i \in store THEN store \ {i} ELSE store \cup {i}
    /\ pending' = TRUE
    /\ UNCHANGED <<sync, running, workers, wire, reporting, count, ever>>

\* Mutant: the hosts are set once, by the first sync.
HostsOnce(c) == IF hosts = {} THEN HostsOf(c) ELSE hosts

SetHosts(c) == HostsOf(c)

SetSSLExpireTime(c) == expiry \cup HostsOf(c)

\* The certificates are reported, and the hosts set unless nothing has changed.
syncIngress ==
    /\ pending
    /\ sync = None
    /\ pending' = FALSE
    /\ expiry' = SetSSLExpireTime(store)
    /\ IF store = running THEN UNCHANGED <<sync, hosts>>
       ELSE /\ hosts' = SetHosts(store)
            /\ sync' = [cfg |-> store, st |-> "reload", seen |-> {}]
    /\ ever' = ever \cup HostsOf(store)
    /\ UNCHANGED <<store, running, workers, wire, series, count, changes>>

\* OnUpdate: NGINX accepts the configuration, or the queue tries again later.
OnUpdate ==
    /\ sync # None
    /\ sync.st = "reload"
    /\ IF sync.cfg \cap Broken = {}
       THEN /\ master' = sync.cfg
            /\ sync' = [sync EXCEPT !.st = "gather"]
            /\ UNCHANGED pending
       ELSE /\ sync' = None
            /\ pending' = TRUE
            /\ UNCHANGED master
    /\ UNCHANGED <<store, running, conf, batch, wire, reporting, count, changes, ever>>

Gather ==
    /\ sync # None
    /\ sync.st = "gather"
    /\ sync' = [sync EXCEPT !.st = "remove", !.seen = series]
    /\ UNCHANGED <<store, pending, running, workers, wire, reporting, count, changes, ever>>

getRemovedHosts(old, new) == HostsOf(old) \ HostsOf(new)

getRemovedIngresses(old, new) == old \ new

\* What was gathered of the removed ingresses and hosts is deleted.
RemoveMetrics ==
    /\ sync # None
    /\ sync.st = "remove"
    /\ series' = series \ {x \in sync.seen : x[2] \in getRemovedIngresses(running, sync.cfg)}
    /\ expiry' = expiry \ getRemovedHosts(running, sync.cfg)
    /\ running' = sync.cfg
    /\ sync' = None
    /\ UNCHANGED <<store, pending, workers, wire, hosts, count, changes, ever>>

(***************************************************************************)
(* Specification                                                           *)
(***************************************************************************)
Init ==
    /\ setup \in DOMAIN Setups
    /\ store = {} /\ running = {} /\ master = {}
    /\ pending = FALSE /\ sync = None
    /\ conf = [w \in Workers |-> {}]
    /\ batch = [w \in Workers |-> <<>>]
    /\ wire = <<>>
    /\ hosts = {} /\ series = {} /\ expiry = {}
    /\ count = [all |-> 0, counted |-> 0, skipped |-> 0, lost |-> 0]
    /\ changes = 0
    /\ ever = {}

Step ==
    \/ \E w \in Workers : \/ \E x \in Items(Ingresses) : call(w, x)
                          \/ flush(w) \/ Replace(w)
    \/ \E k \in DOMAIN wire : Lose(k) \/ handleMessages(k) \/ Check(k) \/ Count(k)
    \/ \E i \in Coming : Change(i)
    \/ syncIngress \/ OnUpdate \/ Gather \/ RemoveMetrics

Next == Step /\ UNCHANGED setup

\* Timers fire, goroutines run, and the queue brings every request to syncIngress.
Fairness ==
    /\ \A w \in Workers : WF_vars(flush(w)) /\ WF_vars(Replace(w))
    /\ WF_vars(\E k \in DOMAIN wire : handleMessages(k) \/ Check(k) \/ Count(k))
    /\ WF_vars(syncIngress) /\ WF_vars(OnUpdate) /\ WF_vars(Gather) /\ WF_vars(RemoveMetrics)

Spec == Init /\ [][Next]_<<vars, setup>> /\ Fairness

(***************************************************************************)
(* Properties                                                              *)
(***************************************************************************)
TypeOK ==
    /\ store \subseteq Ingresses /\ running \subseteq Ingresses
    /\ \A w \in Workers : Len(batch[w]) <= MaxBatch
    /\ series \subseteq Items(Ingresses)
    /\ expiry \subseteq HostsOf(Ingresses)
    /\ sync = None \/ sync.st \in {"reload", "gather", "remove"}

\* Requests are logged while a batch is being sent: every request is in a batch or
\* on its way, or was counted, skipped or lost, exactly once (monitor.lua flush).
InBatches == FoldSet(LAMBDA w, n : n + Len(batch[w]), 0, Workers)
OnTheWay  == FoldSet(LAMBDA k, n : n + Len(wire[k].items), 0, DOMAIN wire)
Accounted == count.all = InBatches + OnTheWay + count.counted + count.skipped + count.lost

\* "This set of hostnames is used to filter the metrics to be exposed" (SetHosts):
\* whatever hosts clients send, and however syncs and messages interleave, there are
\* no more series than hosts that were once served.
OnlyServedHosts == PerHost => \A x \in series : x[1] \in ever

\* "SetHosts sets the hostnames that are being served by the ingress controller":
\* once the store stays at something NGINX accepts, those are the hosts of what NGINX
\* runs, whatever was tried before.
Settled == <>[](store \cap Broken = {})
HostsAreServed == Settled => <>[](hosts = HostsOf(master))

\* "RemoveMetrics removes metrics for hostnames not available anymore": once the
\* store stays at something NGINX accepts, the expiry of a certificate is reported for
\* the hosts that NGINX serves and for no others.
ExpiryFollows == Settled => <>[](expiry = HostsOf(master))

\* "RemoveMetrics deletes prometheus metrics from prometheus for ingresses and host
\* that are not available anymore" (socket.go): once the store stays as it is, no
\* series of a removed ingress is left.
RemovedAreGone == <>[](\A x \in series : x[2] = None \/ x[2] \in store)
=============================================================================
