-------------------------- MODULE LuaBackendsProofs -------------------------
(***************************************************************************)
(* Proofs about LuaBackends, for any number of worker processes, names and *)
(* lists.                                                                  *)
(***************************************************************************)
EXTENDS LuaBackends, TLAPS

\* Until a list has its stamp, the present second is later than every stamp a
\* worker knows: the stamp to come will be new to all of them.
Seconds ==
  /\ stamp <= clock
  /\ \A w \in NginxWorkers :
       IF post = "created" THEN last[w] <= stamp /\ wraw[w] <= stamp
                           ELSE last[w] < clock /\ wraw[w] < clock
  /\ post # "created" => stamp < clock

\* A list with a stamp is the one in the dictionary.
Stored ==
  /\ post \in {"reading", "stored", "created"} => body \in Lists
  /\ post \in {"stored", "created"} => data = body

\* The timers for ExternalName services never touch the other names.
Untouched ==
  \A w \in NginxWorkers, n \in NeverExternal :
    external[w][n] = None /\ \A b \in External : <<n, b>> \notin resolving[w]

LInv == TypeOK /\ Seconds /\ Stored /\ Untouched /\ NoStaleWorker

LEMMA LInvInit == Init => LInv
<1> SUFFICES ASSUME Init PROVE LInv
  OBVIOUS
<1> USE LuaAssumption
<1>1. TypeOK
  <2>1. /\ wpc \in [NginxWorkers -> {"idle", "data"}]
        /\ wraw \in [NginxWorkers -> 0..MaxClock] /\ last \in [NginxWorkers -> 0..MaxClock]
    BY DEF Init
  <2>2. Nothing \in [Names -> Backends \cup {None}] /\ Nothing \in [Names -> External \cup {None}]
    BY DEF Nothing
  <2>3. /\ balancers \in [NginxWorkers -> [Names -> Backends \cup {None}]]
        /\ external \in [NginxWorkers -> [Names -> External \cup {None}]]
        /\ resolving \in [NginxWorkers -> SUBSET (Names \X External)]
    BY <2>2 DEF Init
  <2> QED
    BY <2>1, <2>3 DEF Init, TypeOK
<1>2. Seconds /\ Stored /\ NoStaleWorker
  BY DEF Init, Seconds, Stored, NoStaleWorker, CaughtUp
<1>3. Untouched
  BY DEF Init, Untouched, NeverExternal, Nothing
<1> QED
  BY <1>1, <1>2, <1>3 DEF LInv

-----------------------------------------------------------------------------
(* Types *)

LEMMA LuaTypes == TypeOK /\ [Next]_vars => TypeOK'
<1> SUFFICES ASSUME TypeOK, [Next]_vars PROVE TypeOK'
  OBVIOUS
<1> USE LuaAssumption
<1>1. ASSUME NEW list \in Lists, Post(list) PROVE TypeOK'
  BY <1>1 DEF Post, TypeOK, workVars
<1>2. CASE HandleBackends
  BY <1>2 DEF HandleBackends, StoreBackends, StoreBackendsFails, StoreStamp,
     StoreStampFails, TypeOK, workVars
<1>3. ASSUME NEW w \in NginxWorkers, ReadStamp(w) PROVE TypeOK'
  BY <1>3 DEF ReadStamp, TypeOK, postVars
<1>4. ASSUME NEW w \in NginxWorkers, SyncBackends(w) PROVE TypeOK'
  <2>1. balancers' \in [NginxWorkers -> [Names -> Backends \cup {None}]]
    <3>1. Nothing \in [Names -> Backends \cup {None}]
      BY DEF Nothing
    <3>2. ASSUME data # None
          PROVE  KeptBalancers(data, balancers[w]) \in [Names -> Backends \cup {None}]
      BY <3>2 DEF KeptBalancers, BalancerFor, TypeOK, Backends
    <3> QED
      BY <1>4, <3>1, <3>2 DEF SyncBackends, TypeOK
  <2>2. external' \in [NginxWorkers -> [Names -> External \cup {None}]]
    <3>1. ASSUME data # None
          PROVE  KeptExternal(data, external[w], balancers[w])
                   \in [Names -> External \cup {None}]
      BY <3>1 DEF KeptExternal, TypeOK
    <3> QED
      BY <1>4, <3>1 DEF SyncBackends, TypeOK
  <2>3. /\ last' \in [NginxWorkers -> 0..MaxClock] /\ wraw' \in [NginxWorkers -> 0..MaxClock]
        /\ wpc' \in [NginxWorkers -> {"idle", "data"}]
    BY <1>4 DEF SyncBackends, TypeOK
  <2> QED
    BY <1>4, <2>1, <2>2, <2>3 DEF SyncBackends, TypeOK, postVars
<1>5. ASSUME NEW w \in NginxWorkers, StartWorker(w) PROVE TypeOK'
  <2>1. Nothing \in [Names -> Backends \cup {None}] /\ Nothing \in [Names -> External \cup {None}]
    BY DEF Nothing
  <2> QED
    BY <1>5, <2>1 DEF StartWorker, TypeOK, postVars
<1>6. ASSUME NEW w \in NginxWorkers, NEW n \in Names, StartResolve(w, n) PROVE TypeOK'
  <2>1. balancers' \in [NginxWorkers -> [Names -> Backends \cup {None}]]
    <3>1. [balancers[w] EXCEPT ![n] = None] \in [Names -> Backends \cup {None}]
      BY DEF TypeOK
    <3>2. [balancers EXCEPT ![w][n] = None] \in [NginxWorkers -> [Names -> Backends \cup {None}]]
      BY <3>1 DEF TypeOK
    <3> QED
      BY <1>6, <3>2 DEF StartResolve, TypeOK
  <2>2. resolving' \in [NginxWorkers -> SUBSET (Names \X External)]
    BY <1>6 DEF StartResolve, TypeOK
  <2> QED
    BY <1>6, <2>1, <2>2 DEF StartResolve, TypeOK, postVars
<1>7. ASSUME NEW w \in NginxWorkers, NEW n \in Names, NEW b \in External,
             FinishResolve(w, n, b)
      PROVE  TypeOK'
  <2>1. balancers' \in [NginxWorkers -> [Names -> Backends \cup {None}]]
    BY <1>7 DEF FinishResolve, TypeOK, Backends
  <2>2. resolving' \in [NginxWorkers -> SUBSET (Names \X External)]
    BY <1>7 DEF FinishResolve, TypeOK
  <2> QED
    BY <1>7, <2>1, <2>2 DEF FinishResolve, TypeOK, postVars
<1>8. CASE Tick
  BY <1>8 DEF Tick, TypeOK, postVars, workVars
<1>9. CASE UNCHANGED vars
  BY <1>9 DEF vars, TypeOK, postVars, workVars
<1> QED
  BY <1>1, <1>2, <1>3, <1>4, <1>5, <1>6, <1>7, <1>8, <1>9 DEF Next

-----------------------------------------------------------------------------
(* No stale worker *)

\* Steps of the controller and of the handler leave the workers alone.
LEMMA PostStep ==
  ASSUME LInv, Apart > 0,
         (\E list \in Lists : Post(list)) \/ HandleBackends \/ Tick \/ UNCHANGED vars
  PROVE  Seconds' /\ Stored' /\ Untouched' /\ NoStaleWorker'
<1> USE LuaAssumption
<1>1. Untouched'
  <2>1. UNCHANGED <<external, resolving>>
    BY DEF Post, HandleBackends, StoreBackends, StoreBackendsFails, StoreStamp,
       StoreStampFails, Tick, vars, workVars
  <2> QED
    BY <2>1 DEF LInv, Untouched
<1>2. ASSUME NEW list \in Lists, Post(list) PROVE Seconds' /\ Stored' /\ NoStaleWorker'
  BY <1>2 DEF Post, LInv, Seconds, Stored, NoStaleWorker, CaughtUp, TypeOK, workVars
<1> DEFINE Times == /\ clock \in Int /\ stamp \in Int /\ 1 < clock
                    /\ \A w \in NginxWorkers : last[w] \in Int /\ wraw[w] \in Int
<1>0. Times
  BY DEF LInv, TypeOK
<1>3. CASE StoreBackends
  <2>1. Seconds'
    BY <1>3 DEF StoreBackends, LInv, Seconds, workVars
  <2> QED
    BY <1>1, <1>3, <2>1 DEF StoreBackends, LInv, Stored, NoStaleWorker, CaughtUp
<1>4. CASE StoreBackendsFails
  <2>1. Seconds'
    BY <1>4 DEF StoreBackendsFails, LInv, Seconds, workVars
  <2> QED
    BY <1>1, <1>4, <2>1 DEF StoreBackendsFails, Stored, NoStaleWorker, CaughtUp
<1>5. CASE StoreStamp
  <2>1. Seconds' /\ \A w \in NginxWorkers : ~(stamp' <= last'[w])
    BY <1>0, <1>5 DEF StoreStamp, LInv, Seconds, workVars
  <2> QED
    BY <1>1, <1>5, <2>1 DEF StoreStamp, LInv, Stored, NoStaleWorker, CaughtUp
<1>6. CASE StoreStampFails
  <2>1. Seconds'
    BY <1>0, <1>6 DEF StoreStampFails, LInv, Seconds, workVars
  <2> QED
    BY <1>1, <1>6, <2>1 DEF StoreStampFails, Stored, NoStaleWorker, CaughtUp
<1>7. CASE Tick
  <2>1. Seconds'
    BY <1>0, <1>7 DEF Tick, LInv, Seconds, workVars, postVars
  <2> QED
    BY <1>1, <1>7, <2>1 DEF Tick, LInv, Stored, NoStaleWorker, CaughtUp, Wanted, workVars, postVars
<1>8. CASE UNCHANGED vars
  BY <1>1, <1>8 DEF vars, LInv, Seconds, Stored, NoStaleWorker, CaughtUp, Wanted, workVars, postVars
<1> QED
  BY <1>1, <1>2, <1>3, <1>4, <1>5, <1>6, <1>7, <1>8 DEF HandleBackends

LEMMA WorkerStep ==
  ASSUME LInv, NEW w \in NginxWorkers,
         \/ ReadStamp(w) \/ SyncBackends(w) \/ StartWorker(w)
         \/ \E n \in Names : StartResolve(w, n)
         \/ \E n \in Names, b \in External : FinishResolve(w, n, b)
  PROVE  Seconds' /\ Stored' /\ Untouched' /\ NoStaleWorker'
<1> USE LuaAssumption
<1>1. UNCHANGED <<clock, data, stamp, post, body>>
  BY DEF ReadStamp, SyncBackends, StartWorker, StartResolve, FinishResolve, postVars
<1>2. Stored'
  BY <1>1 DEF LInv, Stored
<1>3. CASE ReadStamp(w)
  BY <1>1, <1>2, <1>3 DEF ReadStamp, LInv, Seconds, Untouched, NoStaleWorker, CaughtUp, TypeOK
<1>4. CASE SyncBackends(w)
  <2>1. Seconds'
    BY <1>1, <1>4 DEF SyncBackends, LInv, Seconds, TypeOK
  <2>2. Untouched'
    <3>1. ASSUME NEW n \in NeverExternal, data # None
          PROVE  KeptExternal(data, external[w], balancers[w])[n] = None
      BY <3>1 DEF KeptExternal, NeverExternal, LInv, Untouched, TypeOK
    <3> QED
      BY <1>4, <3>1 DEF SyncBackends, LInv, Untouched, TypeOK
  <2>3. NoStaleWorker'
    <3> SUFFICES ASSUME NEW v \in NginxWorkers, NEW n \in NeverExternal, CaughtUp(v)'
                 PROVE  balancers'[v][n] = Wanted(body, n)
      BY <1>1 DEF NoStaleWorker, Wanted
    <3>1. CASE v # w
      BY <1>1, <1>4, <3>1 DEF SyncBackends, LInv, NoStaleWorker, CaughtUp, TypeOK
    <3>2. CASE v = w
      <4>1. data = body /\ body \in Lists /\ n \in Names /\ body[n] \notin External
        BY <1>1 DEF CaughtUp, LInv, Stored, NeverExternal
      <4>2. balancers'[w] = KeptBalancers(data, balancers[w])
        BY <1>4, <4>1 DEF SyncBackends, LInv, TypeOK
      <4>3. body[n] \in Plain \/ body[n] = Absent
        BY <4>1
      <4> QED
        BY <3>2, <4>1, <4>2, <4>3 DEF KeptBalancers, Wanted
    <3> QED
      BY <3>1, <3>2
  <2> QED
    BY <1>2, <2>1, <2>2, <2>3
<1>5. CASE StartWorker(w)
  <2>1. Seconds'
    BY <1>1, <1>5 DEF StartWorker, LInv, Seconds, TypeOK
  <2>2. Untouched'
    BY <1>5 DEF StartWorker, LInv, Untouched, Nothing, TypeOK, NeverExternal
  <2>3. NoStaleWorker'
    BY <1>1, <1>5 DEF StartWorker, LInv, NoStaleWorker, CaughtUp, TypeOK, Wanted, BalancerFor
  <2> QED
    BY <1>2, <2>1, <2>2, <2>3
<1>6. ASSUME NEW n \in Names, StartResolve(w, n)
      PROVE  Seconds' /\ Stored' /\ Untouched' /\ NoStaleWorker'
  <2>1. n \notin NeverExternal
    BY <1>6 DEF StartResolve, LInv, Untouched
  <2>2. Seconds'
    BY <1>1, <1>6 DEF StartResolve, LInv, Seconds
  <2>3. Untouched'
    <3>1. CASE external[w][n] \in WithoutEndpoints
      BY <1>6, <3>1 DEF StartResolve, LInv, Untouched
    <3>2. CASE external[w][n] \notin WithoutEndpoints
      <4>1. \A v \in NginxWorkers : resolving'[v] \subseteq resolving[v] \cup {<<n, external[w][n]>>}
        BY <1>6, <3>2 DEF StartResolve, LInv, TypeOK
      <4>2. external' = external
        BY <1>6 DEF StartResolve
      <4> QED
        BY <2>1, <4>1, <4>2 DEF LInv, Untouched
    <3> QED
      BY <3>1, <3>2
  <2>4. \A v \in NginxWorkers, m \in NeverExternal : balancers'[v][m] = balancers[v][m]
    <3>1. CASE external[w][n] \in WithoutEndpoints
      BY <1>6, <2>1, <3>1 DEF StartResolve, LInv, TypeOK, NeverExternal
    <3>2. CASE external[w][n] \notin WithoutEndpoints
      BY <1>6, <3>2 DEF StartResolve
    <3> QED
      BY <3>1, <3>2
  <2>5. NoStaleWorker'
    BY <1>1, <1>6, <2>4 DEF StartResolve, LInv, NoStaleWorker, CaughtUp, Wanted, BalancerFor
  <2> QED
    BY <1>2, <2>2, <2>3, <2>5
<1>7. ASSUME NEW n \in Names, NEW b \in External, FinishResolve(w, n, b)
      PROVE  Seconds' /\ Stored' /\ Untouched' /\ NoStaleWorker'
  <2>1. n \notin NeverExternal
    BY <1>7 DEF FinishResolve, LInv, Untouched
  <2>2. Seconds'
    BY <1>1, <1>7 DEF FinishResolve, LInv, Seconds
  <2>3. Untouched'
    BY <1>7, <2>1 DEF FinishResolve, LInv, Untouched, TypeOK
  <2>4. \A v \in NginxWorkers, m \in NeverExternal : balancers'[v][m] = balancers[v][m]
    BY <1>7, <2>1 DEF FinishResolve, LInv, TypeOK, NeverExternal
  <2>5. NoStaleWorker'
    BY <1>1, <1>7, <2>4 DEF FinishResolve, LInv, NoStaleWorker, CaughtUp, Wanted, BalancerFor
  <2> QED
    BY <1>2, <2>2, <2>3, <2>5
<1> QED
  BY <1>3, <1>4, <1>5, <1>6, <1>7

LEMMA LInvNext ==
  ASSUME LInv, Apart > 0, [Next]_vars
  PROVE  LInv'
<1>1. TypeOK'
  BY LuaTypes DEF LInv
<1>2. Seconds' /\ Stored' /\ Untouched' /\ NoStaleWorker'
  BY PostStep, WorkerStep DEF Next
<1> QED
  BY <1>1, <1>2 DEF LInv

\* Type correctness of the dictionary and of the workers' tables.
THEOREM LuaTypeCorrect == Safety => []TypeOK
<1>1. Init => TypeOK
  BY LInvInit DEF LInv
<1> QED
  BY <1>1, LuaTypes, PTL DEF Safety

\* However many worker processes there are, and whenever they are restarted: if a
\* list is never POSTed in the second of the previous one's stamp, a worker that
\* sees nothing to pick up has the balancers of the list last acknowledged, for
\* every name that is never an ExternalName service.
THEOREM NoWorkerStale ==
  ASSUME Apart > 0
  PROVE  Safety => []NoStaleWorker
<1>1. LInv /\ [Next]_vars => LInv'
  BY LInvNext
<1>2. LInv => NoStaleWorker
  BY DEF LInv
<1> QED
  BY <1>1, <1>2, LInvInit, PTL DEF Safety
=============================================================================
