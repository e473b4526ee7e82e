--------------------------- MODULE OperatorProofs ---------------------------
(***************************************************************************)
(* Proofs about the QuakeServer controller, for any set of names, specs,   *)
(* kinds of children and any bound on what users do and what fails.        *)
(*                                                                         *)
(* The first argument is about the finalizer.  Only the worker removes it, *)
(* at "finalize", and only from a server that is being deleted.  A cache   *)
(* is old, but old in one direction: a cached server with a finalizer that *)
(* is not being deleted is still in the API server, with that finalizer.   *)
(*                                                                         *)
(* The second, which rests on the first, is about the queue: what the      *)
(* worker has done for a name follows from what the caches say, or the     *)
(* name is in the queue, or will be put there by news on its way.          *)
(***************************************************************************)
EXTENDS Operator, FiniteSetTheorems, TLAPS

-----------------------------------------------------------------------------
(* The inductive invariant.                                                *)

\* Uids are never used again.
UidsAreOld ==
    /\ \A n \in Names : /\ Exists(n) => api[n].uid < ops
                        /\ cache[n] # None => cache[n].uid < ops
    /\ w.pc # "idle" => w.obj.uid < ops

\* What a cache says of a server's deletion or finalizer still holds of it.
CacheIsOldOneWay ==
    \A n \in Names : cache[n] # None =>
        /\ OwnerAlive(n, cache[n].uid) /\ cache[n].deleting => api[n].deleting
        /\ cache[n].finalizer /\ ~cache[n].deleting
               => OwnerAlive(n, cache[n].uid) /\ api[n].finalizer

\* The worker removes a finalizer only when everybody knows of the deletion.
FinalizesDeleted ==
    w.pc = "finalize" =>
        /\ w.obj.deleting
        /\ OwnerAlive(w.name, w.obj.uid) =>
               /\ api[w.name].deleting
               /\ cache[w.name] # None /\ cache[w.name].deleting

OperatorInv == /\ TypeOK
               /\ UidsAreOld
               /\ CacheIsOldOneWay
               /\ FinalizesDeleted
               /\ ReconciledServerExists
               /\ PlayerGaugeHasServer

-----------------------------------------------------------------------------
(* Types.                                                                  *)

USE OperatorAssumption, NoneAssumption

LEMMA InitTypeOK == Init => TypeOK
  <1>1. Len(Kinds) \in Nat
    OBVIOUS
  <1> QED
    BY <1>1 DEF Init, TypeOK, Idle, Pcs

\* The worker's next states, one per form they take.
LEMMA RequeueType ==
    ASSUME TypeOK, Requeue, w.pc # "idle"
    PROVE  /\ w'.pc = "idle" /\ w'.kind = 0
           /\ dirty' \subseteq Names /\ refresh' \subseteq Names
  BY DEF TypeOK, Requeue, Idle

LEMMA PutFailsType ==
    ASSUME TypeOK, NEW new \in Server \cup {None}, PutFails(new), w.pc # "idle",
           UNCHANGED <<child, childNews, template, cacheVars, metricVars>>
    PROVE  TypeOK'
  <1>1. Len(Kinds) \in Nat
    OBVIOUS
  <1>2. api' \in [Names -> Server \cup {None}]
    BY DEF TypeOK, PutFails, Put, envVars, Fault
  <1>3. ops' \in Nat /\ faults' \in Nat /\ lost' \in 0..faults'
    BY DEF TypeOK, PutFails, envVars, Fault
  <1>4. Requeue
    BY DEF PutFails
  <1> QED
    BY <1>1, <1>2, <1>3, <1>4, RequeueType DEF TypeOK, cacheVars, metricVars, Pcs

LEMMA SpecsAndStatus ==
    ASSUME NEW o \in Server
    PROVE  /\ o.uid \in Nat /\ o.spec \in Specs /\ o.spec.cfg \in Configs
           /\ o.status \in Status
           /\ \A s \in Status : [o EXCEPT !.status = s] \in Server
           /\ [o EXCEPT !.finalizer = TRUE] \in Server
           /\ [o EXCEPT !.deleting = TRUE] \in Server
           /\ \A spec \in Specs : [o EXCEPT !.spec = spec] \in Server
  BY DEF Server, Spec0

\* Every step of Reconcile that writes a QuakeServer back.
LEMMA ServerWritesTypeOK ==
    TypeOK /\ (AddFinalizer \/ RemoveFinalizer \/ RecordUnresolved \/ PublishStatus) => TypeOK'
  <1> SUFFICES ASSUME TypeOK, AddFinalizer \/ RemoveFinalizer \/ RecordUnresolved \/ PublishStatus
               PROVE  TypeOK'
    OBVIOUS
  <1>l. Len(Kinds) \in Nat
    OBVIOUS
  <1>1. CASE AddFinalizer
    <2> DEFINE new == [w.obj EXCEPT !.finalizer = TRUE]
    <2>1. new \in Server /\ w.name \in Names
      BY <1>1, SpecsAndStatus DEF AddFinalizer, TypeOK
    <2>2. CASE Put(new) /\ Requeue /\ UNCHANGED envVars
      BY <1>1, <1>l, <2>1, <2>2, RequeueType
         DEF AddFinalizer, TypeOK, Put, Pcs, cacheVars, metricVars, envVars
    <2>3. CASE PutFails(new)
      BY <1>1, <2>1, <2>3, PutFailsType DEF AddFinalizer
    <2> QED
      BY <1>1, <2>2, <2>3 DEF AddFinalizer
  <1>2. CASE RemoveFinalizer
    <2>1. CASE PutFails(None)
      BY <1>2, <2>1, PutFailsType DEF RemoveFinalizer
    <2>2. CASE Put(None) /\ w' = [w EXCEPT !.pc = "forget"] /\ UNCHANGED <<queueVars, envVars>>
      <3>1. w'.pc = "forget" /\ w'.name = w.name /\ w'.obj = w.obj /\ w'.kind = w.kind
        BY <2>2 DEF TypeOK
      <3> QED
        BY <1>2, <2>2, <3>1 DEF RemoveFinalizer, TypeOK, Put, Pcs, cacheVars, queueVars,
           metricVars, envVars
    <2> QED
      BY <1>2, <2>1, <2>2 DEF RemoveFinalizer
  <1>3. CASE RecordUnresolved
    <2> DEFINE new == [w.obj EXCEPT !.status = w.status]
    <2>1. new \in Server /\ w.name \in Names
      BY <1>3, SpecsAndStatus DEF RecordUnresolved, TypeOK
    <2>2. CASE Put(new) /\ Requeue /\ UNCHANGED envVars
      BY <1>3, <1>l, <2>1, <2>2, RequeueType
         DEF RecordUnresolved, TypeOK, Put, Pcs, cacheVars, metricVars, envVars
    <2>3. CASE PutFails(new)
      BY <1>3, <2>1, <2>3, PutFailsType DEF RecordUnresolved
    <2> QED
      BY <1>3, <2>2, <2>3 DEF RecordUnresolved
  <1>4. CASE PublishStatus
    <2> DEFINE new == [w.obj EXCEPT !.status = w.status]
    <2>1. new \in Server /\ w.name \in Names
      BY <1>4, SpecsAndStatus DEF PublishStatus, TypeOK
    <2>2. CASE PutFails(new)
      BY <1>4, <2>1, <2>2, PutFailsType DEF PublishStatus
    <2>3. CASE ~PutFails(new)
      <3>1. /\ Put(new) /\ w' = Idle /\ dirty' = dirty /\ UNCHANGED envVars
            /\ refresh' \in {refresh \cup {w.name}, refresh}
        BY <1>4, <2>3 DEF PublishStatus
      <3> QED
        BY <1>4, <1>l, <2>1, <3>1 DEF PublishStatus, TypeOK, Put, Pcs, Idle, cacheVars,
           metricVars, envVars
    <2> QED
      BY <2>2, <2>3
  <1> QED
    BY <1>1, <1>2, <1>3, <1>4

\* The other steps of the worker.
LEMMA WorkerTypeOK ==
    ASSUME TypeOK,
           Forget \/ ResolveConfig \/ Observe \/ \E n \in Names : Take(n) \/ Refresh(n)
    PROVE  TypeOK'
  <1>l. Len(Kinds) \in Nat /\ 1 \in 0..Len(Kinds)
    <2>1. Len(Kinds) # 0
      BY DEF KindSet
    <2> QED
      BY <2>1
  <1>c. Cardinality(Cached) \in Nat
    BY FS_Subset, FS_CardinalityType DEF Cached
  <1>1. CASE Forget
    BY <1>1, <1>l, <1>c DEF Forget, TypeOK, Idle, Pcs, apiVars, cacheVars, queueVars, envVars
  <1>2. CASE ResolveConfig
    <2> DEFINE spec == w.obj.spec
               config == <<spec.cfg, IF spec.ref THEN templateCache ELSE None>>
               st == [w.obj.status EXCEPT !.resolved = "no"]
    <2>1. /\ w.name \in Names /\ w.obj \in Server /\ w.kind \in 0..Len(Kinds)
          /\ spec \in Specs /\ spec.cfg \in Configs /\ w.obj.status \in Status
      BY <1>2, SpecsAndStatus DEF ResolveConfig, TypeOK
    <2>2. st \in Status /\ config \in Resolved
      BY <2>1 DEF Status, Resolved, TypeOK
    <2>3. /\ w'.name = w.name /\ w'.obj = w.obj
          /\ \/ w'.pc = "unresolved" /\ w'.status = st /\ w'.kind = w.kind
             \/ w'.pc = "child" /\ w'.kind = 1 /\ w'.config = config
      BY <1>2 DEF ResolveConfig, TypeOK
    <2> QED
      BY <1>2, <1>l, <2>1, <2>2, <2>3
         DEF ResolveConfig, TypeOK, Pcs, apiVars, cacheVars, queueVars, metricVars, envVars
  <1>3. CASE Observe
    <2>1. /\ w.name \in Names /\ w.obj \in Server /\ w.kind \in 0..Len(Kinds)
          /\ w.obj.status \in Status
      BY <1>3, SpecsAndStatus DEF Observe, TypeOK
    <2> DEFINE old == [w.obj.status EXCEPT
                          !.resolved = IF w.obj.spec.ref THEN "yes" ELSE @]
               down == [old EXCEPT !.ready = FALSE, !.players = 0]
    <2>2. old \in Status /\ down \in Status /\ [old EXCEPT !.ready = TRUE] \in Status
      BY <2>1 DEF Status
    <2>3. \A c \in Counts : [old EXCEPT !.ready = TRUE, !.players = c] \in Status
      BY <2>2 DEF Status
    <2>4. /\ \E s \in Status : w' = [w EXCEPT !.pc = "publish", !.status = s]
          /\ \/ players' = players
             \/ \E c \in Counts : players' = [players EXCEPT ![w.name] = c]
      BY <1>3, <2>2, <2>3, Zenon DEF Observe
    <2>5. w'.pc = "publish" /\ w'.name = w.name /\ w'.obj = w.obj /\ w'.kind = w.kind
          /\ w'.status \in Status
      BY <2>4
    <2>6. players' \in [Names -> Counts \cup {None}]
      BY <2>4 DEF TypeOK
    <2> QED
      BY <1>3, <2>1, <2>5, <2>6
         DEF Observe, TypeOK, Pcs, apiVars, cacheVars, queueVars, envVars
  <1>4. ASSUME NEW n \in Names, Take(n)
        PROVE  TypeOK'
    <2>1. CASE cache[n] = None
      BY <1>4, <2>1 DEF Take, TypeOK, apiVars, cacheVars, envVars
    <2>2. CASE cache[n] # None
      <3>1. cache[n] \in Server
        BY <2>2 DEF TypeOK
      <3>2. w'.name = n /\ w'.obj = cache[n] /\ w'.kind = 0
            /\ w'.pc \in {"finalize", "resolve", "adopt"}
        BY <1>4, <2>2 DEF Take, Idle
      <3>3. /\ active' \in Nat /\ dirty' = dirty \ {n}
            /\ UNCHANGED <<apiVars, cacheVars, refresh, players, envVars>>
        BY <1>4, <1>c, <2>2 DEF Take
      <3> QED
        BY <1>l, <3>1, <3>2, <3>3 DEF TypeOK, Pcs, apiVars, cacheVars, envVars
    <2> QED
      BY <2>1, <2>2
  <1>5. ASSUME NEW n \in Names, Refresh(n)
        PROVE  TypeOK'
    BY <1>5 DEF Refresh, TypeOK, apiVars, cacheVars, metricVars, envVars
  <1> QED
    BY <1>1, <1>2, <1>3, <1>4, <1>5

\* Whatever changes a child gives it a value of its type.
LEMMA PutChildType ==
    ASSUME TypeOK, NEW n \in Names, NEW k \in KindSet, NEW new \in Child \cup {None},
           PutChild(n, k, new)
    PROVE  /\ child' \in [Names -> [KindSet -> Child \cup {None}]]
           /\ childNews' \subseteq Names \X KindSet
  BY DEF PutChild, TypeOK

LEMMA ReconcileChildTypeOK ==
    ASSUME TypeOK, ReconcileChild
    PROVE  TypeOK'
  <1> DEFINE k == Kinds[w.kind]
             cached == childCache[w.name][k]
             new == [owner |-> w.obj.uid,
                     content |-> Desired(k, w.obj.spec, w.config),
                     ready |-> cached # None /\ cached.ready]
  <1>1. /\ w.name \in Names /\ w.obj \in Server /\ w.config \in Resolved
        /\ w.kind \in 1..Len(Kinds) /\ Len(Kinds) \in Nat
    BY DEF ReconcileChild, TypeOK
  <1>2. k \in KindSet
    BY <1>1 DEF KindSet
  <1>3. new \in Child
    <2>1. w.obj.uid \in Nat
      BY <1>1, SpecsAndStatus
    <2>2. Desired(k, w.obj.spec, w.config) \in Content
      BY <1>1 DEF Desired, Content
    <2>3. (cached # None /\ cached.ready) \in BOOLEAN
      <3>1. cached \in Child \cup {None}
        BY <1>1, <1>2 DEF TypeOK
      <3> QED
        BY <3>1 DEF Child
    <2> QED
      BY <2>1, <2>2, <2>3 DEF Child
  <1>4. /\ child' \in [Names -> [KindSet -> Child \cup {None}]]
        /\ childNews' \subseteq Names \X KindSet
    <2>1. UNCHANGED <<child, childNews>> \/ PutChild(w.name, k, new)
      BY DEF ReconcileChild
    <2> QED
      BY <1>1, <1>2, <1>3, <2>1, PutChildType DEF TypeOK
  <1>5. \/ w' = AfterChild /\ UNCHANGED queueVars
        \/ Requeue
    BY DEF ReconcileChild
  <1>6. ops' \in Nat /\ faults' \in Nat /\ lost' \in 0..faults'
    BY DEF ReconcileChild, TypeOK, Fault, envVars
  <1>7. CASE Requeue
    BY <1>1, <1>4, <1>6, <1>7, RequeueType
       DEF ReconcileChild, TypeOK, Pcs, cacheVars, metricVars
  <1>8. CASE w' = AfterChild /\ UNCHANGED queueVars
    <2>1. /\ w'.name = w.name /\ w'.obj = w.obj
          /\ \/ w'.pc = "child" /\ w'.config = w.config /\ w'.kind \in 1..Len(Kinds)
             \/ w'.pc = "observe" /\ w'.kind = 0
      BY <1>1, <1>8 DEF AfterChild, TypeOK, ReconcileChild
    <2> QED
      BY <1>1, <1>4, <1>6, <1>8, <2>1
         DEF ReconcileChild, TypeOK, Pcs, cacheVars, metricVars, queueVars
  <1> QED
    BY <1>5, <1>7, <1>8

\* Watches, restarts, Kubernetes and users.
Environment ==
    \/ SyncTemplate \/ Restart \/ User
    \/ \E n \in Names :
         \/ SyncServer(n) \/ DeploymentStatus(n)
         \/ \E k \in KindSet : SyncChild(n, k) \/ CollectGarbage(n, k)

LEMMA EnvironmentTypeOK ==
    ASSUME TypeOK, Environment
    PROVE  TypeOK'
  <1>l. Len(Kinds) \in Nat
    OBVIOUS
  <1>1. CASE SyncTemplate
    BY <1>1 DEF SyncTemplate, TypeOK, FindServersForTemplate, Cached, apiVars, metricVars, envVars
  <1>2. CASE Restart
    BY <1>2, <1>l DEF Restart, TypeOK, Fault, Idle, Pcs
  <1>3. ASSUME NEW n \in Names, SyncServer(n)
        PROVE  TypeOK'
    BY <1>3 DEF SyncServer, TypeOK, apiVars, metricVars, envVars
  <1>4. ASSUME NEW n \in Names, DeploymentStatus(n)
        PROVE  TypeOK'
    <2> DEFINE d == child[n]["Deployment"]
    <2>1. d \in Child
      BY <1>4 DEF DeploymentStatus, TypeOK
    <2>2. [d EXCEPT !.ready = ~@] \in Child
      BY <2>1 DEF Child
    <2> QED
      BY <1>4, <2>2, PutChildType DEF DeploymentStatus, TypeOK, cacheVars, queueVars, metricVars, envVars
  <1>5. ASSUME NEW n \in Names, NEW k \in KindSet, SyncChild(n, k)
        PROVE  TypeOK'
    BY <1>5 DEF SyncChild, TypeOK, metricVars, envVars
  <1>6. ASSUME NEW n \in Names, NEW k \in KindSet, CollectGarbage(n, k)
        PROVE  TypeOK'
    BY <1>6, PutChildType DEF CollectGarbage, TypeOK, cacheVars, queueVars, metricVars, envVars
  <1>7. ASSUME NEW n \in Names, NEW spec \in Specs, CreateServer(n, spec)
        PROVE  TypeOK'
    <2> DEFINE new == [uid |-> ops, spec |-> spec, deleting |-> FALSE, finalizer |-> FALSE,
                       status |-> [ready |-> FALSE, players |-> 0, resolved |-> "unset"]]
    <2>1. new \in Server
      BY DEF Server, Status, TypeOK
    <2>2. api' = [api EXCEPT ![n] = new]
      BY <1>7 DEF CreateServer
    <2>3. api' \in [Names -> Server \cup {None}]
      BY <2>1, <2>2 DEF TypeOK
    <2> QED
      BY <1>7, <2>3 DEF CreateServer, UserOp, TypeOK, cacheVars, queueVars, metricVars
  <1>8. ASSUME NEW n \in Names, NEW spec \in Specs, EditServer(n, spec)
        PROVE  TypeOK'
    <2>1. api[n] \in Server
      BY <1>8 DEF EditServer, Exists, TypeOK
    <2>2. [api[n] EXCEPT !.spec = spec] \in Server
      BY <2>1, SpecsAndStatus
    <2>3. api' = [api EXCEPT ![n] = [api[n] EXCEPT !.spec = spec]]
      BY <1>8 DEF EditServer
    <2>4. api' \in [Names -> Server \cup {None}]
      BY <2>2, <2>3 DEF TypeOK
    <2> QED
      BY <1>8, <2>4 DEF EditServer, UserOp, TypeOK, cacheVars, queueVars, metricVars
  <1>9. ASSUME NEW n \in Names, DeleteServer(n)
        PROVE  TypeOK'
    <2>1. [api[n] EXCEPT !.deleting = TRUE] \in Server
      BY <1>9, SpecsAndStatus DEF DeleteServer, Exists, TypeOK
    <2>2. api' \in [Names -> Server \cup {None}]
      BY <1>9, <2>1 DEF DeleteServer, TypeOK
    <2> QED
      BY <1>9, <2>2 DEF DeleteServer, UserOp, TypeOK, cacheVars, queueVars, metricVars
  <1>10. ASSUME NEW t \in Templates \cup {None}, ChangeTemplate(t)
         PROVE  TypeOK'
    BY <1>10 DEF ChangeTemplate, UserOp, TypeOK, cacheVars, queueVars, metricVars
  <1>11. ASSUME NEW n \in Names, NEW k \in KindSet, DeleteChild(n, k)
         PROVE  TypeOK'
    BY <1>11, PutChildType DEF DeleteChild, UserOp, TypeOK, cacheVars, queueVars, metricVars
  <1> QED
    BY <1>1, <1>2, <1>3, <1>4, <1>5, <1>6, <1>7, <1>8, <1>9, <1>10, <1>11 DEF Environment, User

LEMMA NextTypeOK == TypeOK /\ [Next]_vars => TypeOK'
  <1> SUFFICES ASSUME TypeOK, [Next]_vars
               PROVE  TypeOK'
    OBVIOUS
  <1>1. CASE UNCHANGED vars
    BY <1>1 DEF vars, TypeOK, apiVars, cacheVars, queueVars, metricVars, envVars
  <1>2. CASE Next
    BY <1>2, ServerWritesTypeOK, WorkerTypeOK, ReconcileChildTypeOK, EnvironmentTypeOK, Zenon
       DEF Next, Reconcile, Environment
  <1> QED
    BY <1>1, <1>2

\* The types of the variables are what the module says, in every behaviour.
THEOREM TypeCorrect == Spec => []TypeOK
  BY InitTypeOK, NextTypeOK, PTL DEF Spec

-----------------------------------------------------------------------------
(* The invariant.                                                          *)

LEMMA InitOperatorInv == Init => OperatorInv
  BY InitTypeOK DEF Init, OperatorInv, UidsAreOld, CacheIsOldOneWay, FinalizesDeleted,
     ReconciledServerExists, PlayerGaugeHasServer, Exists, Idle

\* The invariant without its types.
Rest == /\ UidsAreOld
        /\ CacheIsOldOneWay
        /\ FinalizesDeleted
        /\ ReconciledServerExists
        /\ PlayerGaugeHasServer

Reconciling == {"resolve", "unresolved", "child", "observe", "publish"}

\* No server leaves, and none loses a finalizer or its deletion.
ServersStay ==
    \A n \in Names :
        /\ Exists(n) => /\ Exists(n)' /\ api'[n].uid = api[n].uid
                        /\ api[n].deleting => api'[n].deleting
                        /\ api[n].finalizer => api'[n].finalizer
        /\ ~Exists(n) => ~Exists(n)'

\* The worker goes on with the same server, or puts it down.
WorkerGoesOn ==
    \/ w'.pc = "idle" /\ w.pc # "forget"
    \/ w' = w
    \/ w.pc \in Reconciling /\ w'.pc \in Reconciling /\ w'.name = w.name /\ w'.obj = w.obj

\* Only the server being reconciled gets a player gauge.
GaugesStay ==
    \A n \in Names : players'[n] # None => players[n] # None \/ (w.pc = "observe" /\ w.name = n)

\* All steps but those that create, remove, take up or notice a server.
LEMMA StayingSteps ==
    ASSUME OperatorInv, ServersStay, WorkerGoesOn, GaugesStay,
           cache' = cache, ops' \in {ops, ops + 1}, lost' = 0 => lost = 0
    PROVE  Rest'
  <1>1. ops \in Nat
    BY DEF OperatorInv, TypeOK
  <1>2. UidsAreOld'
    <2>1. ASSUME NEW n \in Names
          PROVE  (Exists(n)' => api'[n].uid < ops') /\ (cache'[n] # None => cache'[n].uid < ops')
      <3>1. Exists(n) => api[n].uid \in Nat /\ api[n].uid < ops
        BY DEF OperatorInv, UidsAreOld, TypeOK, Exists, Server
      <3>2. cache[n] # None => cache[n].uid \in Nat /\ cache[n].uid < ops
        BY DEF OperatorInv, UidsAreOld, TypeOK, Server
      <3> QED
        BY <1>1, <3>1, <3>2 DEF ServersStay
    <2>2. w'.pc # "idle" => w'.obj.uid < ops'
      <3>1. w.pc # "idle" => w.obj.uid \in Nat /\ w.obj.uid < ops
        BY SpecsAndStatus DEF OperatorInv, UidsAreOld, TypeOK
      <3>2. w'.pc # "idle" => w.pc # "idle" /\ w'.obj = w.obj
        BY DEF WorkerGoesOn, Reconciling
      <3> QED
        BY <1>1, <3>1, <3>2
    <2> QED
      BY <2>1, <2>2 DEF UidsAreOld
  <1>3. CacheIsOldOneWay'
    BY DEF OperatorInv, CacheIsOldOneWay, ServersStay, OwnerAlive
  <1>4. FinalizesDeleted'
    <2>1. w'.pc = "finalize" => w' = w /\ w.name \in Names
      BY DEF WorkerGoesOn, Reconciling, OperatorInv, TypeOK
    <2> QED
      BY <2>1 DEF OperatorInv, FinalizesDeleted, ServersStay, OwnerAlive
  <1>5. ReconciledServerExists'
    <2>1. w'.pc \in Reconciling => /\ w.pc \in Reconciling /\ w'.name = w.name
                                   /\ w'.obj = w.obj /\ w.name \in Names
      BY DEF WorkerGoesOn, Reconciling, OperatorInv, TypeOK
    <2> QED
      BY <2>1 DEF OperatorInv, ReconciledServerExists, ServersStay, OwnerAlive, Reconciling
  <1>6. PlayerGaugeHasServer'
    <2> SUFFICES ASSUME lost' = 0, NEW n \in Names, players'[n] # None
                 PROVE  \/ Exists(n)' /\ api'[n].finalizer
                        \/ w'.pc = "forget" /\ w'.name = n
      BY DEF PlayerGaugeHasServer
    <2>1. CASE w.pc = "observe" /\ w.name = n
      BY <2>1 DEF OperatorInv, ReconciledServerExists, ServersStay, OwnerAlive
    <2>2. CASE players[n] # None
      <3>1. \/ Exists(n) /\ api[n].finalizer
            \/ w.pc = "forget" /\ w.name = n
        BY <2>2 DEF OperatorInv, PlayerGaugeHasServer
      <3>2. w.pc = "forget" => w' = w
        BY DEF WorkerGoesOn, Reconciling
      <3> QED
        BY <3>1, <3>2 DEF ServersStay
    <2> QED
      BY <2>1, <2>2 DEF GaugesStay
  <1> QED
    BY <1>2, <1>3, <1>4, <1>5, <1>6 DEF Rest

\* A server written back with the same uid, deletion and finalizer stays.
LEMMA WriteStays ==
    ASSUME TypeOK, NEW n \in Names, Exists(n), NEW new \in Server,
           api' = [api EXCEPT ![n] = new], new.uid = api[n].uid,
           api[n].deleting => new.deleting, api[n].finalizer => new.finalizer
    PROVE  ServersStay
  BY DEF TypeOK, ServersStay, Exists

LEMMA UnchangedStays == api' = api => ServersStay
  BY DEF ServersStay, Exists

\* A refused or failed write changes nothing but a server that stays.
LEMMA PutFailsInv ==
    ASSUME OperatorInv, NEW new \in Server, PutFails(new), w.pc \notin {"idle", "forget"},
           new.uid = w.obj.uid, new.deleting = w.obj.deleting,
           w.obj.finalizer => new.finalizer,
           UNCHANGED <<cache, players>>
    PROVE  Rest'
  <1>1. w.name \in Names /\ w.obj \in Server /\ TypeOK
    BY DEF OperatorInv, TypeOK
  <1>2. ServersStay
    <2>1. CASE api' = api
      BY <2>1, UnchangedStays
    <2>2. CASE Put(new)
      BY <1>1, <2>2, WriteStays DEF Put, Exists
    <2> QED
      BY <2>1, <2>2 DEF PutFails
  <1>3. WorkerGoesOn
    BY DEF PutFails, Requeue, Idle, WorkerGoesOn
  <1>4. ops' = ops /\ (lost' = 0 => lost = 0)
    BY <1>1 DEF PutFails, Fault, envVars, TypeOK
  <1> QED
    BY <1>2, <1>3, <1>4, StayingSteps DEF GaugesStay

\* AddFinalizer, RecordUnresolved and PublishStatus write the server back.
LEMMA WriteBackInv ==
    ASSUME OperatorInv, AddFinalizer \/ RecordUnresolved \/ PublishStatus
    PROVE  Rest'
  <1> DEFINE new == IF AddFinalizer THEN [w.obj EXCEPT !.finalizer = TRUE]
                    ELSE [w.obj EXCEPT !.status = w.status]
  <1>1. /\ w.name \in Names /\ w.obj \in Server /\ TypeOK
        /\ w.pc \in {"adopt", "unresolved", "publish"}
    BY DEF OperatorInv, TypeOK, AddFinalizer, RecordUnresolved, PublishStatus
  <1>2. new \in Server
    BY <1>1, SpecsAndStatus DEF TypeOK, AddFinalizer, RecordUnresolved, PublishStatus
  <1>3. new.uid = w.obj.uid /\ new.deleting = w.obj.deleting /\ (w.obj.finalizer => new.finalizer)
    BY <1>1 DEF Server
  <1>4. UNCHANGED <<cache, players>>
    BY DEF AddFinalizer, RecordUnresolved, PublishStatus, cacheVars, metricVars
  <1>5. CASE PutFails(new)
    BY <1>1, <1>2, <1>3, <1>4, <1>5, PutFailsInv
  <1>6. CASE Put(new) /\ w'.pc = "idle" /\ UNCHANGED envVars
    <2>1. ServersStay
      BY <1>1, <1>2, <1>3, <1>6, WriteStays DEF Put, Exists
    <2> QED
      BY <1>1, <1>4, <1>6, <2>1, StayingSteps DEF WorkerGoesOn, GaugesStay, envVars
  <1>7. PutFails(new) \/ (Put(new) /\ w'.pc = "idle" /\ UNCHANGED envVars)
    <2>1. CASE AddFinalizer
      BY <2>1 DEF AddFinalizer, Requeue, Idle
    <2>2. CASE RecordUnresolved
      BY <1>1, <2>2 DEF AddFinalizer, RecordUnresolved, Requeue, Idle
    <2>3. CASE PublishStatus
      BY <1>1, <2>3 DEF AddFinalizer, PublishStatus, Idle
    <2> QED
      BY <2>1, <2>2, <2>3
  <1> QED
    BY <1>5, <1>6, <1>7

\* Removing the finalizer removes a server everybody knows to be deleted.
LEMMA RemoveFinalizerInv ==
    ASSUME OperatorInv, RemoveFinalizer
    PROVE  Rest'
  <1>1. /\ w.name \in Names /\ w.obj \in Server /\ TypeOK /\ w.pc = "finalize"
        /\ UNCHANGED <<cache, players>>
    BY DEF OperatorInv, TypeOK, RemoveFinalizer, cacheVars, metricVars
  <1>2. CASE Put(None)
    <2>1. /\ api[w.name] = w.obj /\ api[w.name] # None /\ api'[w.name] = None
          /\ \A n \in Names : n # w.name => api'[n] = api[n]
      <3>1. api' = [api EXCEPT ![w.name] = None] /\ api[w.name] = w.obj
        BY <1>2 DEF Put
      <3>2. api \in [Names -> Server \cup {None}]
        BY <1>1 DEF TypeOK
      <3>3. None \notin Server
        OBVIOUS
      <3>4. w.obj \in Server /\ w.name \in Names
        BY <1>1
      <3> QED
        BY <3>1, <3>2, <3>3, <3>4
    <2>2. /\ ops' = ops
          /\ \/ w'.pc = "idle" /\ lost' # 0
             \/ w'.pc = "forget" /\ w'.name = w.name /\ w'.obj = w.obj
      <3>1. CASE PutFails(None)
        BY <1>1, <1>2, <3>1, <2>1 DEF PutFails, Fault, Requeue, Idle, envVars, TypeOK, Put, Exists
      <3>2. CASE Put(None) /\ w' = [w EXCEPT !.pc = "forget"] /\ UNCHANGED <<queueVars, envVars>>
        BY <3>2 DEF envVars, OperatorInv, TypeOK
      <3> QED
        BY <3>1, <3>2 DEF RemoveFinalizer
    <2> DEFINE Old(n) == (Exists(n) => api[n].uid < ops) /\ (cache[n] # None => cache[n].uid < ops)
    <2>3. UidsAreOld'
      <3>1. ASSUME NEW n \in Names
            PROVE  Old(n)'
        <4>1. Old(n)
          BY DEF OperatorInv, UidsAreOld
        <4>2. cache' = cache /\ ops' = ops
          BY <1>1, <2>2
        <4>3. api'[n] = None \/ api'[n] = api[n]
          BY <2>1
        <4> QED
          BY <4>1, <4>2, <4>3 DEF Exists
      <3>2. w'.pc # "idle" => w'.obj.uid < ops'
        BY <1>1, <2>2 DEF OperatorInv, UidsAreOld
      <3> QED
        BY <3>1, <3>2 DEF UidsAreOld
    <2>4. CacheIsOldOneWay'
      <3>1. cache[w.name] # None /\ cache[w.name].finalizer => cache[w.name].deleting
        BY <1>1, <2>1 DEF OperatorInv, FinalizesDeleted, CacheIsOldOneWay, OwnerAlive
      <3>2. ASSUME NEW n \in Names, n # w.name
            PROVE  api'[n] = api[n] /\ (OwnerAlive(n, cache[n].uid))' = OwnerAlive(n, cache[n].uid)
        BY <1>1, <2>1, <3>2 DEF OwnerAlive, Exists
      <3> SUFFICES ASSUME NEW n \in Names, cache[n] # None
                   PROVE  /\ OwnerAlive(n, cache[n].uid)' /\ cache[n].deleting => api'[n].deleting
                          /\ cache[n].finalizer /\ ~cache[n].deleting
                                 => OwnerAlive(n, cache[n].uid)' /\ api'[n].finalizer
        BY <1>1 DEF CacheIsOldOneWay
      <3>3. CASE n = w.name
        <4>1. ~OwnerAlive(n, cache[n].uid)'
          BY <2>1, <3>3 DEF OwnerAlive, Exists
        <4> QED
          BY <3>1, <3>3, <4>1
      <3>4. CASE n # w.name
        BY <1>1, <3>2, <3>4 DEF OperatorInv, CacheIsOldOneWay
      <3> QED
        BY <3>3, <3>4
    <2>5. PlayerGaugeHasServer'
      <3> SUFFICES ASSUME lost' = 0, NEW n \in Names, players'[n] # None
                   PROVE  \/ Exists(n)' /\ api'[n].finalizer
                          \/ w'.pc = "forget" /\ w'.name = n
        BY DEF PlayerGaugeHasServer
      <3>1. lost = 0
        BY <1>1, <1>2, <2>1 DEF RemoveFinalizer, PutFails, Fault, envVars, TypeOK
      <3>2. Exists(n) /\ api[n].finalizer
        BY <1>1, <3>1 DEF OperatorInv, PlayerGaugeHasServer
      <3> QED
        BY <2>1, <2>2, <3>2 DEF Exists
    <2> QED
      BY <2>2, <2>3, <2>4, <2>5 DEF Rest, FinalizesDeleted, ReconciledServerExists
  <1>3. CASE ~Put(None)
    <2>1. PutFails(None) /\ api' = api
      BY <1>3 DEF RemoveFinalizer, PutFails
    <2>2. w'.pc = "idle" /\ ops' = ops /\ (lost' = 0 => lost = 0)
      BY <1>3, <2>1 DEF PutFails, Requeue, Idle, Fault, envVars
    <2> QED
      BY <1>1, <2>1, <2>2, UnchangedStays, StayingSteps DEF WorkerGoesOn, GaugesStay
  <1> QED
    BY <1>2, <1>3

\* The steps of the worker that write no server.
LEMMA WorkerInv ==
    ASSUME OperatorInv, Forget \/ ResolveConfig \/ ReconcileChild \/ Observe
    PROVE  Rest'
  <1>1. TypeOK /\ api' = api /\ cache' = cache /\ ops' = ops /\ (lost' = 0 => lost = 0)
    BY DEF OperatorInv, Forget, ResolveConfig, ReconcileChild, Observe, Fault,
       apiVars, cacheVars, envVars
  <1>2. CASE Forget
    <2>1. w' = Idle /\ players' = [players EXCEPT ![w.name] = None]
      BY <1>2 DEF Forget
    <2>2. UidsAreOld' /\ CacheIsOldOneWay'
      BY <1>1, <2>1 DEF OperatorInv, UidsAreOld, CacheIsOldOneWay, Exists, OwnerAlive, Idle
    <2>3. PlayerGaugeHasServer'
      <3>1. \A n \in Names : players'[n] # None => players[n] # None /\ n # w.name
        BY <1>1, <2>1 DEF TypeOK
      <3> QED
        BY <1>1, <2>1, <3>1 DEF OperatorInv, PlayerGaugeHasServer, Exists
    <2> QED
      BY <2>1, <2>2, <2>3 DEF Rest, FinalizesDeleted, ReconciledServerExists, Idle
  <1>3. CASE ResolveConfig
    <2>1. /\ w.pc = "resolve" /\ w'.name = w.name /\ w'.obj = w.obj
          /\ w'.pc \in {"unresolved", "child"} /\ players' = players
      BY <1>1, <1>3 DEF ResolveConfig, TypeOK, metricVars
    <2> QED
      BY <1>1, <2>1, UnchangedStays, StayingSteps DEF WorkerGoesOn, Reconciling, GaugesStay
  <1>4. CASE ReconcileChild
    <2>1. w' = AfterChild \/ w' = Idle
      BY <1>4 DEF ReconcileChild, Requeue
    <2>2. /\ w.pc = "child" /\ players' = players
          /\ \/ w'.name = w.name /\ w'.obj = w.obj /\ w'.pc \in {"child", "observe"}
             \/ w'.pc = "idle"
      <3>1. w.pc = "child" /\ players' = players
        BY <1>4 DEF ReconcileChild, metricVars
      <3>2. CASE w' = Idle
        BY <3>1, <3>2 DEF Idle
      <3>3. CASE w' = AfterChild
        BY <3>1, <3>3 DEF AfterChild
      <3> QED
        BY <2>1, <3>1, <3>2, <3>3
    <2> QED
      BY <1>1, <2>2, UnchangedStays, StayingSteps DEF WorkerGoesOn, Reconciling, GaugesStay
  <1>5. CASE Observe
    <2>1. /\ \E s : w' = [w EXCEPT !.pc = "publish", !.status = s]
          /\ \/ players' = players
             \/ \E c : players' = [players EXCEPT ![w.name] = c]
      BY <1>5, Zenon DEF Observe
    <2>2. w.pc = "observe" /\ w'.name = w.name /\ w'.obj = w.obj /\ w'.pc = "publish"
      <3>1. w.pc = "observe"
        BY <1>5 DEF Observe
      <3> QED
        BY <2>1, <3>1
    <2>3. GaugesStay
      BY <1>1, <2>1, <2>2 DEF GaugesStay, TypeOK
    <2> QED
      BY <1>1, <2>2, <2>3, UnchangedStays, StayingSteps DEF WorkerGoesOn, Reconciling
  <1> QED
    BY <1>2, <1>3, <1>4, <1>5

\* The worker takes a server as old as the cache it reads it from.
LEMMA TakeInv ==
    ASSUME OperatorInv, NEW n \in Names, Take(n)
    PROVE  Rest'
  <1>1. /\ api' = api /\ cache' = cache /\ players' = players /\ ops' = ops /\ lost' = lost
        /\ w.pc = "idle" /\ TypeOK
    BY DEF OperatorInv, Take, apiVars, cacheVars, envVars
  <1>2. CASE cache[n] = None
    <2>1. w' = w
      BY <1>2 DEF Take
    <2> QED
      BY <1>1, <2>1, UnchangedStays, StayingSteps DEF WorkerGoesOn, GaugesStay
  <1>3. CASE cache[n] # None
    <2>1. /\ w'.name = n /\ w'.obj = cache[n]
          /\ w'.pc = IF cache[n].deleting THEN "finalize"
                     ELSE IF cache[n].finalizer THEN "resolve" ELSE "adopt"
      BY <1>3 DEF Take, Idle
    <2>2. UidsAreOld' /\ CacheIsOldOneWay'
      BY <1>1, <1>3, <2>1 DEF OperatorInv, UidsAreOld, CacheIsOldOneWay, Exists, OwnerAlive
    <2>3. FinalizesDeleted' /\ ReconciledServerExists'
      BY <1>1, <1>3, <2>1
         DEF OperatorInv, CacheIsOldOneWay, FinalizesDeleted, ReconciledServerExists,
             Exists, OwnerAlive
    <2>4. PlayerGaugeHasServer'
      BY <1>1 DEF OperatorInv, PlayerGaugeHasServer, Exists
    <2> QED
      BY <2>2, <2>3, <2>4 DEF Rest
  <1> QED
    BY <1>2, <1>3

\* A server deleted before it got its finalizer is gone at once.
LEMMA GoneInv ==
    ASSUME OperatorInv, NEW n \in Names, ~api[n].finalizer, api'[n] = None,
           \A m \in Names : m # n => api'[m] = api[m],
           UNCHANGED <<cache, w, players, lost>>, ops' = ops + 1
    PROVE  Rest'
  <1>1. TypeOK /\ ops \in Nat
    BY DEF OperatorInv, TypeOK
  <1>2. UidsAreOld'
    <2>1. ASSUME NEW m \in Names
          PROVE  (Exists(m)' => api'[m].uid < ops') /\ (cache[m] # None => cache[m].uid < ops')
      <3>1. Exists(m) => api[m].uid \in Nat /\ api[m].uid < ops
        BY DEF OperatorInv, UidsAreOld, TypeOK, Exists, Server
      <3>2. cache[m] # None => cache[m].uid \in Nat /\ cache[m].uid < ops
        BY DEF OperatorInv, UidsAreOld, TypeOK, Server
      <3>3. Exists(m)' => api'[m] = api[m] /\ Exists(m)
        BY DEF Exists
      <3> QED
        BY <1>1, <3>1, <3>2, <3>3
    <2>2. w.pc # "idle" => w.obj.uid \in Nat /\ w.obj.uid < ops
      BY SpecsAndStatus DEF OperatorInv, UidsAreOld, TypeOK
    <2> QED
      BY <1>1, <2>1, <2>2 DEF UidsAreOld
  <1>3. \A m \in Names : \A u : OwnerAlive(m, u)' => OwnerAlive(m, u) /\ api'[m] = api[m] /\ m # n
    BY DEF OwnerAlive, Exists
  <1>4. \A m \in Names : \A u : OwnerAlive(m, u) /\ api[m].finalizer => OwnerAlive(m, u)' /\ m # n
    BY DEF OwnerAlive, Exists
  <1>5. CacheIsOldOneWay'
    BY <1>3, <1>4 DEF OperatorInv, CacheIsOldOneWay
  <1>6. FinalizesDeleted' /\ ReconciledServerExists'
    <2>1. w.pc # "idle" => w.name \in Names
      BY <1>1 DEF TypeOK
    <2> QED
      BY <1>3, <1>4, <2>1 DEF OperatorInv, FinalizesDeleted, ReconciledServerExists
  <1>7. PlayerGaugeHasServer'
    BY DEF OperatorInv, PlayerGaugeHasServer, Exists
  <1> QED
    BY <1>2, <1>5, <1>6, <1>7 DEF Rest

\* A server created under a name that was in use has another uid.
LEMMA CreateInv ==
    ASSUME OperatorInv, NEW n \in Names, NEW spec \in Specs, CreateServer(n, spec)
    PROVE  Rest'
  <1>1. /\ TypeOK /\ ops \in Nat /\ ops' = ops + 1 /\ UNCHANGED <<cache, w, players, lost>>
        /\ ~Exists(n) /\ Exists(n)' /\ api'[n].uid = ops /\ ~api'[n].deleting
        /\ \A m \in Names : m # n => api'[m] = api[m]
    <2> DEFINE new == [uid |-> ops, spec |-> spec, deleting |-> FALSE, finalizer |-> FALSE,
                       status |-> [ready |-> FALSE, players |-> 0, resolved |-> "unset"]]
    <2>1. TypeOK /\ ops \in Nat
      BY DEF OperatorInv, TypeOK
    <2>2. new \in Server /\ new.uid = ops /\ ~new.deleting
      BY <2>1 DEF Server, Status
    <2>3. api' = [api EXCEPT ![n] = new] /\ ~Exists(n)
      BY DEF CreateServer
    <2>4. api'[n] = new /\ Exists(n)' /\ \A m \in Names : m # n => api'[m] = api[m]
      BY <2>1, <2>2, <2>3 DEF TypeOK, Exists
    <2> QED
      BY <2>1, <2>2, <2>3, <2>4 DEF CreateServer, UserOp, cacheVars, metricVars
  <1>2. ASSUME NEW u \in Nat, u < ops
        PROVE  \A m \in Names : /\ OwnerAlive(m, u)' <=> OwnerAlive(m, u)
                                /\ OwnerAlive(m, u) => api'[m] = api[m]
    BY <1>1, <1>2 DEF OwnerAlive, Exists
  <1>3. \A m \in Names : cache[m] # None => cache[m].uid \in Nat /\ cache[m].uid < ops
    BY DEF OperatorInv, UidsAreOld, TypeOK, Server
  <1>4. w.pc # "idle" => w.obj.uid \in Nat /\ w.obj.uid < ops /\ w.name \in Names
    BY SpecsAndStatus DEF OperatorInv, UidsAreOld, TypeOK
  <1>5. UidsAreOld'
    <2>1. ASSUME NEW m \in Names, Exists(m)'
          PROVE  api'[m].uid < ops'
      <3>1. CASE m = n
        BY <1>1, <3>1
      <3>2. CASE m # n
        <4>1. Exists(m) /\ api'[m] = api[m]
          BY <1>1, <2>1, <3>2 DEF Exists
        <4>2. api[m].uid \in Nat /\ api[m].uid < ops
          BY <4>1 DEF OperatorInv, UidsAreOld, TypeOK, Exists, Server
        <4> QED
          BY <1>1, <4>1, <4>2
      <3> QED
        BY <3>1, <3>2
    <2> QED
      BY <1>1, <1>3, <1>4, <2>1 DEF UidsAreOld
  <1>6. CacheIsOldOneWay'
    BY <1>1, <1>2, <1>3 DEF OperatorInv, CacheIsOldOneWay
  <1>7. FinalizesDeleted' /\ ReconciledServerExists'
    BY <1>1, <1>2, <1>4 DEF OperatorInv, FinalizesDeleted, ReconciledServerExists
  <1>8. PlayerGaugeHasServer'
    BY <1>1 DEF OperatorInv, PlayerGaugeHasServer, Exists
  <1> QED
    BY <1>5, <1>6, <1>7, <1>8 DEF Rest

\* The watches, restarts, Kubernetes and the users.
LEMMA EnvironmentInv ==
    ASSUME OperatorInv, Environment
    PROVE  Rest'
  <1>t. TypeOK
    BY DEF OperatorInv
  <1>1. CASE SyncTemplate
    BY <1>1, UnchangedStays, StayingSteps
       DEF SyncTemplate, apiVars, metricVars, envVars, WorkerGoesOn, GaugesStay
  <1>2. CASE Restart
    <2>1. /\ api' = api /\ cache' = api /\ w' = Idle /\ ops' = ops
          /\ \A n \in Names : players'[n] = None
      BY <1>2 DEF Restart, Fault
    <2>2. UidsAreOld' /\ CacheIsOldOneWay'
      BY <2>1 DEF OperatorInv, UidsAreOld, CacheIsOldOneWay, OwnerAlive, Exists, Idle
    <2> QED
      BY <2>1, <2>2 DEF Rest, FinalizesDeleted, ReconciledServerExists, PlayerGaugeHasServer, Idle
  <1>3. ASSUME NEW n \in Names, SyncServer(n)
        PROVE  Rest'
    <2>1. /\ UNCHANGED <<api, w, players, ops, lost>>
          /\ cache'[n] = api[n] /\ \A m \in Names : m # n => cache'[m] = cache[m]
      BY <1>t, <1>3 DEF SyncServer, apiVars, metricVars, envVars, TypeOK
    <2>2. UidsAreOld'
      BY <2>1 DEF OperatorInv, UidsAreOld, Exists
    <2>3. CacheIsOldOneWay'
      <3>1. ASSUME NEW m \in Names, cache'[m] # None
            PROVE  /\ OwnerAlive(m, cache[m].uid)' /\ cache'[m].deleting => api'[m].deleting
                   /\ cache'[m].finalizer /\ ~cache'[m].deleting
                          => OwnerAlive(m, cache[m].uid)' /\ api'[m].finalizer
        <4>1. CASE m = n
          BY <2>1, <3>1, <4>1 DEF OwnerAlive, Exists
        <4>2. CASE m # n
          BY <2>1, <3>1, <4>2 DEF OperatorInv, CacheIsOldOneWay, OwnerAlive, Exists
        <4> QED
          BY <4>1, <4>2
      <3> QED
        BY <3>1 DEF CacheIsOldOneWay
    <2>4. FinalizesDeleted'
      <3>1. w.pc = "finalize" => w.name \in Names
        BY <1>t DEF TypeOK
      <3> QED
        BY <2>1, <3>1 DEF OperatorInv, FinalizesDeleted, OwnerAlive, Exists
    <2> QED
      BY <2>1, <2>2, <2>3, <2>4
         DEF OperatorInv, Rest, ReconciledServerExists, PlayerGaugeHasServer, OwnerAlive, Exists
  <1>4. ASSUME NEW n \in Names, DeploymentStatus(n)
        PROVE  Rest'
    BY <1>4, UnchangedStays, StayingSteps
       DEF DeploymentStatus, cacheVars, metricVars, envVars, WorkerGoesOn, GaugesStay
  <1>5. ASSUME NEW n \in Names, NEW k \in KindSet, SyncChild(n, k) \/ CollectGarbage(n, k)
        PROVE  Rest'
    BY <1>5, UnchangedStays, StayingSteps
       DEF SyncChild, CollectGarbage, cacheVars, metricVars, envVars, WorkerGoesOn, GaugesStay
  <1>6. ASSUME NEW n \in Names, NEW k \in KindSet, DeleteChild(n, k)
        PROVE  Rest'
    BY <1>6, UnchangedStays, StayingSteps
       DEF DeleteChild, UserOp, cacheVars, metricVars, WorkerGoesOn, GaugesStay
  <1>7. ASSUME NEW t \in Templates \cup {None}, ChangeTemplate(t)
        PROVE  Rest'
    BY <1>7, UnchangedStays, StayingSteps
       DEF ChangeTemplate, UserOp, cacheVars, metricVars, WorkerGoesOn, GaugesStay
  <1>8. ASSUME NEW n \in Names, NEW spec \in Specs, EditServer(n, spec)
        PROVE  Rest'
    <2> DEFINE new == [api[n] EXCEPT !.spec = spec]
    <2>1. api[n] \in Server /\ Exists(n) /\ api' = [api EXCEPT ![n] = new]
      BY <1>t, <1>8 DEF EditServer, Exists, TypeOK
    <2>2. /\ new \in Server /\ new.uid = api[n].uid
          /\ new.deleting = api[n].deleting /\ new.finalizer = api[n].finalizer
      BY <2>1, SpecsAndStatus DEF Server
    <2>3. ServersStay
      BY <1>t, <2>1, <2>2, WriteStays
    <2> QED
      BY <1>8, <2>3, StayingSteps
         DEF EditServer, UserOp, cacheVars, metricVars, WorkerGoesOn, GaugesStay
  <1>9. ASSUME NEW n \in Names, DeleteServer(n)
        PROVE  Rest'
    <2>1. api[n] \in Server /\ Exists(n)
      BY <1>t, <1>9 DEF DeleteServer, Exists, TypeOK
    <2>2. CASE api[n].finalizer
      <3> DEFINE new == [api[n] EXCEPT !.deleting = TRUE]
      <3>1. /\ new \in Server /\ new.uid = api[n].uid
            /\ new.deleting = TRUE /\ new.finalizer = api[n].finalizer
        BY <2>1, SpecsAndStatus DEF Server
      <3>2. ServersStay
        BY <1>t, <1>9, <2>1, <2>2, <3>1, WriteStays DEF DeleteServer
      <3> QED
        BY <1>9, <3>2, StayingSteps
           DEF DeleteServer, UserOp, cacheVars, metricVars, WorkerGoesOn, GaugesStay
    <2>3. CASE ~api[n].finalizer
      <3>1. /\ api'[n] = None /\ \A m \in Names : m # n => api'[m] = api[m]
            /\ UNCHANGED <<cache, w, players, lost>> /\ ops' = ops + 1 /\ ops \in Nat
        BY <1>t, <1>9, <2>3 DEF DeleteServer, UserOp, cacheVars, metricVars, TypeOK
      <3> QED
        BY <1>t, <1>9, <2>3, <3>1, GoneInv
    <2> QED
      BY <2>2, <2>3
  <1>10. ASSUME NEW n \in Names, NEW spec \in Specs, CreateServer(n, spec)
         PROVE  Rest'
    BY <1>10, CreateInv
  <1> QED
    BY <1>1, <1>2, <1>3, <1>4, <1>5, <1>6, <1>7, <1>8, <1>9, <1>10 DEF Environment, User

LEMMA NextOperatorInv == OperatorInv /\ [Next]_vars => OperatorInv'
  <1> SUFFICES ASSUME OperatorInv, [Next]_vars
               PROVE  Rest'
    BY NextTypeOK DEF OperatorInv, Rest
  <1>1. CASE UNCHANGED vars
    BY <1>1 DEF vars, apiVars, cacheVars, metricVars, envVars, OperatorInv, Rest, UidsAreOld,
       CacheIsOldOneWay, FinalizesDeleted, ReconciledServerExists, PlayerGaugeHasServer,
       OwnerAlive, Exists
  <1>2. ASSUME NEW n \in Names, Refresh(n)
        PROVE  Rest'
    BY <1>2, UnchangedStays, StayingSteps
       DEF Refresh, apiVars, cacheVars, metricVars, envVars, WorkerGoesOn, GaugesStay
  <1>3. CASE Next
    BY <1>2, <1>3, WriteBackInv, RemoveFinalizerInv, WorkerInv, TakeInv, EnvironmentInv, Zenon
       DEF Next, Reconcile, Environment
  <1> QED
    BY <1>1, <1>3

-----------------------------------------------------------------------------
(* The theorems.                                                           *)

LEMMA InvariantHolds == Spec => []OperatorInv
  BY InitOperatorInv, NextOperatorInv, PTL DEF Spec

\* Reconcile never works on the children or the status of a server that has
\* left the API server or that could leave it, for any number of servers,
\* users' operations and failures.
THEOREM ReconcileWorksOnLiveServers == Spec => []ReconciledServerExists
  BY InvariantHolds, PTL DEF OperatorInv

\* Without lost replies the player gauge of a name goes with its server.
THEOREM GaugesGoWithServers == Spec => []PlayerGaugeHasServer
  BY InvariantHolds, PTL DEF OperatorInv

LEMMA PutChildHere ==
    ASSUME TypeOK, NEW m \in Names, NEW j \in KindSet, NEW new, PutChild(m, j, new),
           NEW n \in Names, NEW k \in KindSet
    PROVE  child'[n][k] = IF n = m /\ k = j THEN new ELSE child[n][k]
  BY DEF PutChild, TypeOK

\* No child is created for, or handed over to, a server that is gone.  Only
\* ReconcileChild gives a child an owner, while that server exists.
THEOREM NothingRunsUnowned == Spec => ChildrenGetLiveOwners
  <1> DEFINE Handed(n, k) ==
               LET c == child'[n][k] IN
                 c # None /\ (child[n][k] = None \/ child[n][k].owner # c.owner)
                     => OwnerAlive(n, c.owner)
  <1>1. ASSUME OperatorInv, NEW n \in Names, NEW k \in KindSet, [Next]_vars
        PROVE  Handed(n, k)
    <2>t. TypeOK
      BY <1>1 DEF OperatorInv
    <2>1. CASE child'[n][k] = child[n][k]
      BY <2>1
    <2>2. CASE ReconcileChild
      <3>1. w.name \in Names /\ w.pc = "child" /\ Kinds[w.kind] \in KindSet
        BY <2>2, <2>t DEF ReconcileChild, TypeOK, KindSet
      <3>2. OwnerAlive(w.name, w.obj.uid)
        BY <1>1, <3>1 DEF OperatorInv, ReconciledServerExists
      <3>3. \/ child' = child
            \/ \E new : new.owner = w.obj.uid /\ PutChild(w.name, Kinds[w.kind], new)
        BY <2>2 DEF ReconcileChild
      <3>4. CASE \E new : new.owner = w.obj.uid /\ PutChild(w.name, Kinds[w.kind], new)
        <4>1. PICK new : new.owner = w.obj.uid /\ PutChild(w.name, Kinds[w.kind], new)
          BY <3>4
        <4>2. child'[n][k] = (IF n = w.name /\ k = Kinds[w.kind] THEN new ELSE child[n][k])
          BY <2>t, <3>1, <4>1, PutChildHere
        <4>3. OwnerAlive(w.name, new.owner)
          BY <3>2, <4>1, Zenon
        <4> QED
          BY <4>2, <4>3, Zenon
      <3> QED
        BY <3>3, <3>4
    <2>3. ASSUME NEW m \in Names, DeploymentStatus(m)
          PROVE  Handed(n, k)
      <3> DEFINE d == child[m]["Deployment"]
      <3>1. d # None /\ d \in Child /\ PutChild(m, "Deployment", [d EXCEPT !.ready = ~@])
        BY <2>t, <2>3 DEF DeploymentStatus, TypeOK
      <3>2. [d EXCEPT !.ready = ~@].owner = d.owner
        BY <3>1 DEF Child
      <3> QED
        BY <2>t, <3>1, <3>2 DEF PutChild, TypeOK
    <2>4. ASSUME NEW m \in Names, NEW j \in KindSet, CollectGarbage(m, j) \/ DeleteChild(m, j)
          PROVE  Handed(n, k)
      <3>1. PutChild(m, j, None)
        BY <2>4 DEF CollectGarbage, DeleteChild
      <3>2. child'[n][k] = (IF n = m /\ k = j THEN None ELSE child[n][k])
        BY <2>t, <3>1, PutChildHere
      <3> QED
        BY <3>2
    <2>5. CASE child' = child
      BY <2>1, <2>5
    <2>6. \/ child' = child \/ ReconcileChild
          \/ \E m \in Names : DeploymentStatus(m)
          \/ \E m \in Names, j \in KindSet : CollectGarbage(m, j) \/ DeleteChild(m, j)
      <3>1. CASE UNCHANGED vars
        BY <3>1 DEF vars, apiVars
      <3>2. CASE Reconcile
        BY <3>2 DEF Reconcile, AddFinalizer, RemoveFinalizer, Forget, ResolveConfig,
           RecordUnresolved, Observe, PublishStatus, apiVars
      <3>3. CASE SyncTemplate \/ Restart
        BY <3>3 DEF SyncTemplate, Restart, apiVars
      <3>4. CASE User
        BY <3>4 DEF User, CreateServer, EditServer, DeleteServer, ChangeTemplate
      <3>5. ASSUME NEW m \in Names, Take(m) \/ Refresh(m) \/ SyncServer(m)
            PROVE  child' = child
        BY <3>5 DEF Take, Refresh, SyncServer, apiVars
      <3>6. ASSUME NEW m \in Names, NEW j \in KindSet, SyncChild(m, j)
            PROVE  child' = child
        BY <3>6 DEF SyncChild
      <3> QED
        BY <1>1, <3>1, <3>2, <3>3, <3>4, <3>5, <3>6, Zenon DEF Next
    <2> QED
      BY <2>2, <2>3, <2>4, <2>5, <2>6
  <1>2. OperatorInv /\ [Next]_vars
           => [\A n \in Names, k \in KindSet : Handed(n, k)]_vars
    BY <1>1
  <1> QED
    BY <1>2, InvariantHolds, PTL DEF Spec, ChildrenGetLiveOwners

-----------------------------------------------------------------------------
(* No change is forgotten.  A name that is not in the queue is accounted   *)
(* for by the caches: if the worker has it, whatever the worker has done   *)
(* so far is what the caches ask for, and if nobody has it, all of it is.  *)
(* What the caches do not know is news that will put it in the queue.      *)

CachedConfig(spec) == <<spec.cfg, IF spec.ref THEN templateCache ELSE None>>

\* The cached child is what s asks for, or there is news of it.
Settled(n, k, s) ==
    \/ <<n, k>> \in childNews
    \/ Wanted(k, s.spec) =>
         /\ childCache[n][k] # None /\ childCache[n][k].owner = s.uid
         /\ childCache[n][k].content = Desired(k, s.spec, CachedConfig(s.spec))

\* So is the readiness that is, or will be, in the status.
Reported(n, s, ready) ==
    \/ <<n, "Deployment">> \in childNews
    \/ ready = ( /\ childCache[n]["Deployment"] # None
                 /\ childCache[n]["Deployment"].ready /\ ~s.spec.paused )

MayReconcile(s) == s.finalizer /\ ~s.deleting /\ (s.spec.ref => templateCache # None)

Done(n, s, ready) ==
    /\ MayReconcile(s)
    /\ \A k \in KindSet : Settled(n, k, s)
    /\ Reported(n, s, ready)

\* Every step that gives up puts the name back in the queue.
OnTheWay(n, s) ==
    \/ w.pc \in {"adopt", "finalize", "unresolved"}
    \/ w.pc = "forget" /\ ~OwnerAlive(n, s.uid)
    \/ w.pc = "resolve" /\ s.finalizer /\ ~s.deleting
    \/ /\ w.pc = "child" /\ MayReconcile(s) /\ w.config = CachedConfig(s.spec)
       /\ \A i \in 1..Len(Kinds) : i < w.kind => Settled(n, Kinds[i], s)
    \/ w.pc = "observe" /\ MayReconcile(s) /\ \A k \in KindSet : Settled(n, k, s)
    \/ w.pc = "publish" /\ Done(n, s, w.status.ready)

\* A status the cache does not have yet is news of the server.
Accounted(n) ==
    n \notin dirty => \A s \in Server :
        /\ ~AtWork(n) /\ cache[n] = s /\ OwnerAlive(n, s.uid) /\ api[n].status = s.status
               => Done(n, s, s.status.ready)
        /\ AtWork(n) /\ w.obj = s => cache[n] = s /\ OnTheWay(n, s)

CachesFollow ==
    \A n \in Names, k \in KindSet :
        <<n, k>> \notin childNews => childCache[n][k] = child[n][k]

QueueInv == CachesFollow /\ \A n \in Names : Accounted(n)

\* Nothing that the account of a server rests on changes.
Steady(n) ==
    /\ cache'[n] = cache[n] /\ childCache'[n] = childCache[n]
    /\ \A k \in KindSet : <<n, k>> \in childNews => <<n, k>> \in childNews'
    /\ cache[n] # None /\ cache[n].spec.ref => templateCache' = templateCache
    /\ \A u \in Nat : u < ops /\ OwnerAlive(n, u)' => OwnerAlive(n, u) /\ api'[n].status = api[n].status

LEMMA DoneStands ==
    ASSUME NEW n \in Names, Steady(n), NEW s \in Server, cache[n] = s
    PROVE  /\ CachedConfig(s.spec)' = CachedConfig(s.spec)
           /\ MayReconcile(s) => MayReconcile(s)'
           /\ \A k \in KindSet : Settled(n, k, s) => Settled(n, k, s)'
           /\ \A ready : Reported(n, s, ready) => Reported(n, s, ready)'
           /\ \A ready : Done(n, s, ready) => Done(n, s, ready)'
  <1>1. CachedConfig(s.spec)' = CachedConfig(s.spec)
    BY DEF Steady, CachedConfig
  <1>2. MayReconcile(s) => MayReconcile(s)'
    BY DEF Steady, MayReconcile
  <1>3. ASSUME NEW k \in KindSet, Settled(n, k, s)
        PROVE  Settled(n, k, s)'
    BY <1>1, <1>3 DEF Steady, Settled
  <1>4. ASSUME NEW ready, Reported(n, s, ready)
        PROVE  Reported(n, s, ready)'
    BY <1>4 DEF Steady, Reported
  <1> QED
    BY <1>1, <1>2, <1>3, <1>4 DEF Done

LEMMA AccountStands ==
    ASSUME OperatorInv, NEW n \in Names, Accounted(n),
           n \notin dirty' => n \notin dirty /\ Steady(n),
           w' = w \/ (~AtWork(n) /\ ~AtWork(n)')
    PROVE  Accounted(n)'
  <1> SUFFICES ASSUME n \notin dirty', NEW s \in Server
               PROVE  /\ ~AtWork(n)' /\ cache'[n] = s /\ OwnerAlive(n, s.uid)'
                            /\ api'[n].status = s.status
                          => Done(n, s, s.status.ready)'
                      /\ AtWork(n)' /\ w'.obj = s => cache'[n] = s /\ OnTheWay(n, s)'
    BY DEF Accounted
  <1>1. n \notin dirty /\ Steady(n)
    OBVIOUS
  <1>2. ASSUME ~AtWork(n)', cache'[n] = s, OwnerAlive(n, s.uid)', api'[n].status = s.status
        PROVE  Done(n, s, s.status.ready)'
    <2>1. cache[n] = s /\ s.uid \in Nat /\ s.uid < ops
      BY <1>1, <1>2, SpecsAndStatus DEF Steady, OperatorInv, UidsAreOld
    <2>2. OwnerAlive(n, s.uid) /\ api[n].status = s.status
      BY <1>1, <1>2, <2>1 DEF Steady
    <2>3. ~AtWork(n)
      BY <1>2 DEF AtWork
    <2>4. Done(n, s, s.status.ready)
      BY <1>1, <2>1, <2>2, <2>3 DEF Accounted
    <2> QED
      BY <1>1, <2>1, <2>4, DoneStands
  <1>3. ASSUME AtWork(n)', w'.obj = s
        PROVE  cache'[n] = s /\ OnTheWay(n, s)'
    <2>1. w' = w /\ AtWork(n) /\ w.obj = s /\ s.uid \in Nat /\ s.uid < ops
      <3>1. w' = w
        BY <1>3
      <3>2. AtWork(n) /\ w.obj = s
        BY <1>3, <3>1 DEF AtWork
      <3> QED
        BY <3>1, <3>2, SpecsAndStatus DEF AtWork, OperatorInv, UidsAreOld
    <2>2. cache[n] = s /\ OnTheWay(n, s)
      BY <1>1, <2>1 DEF Accounted
    <2>3. cache'[n] = s
      BY <1>1, <2>2 DEF Steady
    <2>4. ~OwnerAlive(n, s.uid) => ~OwnerAlive(n, s.uid)'
      BY <1>1, <2>1 DEF Steady
    <2>5. \A i \in 1..Len(Kinds) : Kinds[i] \in KindSet
      BY DEF KindSet
    <2>6. w.pc = "publish" /\ Done(n, s, w.status.ready) => Done(n, s, w.status.ready)'
      <3>1. ASSUME NEW r, r = w.status.ready, Done(n, s, r)
            PROVE  Done(n, s, w.status.ready)'
        <4>1. Done(n, s, r)' /\ w'.status.ready = r
          BY <1>1, <2>1, <2>2, <3>1, DoneStands
        <4> QED
          BY <4>1 DEF Done, Reported, Settled, MayReconcile
      <3> QED
        BY <3>1
    <2> QED
      BY <1>1, <2>1, <2>2, <2>3, <2>4, <2>5, <2>6, DoneStands DEF OnTheWay
  <1> QED
    BY <1>2, <1>3

LEMMA CachesFollowStands ==
    ASSUME TypeOK, CachesFollow, childCache' = childCache,
           \/ UNCHANGED <<child, childNews>>
           \/ \E m \in Names, j \in KindSet : \E new : PutChild(m, j, new)
    PROVE  CachesFollow'
  <1>1. CASE UNCHANGED <<child, childNews>>
    BY <1>1 DEF CachesFollow
  <1>2. ASSUME NEW m \in Names, NEW j \in KindSet, NEW new, PutChild(m, j, new)
        PROVE  CachesFollow'
    <2> SUFFICES ASSUME NEW n \in Names, NEW k \in KindSet, <<n, k>> \notin childNews'
                 PROVE  childCache'[n][k] = child'[n][k]
      BY DEF CachesFollow
    <2>1. <<n, k>> \notin childNews /\ ~(n = m /\ k = j)
      BY <1>2 DEF PutChild
    <2> QED
      BY <1>2, <2>1, PutChildHere DEF CachesFollow
  <1> QED
    BY <1>1, <1>2

\* A server whose object and caches stay, or that changes in the API server
\* without another status, stays accounted for.
LEMMA SteadyServer ==
    ASSUME OperatorInv, NEW n \in Names, UNCHANGED cacheVars, childNews \subseteq childNews',
           \/ api'[n] = api[n] \/ ~Exists(n)'
           \/ Exists(n) /\ api'[n].uid = api[n].uid /\ api'[n].status = api[n].status
    PROVE  Steady(n)
  BY DEF Steady, OwnerAlive, Exists, cacheVars

\* The worker's steps leave the other servers alone.
LEMMA OthersAccounted ==
    ASSUME OperatorInv, QueueInv, NEW n \in Names, n # w.name, w.pc # "idle",
           w'.pc = "idle" \/ w'.name = w.name, dirty \subseteq dirty',
           UNCHANGED cacheVars, childNews \subseteq childNews', api'[n] = api[n]
    PROVE  Accounted(n)'
  <1>1. ~AtWork(n) /\ ~AtWork(n)'
    BY DEF AtWork
  <1>2. Accounted(n) /\ Steady(n)
    BY SteadyServer DEF QueueInv
  <1> QED
    BY <1>1, <1>2, AccountStands

LEMMA RequeueAccounts ==
    ASSUME OperatorInv, QueueInv, w.pc # "idle", Requeue, UNCHANGED cacheVars,
           childNews \subseteq childNews', \A n \in Names : n # w.name => api'[n] = api[n]
    PROVE  \A n \in Names : Accounted(n)'
  <1> SUFFICES ASSUME NEW n \in Names
               PROVE  Accounted(n)'
    OBVIOUS
  <1>1. w'.pc = "idle" /\ dirty' = dirty \cup {w.name}
    BY DEF Requeue, Idle
  <1>2. CASE n = w.name
    BY <1>1, <1>2 DEF Accounted
  <1>3. CASE n # w.name
    BY <1>1, <1>3, OthersAccounted
  <1> QED
    BY <1>2, <1>3

\* The worker goes on with the same server: only its own account is at stake.
LEMMA OnwardAccounts ==
    ASSUME OperatorInv, QueueInv, w.pc # "idle",
           w'.pc # "idle", w'.name = w.name, w'.obj = w.obj, dirty' = dirty,
           UNCHANGED cacheVars, childNews \subseteq childNews',
           \A n \in Names : n # w.name => api'[n] = api[n],
           ASSUME NEW n \in Names, n = w.name, NEW s \in Server, s = w.obj, cache[n] = s,
                  OnTheWay(n, s)
           PROVE  OnTheWay(n, s)'
    PROVE  \A n \in Names : Accounted(n)'
  <1> SUFFICES ASSUME NEW n \in Names
               PROVE  Accounted(n)'
    OBVIOUS
  <1>1. CASE n # w.name
    BY <1>1, OthersAccounted
  <1>2. CASE n = w.name
    <2>1. AtWork(n) /\ AtWork(n)'
      BY <1>2 DEF AtWork
    <2>2. ASSUME n \notin dirty', NEW s \in Server, w'.obj = s
          PROVE  cache'[n] = s /\ OnTheWay(n, s)'
      <3>1. cache[n] = s /\ OnTheWay(n, s)
        BY <2>1, <2>2 DEF QueueInv, Accounted
      <3> QED
        BY <1>2, <2>2, <3>1 DEF cacheVars
    <2> QED
      BY <2>1, <2>2 DEF Accounted
  <1> QED
    BY <1>1, <1>2

LEMMA TakeAccounts ==
    ASSUME OperatorInv, QueueInv, NEW m \in Names, Take(m)
    PROVE  QueueInv'
  <1>1. /\ w.pc = "idle" /\ dirty' = dirty \ {m}
        /\ UNCHANGED <<api, child, childNews, cacheVars>>
        /\ IF cache[m] = None THEN w' = w
           ELSE /\ w'.name = m /\ w'.obj = cache[m]
                /\ w'.pc = IF cache[m].deleting THEN "finalize"
                           ELSE IF cache[m].finalizer THEN "resolve" ELSE "adopt"
    BY DEF Take, Idle, apiVars
  <1>2. CachesFollow'
    BY <1>1, CachesFollowStands DEF OperatorInv, QueueInv, cacheVars
  <1>3. ASSUME NEW n \in Names, n # m
        PROVE  Accounted(n)'
    <2>1. Steady(n) /\ Accounted(n)
      BY <1>1, SteadyServer DEF QueueInv
    <2>2. w' = w \/ (~AtWork(n) /\ ~AtWork(n)')
      BY <1>1, <1>3 DEF AtWork
    <2> QED
      BY <1>1, <1>3, <2>1, <2>2, AccountStands
  <1>4. Accounted(m)'
    <2>1. CASE cache[m] = None
      <3>1. \A s \in Server : cache'[m] # s /\ ~AtWork(m)'
        BY <1>1, <2>1 DEF cacheVars, AtWork
      <3> QED
        BY <3>1 DEF Accounted
    <2>2. CASE cache[m] # None
      <3>1. AtWork(m)' /\ w'.obj = cache'[m]
        BY <1>1, <2>2 DEF AtWork, cacheVars
      <3>2. ASSUME NEW s \in Server, w'.obj = s
            PROVE  OnTheWay(m, s)'
        BY <1>1, <2>2, <3>2 DEF OnTheWay
      <3> QED
        BY <3>1, <3>2 DEF Accounted
    <2> QED
      BY <2>1, <2>2
  <1> QED
    BY <1>2, <1>3, <1>4 DEF QueueInv

\* The steps that write a server back. Only a published status ends the work
\* without another turn: either it was the status the server had already, or
\* the caches have yet to hear of it.
LEMMA WriteBackAccounts ==
    ASSUME OperatorInv, QueueInv, AddFinalizer \/ RecordUnresolved \/ PublishStatus
    PROVE  QueueInv'
  <1>1. /\ TypeOK /\ w.pc \in {"adopt", "unresolved", "publish"}
        /\ UNCHANGED <<child, childNews, cacheVars>>
    BY DEF OperatorInv, AddFinalizer, RecordUnresolved, PublishStatus
  <1>2. w.name \in Names /\ w.obj \in Server
    BY <1>1 DEF TypeOK
  <1>3. CachesFollow'
    BY <1>1, CachesFollowStands DEF QueueInv, cacheVars
  <1>4. \A n \in Names : n # w.name => api'[n] = api[n]
    BY <1>1, <1>2 DEF AddFinalizer, RecordUnresolved, PublishStatus, PutFails, Put, TypeOK
  <1>5. CASE Requeue
    BY <1>1, <1>3, <1>4, <1>5, RequeueAccounts DEF QueueInv
  <1>6. CASE ~Requeue
    <2> DEFINE new == [w.obj EXCEPT !.status = w.status]
    <2>1. w.pc = "publish" /\ Put(new) /\ w' = Idle /\ dirty' = dirty
      BY <1>6 DEF AddFinalizer, RecordUnresolved, PublishStatus, PutFails
    <2>2. api'[w.name].status = w.status
      BY <1>1, <1>2, <2>1 DEF Put, TypeOK, Server
    <2>3. ASSUME NEW n \in Names, n # w.name
          PROVE  Accounted(n)'
      BY <1>1, <1>4, <2>1, <2>3, OthersAccounted DEF Idle
    <2>4. ASSUME NEW n \in Names, n = w.name
          PROVE  Accounted(n)'
      <3> SUFFICES ASSUME n \notin dirty, NEW s \in Server, cache[n] = s, s.status = w.status
                   PROVE  Done(n, s, s.status.ready)'
        BY <1>1, <2>1, <2>2, <2>4 DEF Accounted, AtWork, Idle, cacheVars
      <3>1. AtWork(n) /\ w.obj = s
        <4>1. AtWork(n)
          BY <2>1, <2>4 DEF AtWork
        <4> QED
          BY <1>2, <4>1 DEF QueueInv, Accounted
      <3>2. Done(n, s, s.status.ready)
        BY <2>1, <3>1 DEF QueueInv, Accounted, OnTheWay
      <3> QED
        BY <1>1, <3>2 DEF Done, MayReconcile, Settled, Reported, CachedConfig, cacheVars
    <2> QED
      BY <1>3, <2>3, <2>4 DEF QueueInv
  <1> QED
    BY <1>5, <1>6

\* A server that is removed is no longer asked for anything; one created under
\* its name afterwards has another uid.
LEMMA RemovalAccounts ==
    ASSUME OperatorInv, QueueInv, RemoveFinalizer \/ Forget
    PROVE  QueueInv'
  <1>1. /\ TypeOK /\ w.pc \in {"finalize", "forget"}
        /\ UNCHANGED <<child, childNews, cacheVars>>
    BY DEF OperatorInv, RemoveFinalizer, Forget, apiVars
  <1>2. w.name \in Names /\ w.obj \in Server
    BY <1>1 DEF TypeOK
  <1>3. CachesFollow'
    BY <1>1, CachesFollowStands DEF QueueInv, cacheVars
  <1>4. CASE RemoveFinalizer
    <2>1. \A n \in Names : n # w.name => api'[n] = api[n]
      BY <1>1, <1>2, <1>4 DEF RemoveFinalizer, PutFails, Put, TypeOK
    <2>2. CASE Requeue
      BY <1>1, <1>3, <2>1, <2>2, RequeueAccounts DEF QueueInv
    <2>3. CASE ~Requeue
      <3>1. /\ Put(None) /\ w' = [w EXCEPT !.pc = "forget"] /\ dirty' = dirty
        BY <1>4, <2>3 DEF RemoveFinalizer, PutFails, queueVars
      <3>2. w.pc = "finalize" /\ w'.pc = "forget" /\ w'.name = w.name /\ w'.obj = w.obj
        BY <1>4, <3>1 DEF RemoveFinalizer, TypeOK
      <3>3. api'[w.name] = None
        BY <1>1, <1>2, <3>1 DEF Put, TypeOK
      <3>4. ASSUME NEW n \in Names, n = w.name, NEW s \in Server
            PROVE  OnTheWay(n, s)'
        BY <3>2, <3>3, <3>4 DEF OnTheWay, OwnerAlive, Exists
      <3>5. \A n \in Names : Accounted(n)'
        BY <1>1, <2>1, <3>1, <3>2, <3>4, OnwardAccounts
      <3> QED
        BY <1>3, <3>5 DEF QueueInv
    <2> QED
      BY <2>2, <2>3
  <1>5. CASE Forget
    <2>1. w.pc = "forget" /\ w' = Idle /\ dirty' = dirty /\ api' = api
      BY <1>5 DEF Forget, apiVars, queueVars
    <2>2. ASSUME NEW n \in Names, n # w.name
          PROVE  Accounted(n)'
      BY <1>1, <2>1, <2>2, OthersAccounted DEF Idle
    <2>3. ASSUME NEW n \in Names, n = w.name
          PROVE  Accounted(n)'
      <3>1. AtWork(n) /\ ~AtWork(n)'
        BY <2>1, <2>3 DEF AtWork, Idle
      <3>2. ASSUME n \notin dirty, NEW s \in Server, cache[n] = s
            PROVE  ~OwnerAlive(n, s.uid)
        <4>1. w.obj = s
          BY <1>2, <3>1, <3>2 DEF QueueInv, Accounted
        <4> QED
          BY <2>1, <3>1, <3>2, <4>1 DEF QueueInv, Accounted, OnTheWay
      <3>3. \A s \in Server : OwnerAlive(n, s.uid)' <=> OwnerAlive(n, s.uid)
        BY <2>1 DEF OwnerAlive, Exists
      <3> QED
        BY <1>1, <2>1, <3>1, <3>2, <3>3 DEF Accounted, cacheVars
    <2> QED
      BY <1>3, <2>2, <2>3 DEF QueueInv
  <1> QED
    BY <1>4, <1>5

\* One child after the other gets what the caches ask for: it is so already,
\* or it is written, which is news.
LEMMA ReconcileChildAccounts ==
    ASSUME OperatorInv, QueueInv, ReconcileChild
    PROVE  QueueInv'
  <1> DEFINE k == Kinds[w.kind]
             cached == childCache[w.name][k]
             new == [owner |-> w.obj.uid,
                     content |-> Desired(k, w.obj.spec, w.config),
                     ready |-> cached # None /\ cached.ready]
  <1>1. TypeOK /\ w.pc = "child" /\ api' = api /\ UNCHANGED cacheVars
    BY DEF OperatorInv, ReconcileChild
  <1>2. w.name \in Names /\ w.obj \in Server /\ w.kind \in 1..Len(Kinds) /\ k \in KindSet
    BY <1>1 DEF TypeOK, KindSet
  <1>3. UNCHANGED <<child, childNews>> \/ PutChild(w.name, k, new)
    BY DEF ReconcileChild
  <1>4. CachesFollow' /\ childNews \subseteq childNews'
    <2>1. childNews \subseteq childNews'
      BY <1>3 DEF PutChild
    <2>2. \/ UNCHANGED <<child, childNews>>
          \/ \E m \in Names, j \in KindSet : \E x : PutChild(m, j, x)
      BY <1>2, <1>3
    <2> QED
      BY <1>1, <2>1, <2>2, CachesFollowStands DEF QueueInv, cacheVars
  <1>5. CASE Requeue
    BY <1>1, <1>4, <1>5, RequeueAccounts DEF QueueInv
  <1>6. CASE ~Requeue
    <2>1. /\ w' = AfterChild /\ dirty' = dirty
          /\ \/ ~Wanted(k, w.obj.spec) \/ cached = new
             \/ PutChild(w.name, k, new)
      BY <1>6 DEF ReconcileChild, queueVars
    <2>2. /\ w'.name = w.name /\ w'.obj = w.obj
          /\ \/ w'.pc = "child" /\ w'.kind = w.kind + 1 /\ w'.config = w.config
             \/ w'.pc = "observe" /\ w.kind = Len(Kinds)
      BY <1>1, <1>2, <2>1 DEF AfterChild, TypeOK
    <2>3. ASSUME NEW n \in Names, n = w.name, NEW s \in Server, s = w.obj, cache[n] = s,
                 OnTheWay(n, s)
          PROVE  OnTheWay(n, s)'
      <3>1. Steady(n)
        BY <1>1, <1>4, SteadyServer
      <3>2. /\ MayReconcile(s) /\ w.config = CachedConfig(s.spec)
            /\ \A i \in 1..Len(Kinds) : i < w.kind => Settled(n, Kinds[i], s)
        BY <1>1, <2>3 DEF OnTheWay
      <3>3. MayReconcile(s)' /\ CachedConfig(s.spec)' = CachedConfig(s.spec)
        BY <2>3, <3>1, <3>2, DoneStands
      <3>4. ASSUME NEW i \in 1..Len(Kinds), i <= w.kind
            PROVE  Settled(n, Kinds[i], s)'
        <4>1. CASE i < w.kind
          <5>1. Kinds[i] \in KindSet
            BY DEF KindSet
          <5> QED
            BY <2>3, <3>1, <3>2, <4>1, <5>1, DoneStands
        <4>2. CASE PutChild(w.name, k, new) /\ i = w.kind
          BY <2>3, <4>2 DEF PutChild, Settled
        <4>3. CASE (~Wanted(k, w.obj.spec) \/ cached = new) /\ i = w.kind
          <5>1. ~Wanted(k, s.spec) \/ childCache[n][k] = new
            BY <2>3, <4>3
          <5>2. /\ new.owner = s.uid
                /\ new.content = Desired(k, s.spec, CachedConfig(s.spec))
            BY <2>3, <3>2
          <5>3. new # None
            <6>1. s.uid \in Nat
              BY SpecsAndStatus
            <6>2. Desired(k, s.spec, w.config) \in Content
              BY <1>1 DEF Desired, Content, TypeOK
            <6>3. (cached # None /\ cached.ready) \in BOOLEAN
              <7>1. cached \in Child \cup {None}
                BY <1>1, <1>2 DEF TypeOK
              <7> QED
                BY <7>1 DEF Child
            <6>4. new \in Child
              BY <2>3, <6>1, <6>2, <6>3 DEF Child
            <6> QED
              BY <6>4
          <5>4. Settled(n, k, s)
            BY <5>1, <5>2, <5>3 DEF Settled
          <5> QED
            BY <1>2, <2>3, <3>1, <4>3, <5>4, DoneStands
        <4> QED
          BY <1>2, <2>1, <3>4, <4>1, <4>2, <4>3
      <3>5. CASE w'.pc = "child" /\ w'.kind = w.kind + 1 /\ w'.config = w.config
        <4>1. \A i \in 1..Len(Kinds) : i < w'.kind => Settled(n, Kinds[i], s)'
          BY <1>2, <3>4, <3>5
        <4> QED
          BY <3>2, <3>3, <3>5, <4>1 DEF OnTheWay
      <3>6. CASE w'.pc = "observe" /\ w.kind = Len(Kinds)
        <4>1. \A j \in KindSet : Settled(n, j, s)'
          BY <3>4, <3>6 DEF KindSet
        <4> QED
          BY <3>3, <3>6, <4>1 DEF OnTheWay
      <3> QED
        BY <2>2, <3>5, <3>6
    <2>4. \A n \in Names : Accounted(n)'
      BY <1>1, <1>4, <2>1, <2>2, <2>3, OnwardAccounts
    <2> QED
      BY <1>4, <2>4 DEF QueueInv
  <1> QED
    BY <1>5, <1>6

\* The configuration comes from the cached template, and the readiness in the
\* status from the cached deployment.
LEMMA ResolveObserveAccounts ==
    ASSUME OperatorInv, QueueInv, ResolveConfig \/ Observe
    PROVE  QueueInv'
  <1>1. /\ TypeOK /\ w.pc \in {"resolve", "observe"} /\ dirty' = dirty
        /\ UNCHANGED <<api, child, childNews, cacheVars>>
    BY DEF OperatorInv, ResolveConfig, Observe, apiVars, queueVars
  <1>2. w.name \in Names /\ w.obj \in Server
    BY <1>1 DEF TypeOK
  <1>3. CachesFollow'
    BY <1>1, CachesFollowStands DEF QueueInv, cacheVars
  <1>4. CASE ResolveConfig
    <2> DEFINE spec == w.obj.spec
    <2>1. /\ w.pc = "resolve" /\ w'.name = w.name /\ w'.obj = w.obj
          /\ \/ w'.pc = "unresolved"
             \/ /\ w'.pc = "child" /\ w'.kind = 1 /\ w'.config = CachedConfig(spec)
                /\ spec.ref => templateCache # None
      BY <1>4 DEF ResolveConfig, CachedConfig, TypeOK
    <2>2. ASSUME NEW n \in Names, n = w.name, NEW s \in Server, s = w.obj, cache[n] = s,
                 OnTheWay(n, s)
          PROVE  OnTheWay(n, s)'
      <3>1. s.finalizer /\ ~s.deleting
        BY <2>1, <2>2 DEF OnTheWay
      <3>2. CachedConfig(s.spec)' = CachedConfig(s.spec) /\ templateCache' = templateCache
        BY <1>1 DEF CachedConfig, cacheVars
      <3> QED
        BY <2>1, <2>2, <3>1, <3>2 DEF OnTheWay, MayReconcile
    <2>3. \A n \in Names : Accounted(n)'
      BY <1>1, <2>1, <2>2, OnwardAccounts
    <2> QED
      BY <1>3, <2>3 DEF QueueInv
  <1>5. CASE Observe
    <2> DEFINE d == childCache[w.name]["Deployment"]
               paused == w.obj.spec.paused
               up == d # None /\ d.ready /\ ~paused
    <2>1. \E st \in Status :
             w' = [w EXCEPT !.pc = "publish", !.status = st] /\ st.ready = up
      <3> DEFINE old == [w.obj.status EXCEPT
                            !.resolved = IF w.obj.spec.ref THEN "yes" ELSE @]
                 down == [old EXCEPT !.ready = FALSE, !.players = 0]
      <3>1. old \in Status
        <4>1. w.obj.status \in Status
          BY <1>2, SpecsAndStatus
        <4> QED
          BY <4>1 DEF Status
      <3>2. down \in Status /\ down.ready = FALSE
        BY <3>1 DEF Status
      <3>3. [old EXCEPT !.ready = TRUE] \in Status /\ [old EXCEPT !.ready = TRUE].ready = TRUE
        BY <3>1 DEF Status
      <3>4. \A c \in Counts : /\ [old EXCEPT !.ready = TRUE, !.players = c] \in Status
                              /\ [old EXCEPT !.ready = TRUE, !.players = c].ready = TRUE
        BY <3>1 DEF Status
      <3>5. CASE d = None \/ paused
        <4>1. w' = [w EXCEPT !.pc = "publish", !.status = down]
          BY <1>5, <3>5 DEF Observe
        <4>2. up = FALSE
          BY <3>5
        <4>3. \E st \in Status : w' = [w EXCEPT !.pc = "publish", !.status = st] /\ st.ready = FALSE
          BY <3>2, <4>1, Zenon
        <4> QED
          BY <4>2, <4>3, Zenon
      <3>6. CASE d # None /\ ~paused /\ d.ready
        <4>1. \/ \E c \in Counts : w' = [w EXCEPT !.pc = "publish",
                                           !.status = [old EXCEPT !.ready = TRUE, !.players = c]]
              \/ w' = [w EXCEPT !.pc = "publish", !.status = [old EXCEPT !.ready = TRUE]]
          BY <1>5, <3>6, Zenon DEF Observe
        <4>2. up = TRUE
          BY <3>6
        <4>3. \E st \in Status : w' = [w EXCEPT !.pc = "publish", !.status = st] /\ st.ready = TRUE
          BY <3>3, <3>4, <4>1, Zenon
        <4> QED
          BY <4>2, <4>3, Zenon
      <3>7. CASE d # None /\ ~paused /\ ~d.ready
        <4>1. w' = [w EXCEPT !.pc = "publish", !.status = down]
          BY <1>5, <3>7 DEF Observe
        <4>2. up = FALSE
          BY <3>7
        <4>3. \E st \in Status : w' = [w EXCEPT !.pc = "publish", !.status = st] /\ st.ready = FALSE
          BY <3>2, <4>1, Zenon
        <4> QED
          BY <4>2, <4>3, Zenon
      <3> QED
        BY <3>5, <3>6, <3>7
    <2>2. /\ w.pc = "observe" /\ w'.pc = "publish" /\ w'.name = w.name /\ w'.obj = w.obj
          /\ w'.status.ready = up
      <3>1. w.pc = "observe"
        BY <1>5 DEF Observe
      <3> QED
        BY <2>1, <3>1
    <2>3. ASSUME NEW n \in Names, n = w.name, NEW s \in Server, s = w.obj, cache[n] = s,
                 OnTheWay(n, s)
          PROVE  OnTheWay(n, s)'
      <3>1. MayReconcile(s) /\ \A k \in KindSet : Settled(n, k, s)
        BY <2>2, <2>3 DEF OnTheWay
      <3>2. ASSUME NEW ready, ready = up
            PROVE  Done(n, s, ready)'
        <4>1. Reported(n, s, ready)
          BY <2>3, <3>2 DEF Reported
        <4> QED
          BY <1>1, <3>1, <4>1 DEF Done, MayReconcile, Settled, Reported, CachedConfig, cacheVars
      <3>3. Done(n, s, w.status.ready)'
        BY <2>2, <3>2 DEF Done, Reported
      <3> QED
        BY <2>2, <3>3 DEF OnTheWay
    <2>4. \A n \in Names : Accounted(n)'
      BY <1>1, <2>2, <2>3, OnwardAccounts
    <2> QED
      BY <1>3, <2>4 DEF QueueInv
  <1> QED
    BY <1>4, <1>5

\* The worker rests, and what a name's account rests on stays or puts the name
\* in the queue.
LEMMA WorldAccounts ==
    ASSUME OperatorInv, QueueInv, CachesFollow', w' = w,
           \A n \in Names : n \notin dirty' => n \notin dirty /\ Steady(n)
    PROVE  QueueInv'
  BY AccountStands DEF QueueInv

\* The watches: what a cache hears puts the names it is about in the queue.
LEMMA WatchesAccount ==
    ASSUME OperatorInv, QueueInv,
           \/ SyncTemplate \/ Restart
           \/ \E n \in Names : SyncServer(n) \/ \E k \in KindSet : SyncChild(n, k)
    PROVE  QueueInv'
  <1>t. TypeOK /\ CachesFollow
    BY DEF OperatorInv, QueueInv
  <1>1. CASE SyncTemplate
    <2>1. /\ UNCHANGED <<api, child, childNews, cache, childCache, w>>
          /\ dirty' = dirty \cup FindServersForTemplate
      BY <1>1 DEF SyncTemplate, apiVars
    <2>2. ASSUME NEW n \in Names, n \notin dirty'
          PROVE  n \notin dirty /\ Steady(n)
      BY <2>1, <2>2 DEF Steady, OwnerAlive, Exists, FindServersForTemplate, Cached
    <2> QED
      BY <1>t, <2>1, <2>2, WorldAccounts, CachesFollowStands
  <1>2. CASE Restart
    <2>1. /\ api' = api /\ childCache' = child /\ child' = child /\ w' = Idle
          /\ dirty' = {n \in Names : Exists(n)}
      BY <1>2 DEF Restart
    <2>2. CachesFollow'
      BY <2>1 DEF CachesFollow
    <2>3. ASSUME NEW n \in Names
          PROVE  Accounted(n)'
      BY <2>1 DEF Accounted, AtWork, Idle, OwnerAlive, Exists
    <2> QED
      BY <2>2, <2>3 DEF QueueInv
  <1>3. ASSUME NEW m \in Names, SyncServer(m)
        PROVE  QueueInv'
    <2>1. /\ UNCHANGED <<api, child, childNews, childCache, templateCache, w>>
          /\ cache' = [cache EXCEPT ![m] = api[m]] /\ dirty' = dirty \cup {m}
      BY <1>3 DEF SyncServer, apiVars
    <2>2. ASSUME NEW n \in Names, n \notin dirty'
          PROVE  n \notin dirty /\ Steady(n)
      BY <1>t, <2>1, <2>2 DEF Steady, OwnerAlive, Exists, TypeOK
    <2> QED
      BY <1>t, <2>1, <2>2, WorldAccounts, CachesFollowStands
  <1>4. ASSUME NEW m \in Names, NEW j \in KindSet, SyncChild(m, j)
        PROVE  QueueInv'
    <2>1. /\ UNCHANGED <<api, child, cache, templateCache, w>>
          /\ childCache' = [childCache EXCEPT ![m][j] = child[m][j]]
          /\ childNews' = childNews \ {<<m, j>>} /\ dirty' = dirty \cup {m}
      BY <1>4 DEF SyncChild
    <2>2. CachesFollow'
      <3>1. \A n \in Names, k \in KindSet :
              childCache'[n][k] = IF n = m /\ k = j THEN child[n][k] ELSE childCache[n][k]
        BY <1>t, <2>1 DEF TypeOK
      <3> QED
        BY <1>t, <2>1, <3>1 DEF CachesFollow
    <2>3. ASSUME NEW n \in Names, n \notin dirty'
          PROVE  n \notin dirty /\ Steady(n)
      BY <1>t, <2>1, <2>3 DEF Steady, OwnerAlive, Exists, TypeOK
    <2> QED
      BY <2>1, <2>2, <2>3, WorldAccounts
  <1> QED
    BY <1>1, <1>2, <1>3, <1>4

\* Kubernetes and the users change what the caches will hear of.
LEMMA OutsideAccounts ==
    ASSUME OperatorInv, QueueInv,
           \/ User
           \/ \E n \in Names : DeploymentStatus(n) \/ \E k \in KindSet : CollectGarbage(n, k)
    PROVE  QueueInv'
  <1>t. TypeOK /\ CachesFollow
    BY DEF OperatorInv, QueueInv
  <1>1. ASSUME UNCHANGED <<api, template, cacheVars, queueVars, w>>,
               NEW m \in Names, NEW j \in KindSet, NEW new, PutChild(m, j, new)
        PROVE  QueueInv'
    <2>1. CachesFollow'
      BY <1>t, <1>1, CachesFollowStands DEF cacheVars
    <2>2. \A n \in Names : Steady(n)
      BY <1>1 DEF PutChild, Steady, OwnerAlive, Exists, cacheVars
    <2> QED
      BY <1>1, <2>1, <2>2, WorldAccounts DEF queueVars
  <1>2. ASSUME NEW m \in Names, DeploymentStatus(m)
        PROVE  QueueInv'
    BY <1>1, <1>2 DEF DeploymentStatus
  <1>3. ASSUME NEW m \in Names, NEW j \in KindSet, CollectGarbage(m, j) \/ DeleteChild(m, j)
        PROVE  QueueInv'
    BY <1>1, <1>3 DEF CollectGarbage, DeleteChild
  <1>4. ASSUME UNCHANGED <<child, childNews, cacheVars, queueVars, w>>,
               \A n \in Names :
                  \/ api'[n] = api[n] \/ ~Exists(n)'
                  \/ ~Exists(n) /\ api'[n].uid = ops
                  \/ Exists(n) /\ api'[n].uid = api[n].uid /\ api'[n].status = api[n].status
        PROVE  QueueInv'
    <2>1. CachesFollow'
      BY <1>t, <1>4, CachesFollowStands DEF cacheVars
    <2>2. ASSUME NEW n \in Names
          PROVE  Steady(n)
      <3>1. CASE ~Exists(n) /\ api'[n].uid = ops
        <4>1. \A u \in Nat : u < ops => ~OwnerAlive(n, u)'
          BY <1>t, <3>1 DEF OwnerAlive, TypeOK
        <4> QED
          BY <1>4, <4>1 DEF Steady, cacheVars
      <3>2. CASE ~(~Exists(n) /\ api'[n].uid = ops)
        BY <1>4, <3>2, SteadyServer
      <3> QED
        BY <3>1, <3>2
    <2> QED
      BY <1>4, <2>1, <2>2, WorldAccounts DEF queueVars
  <1>5. ASSUME NEW m \in Names, NEW spec \in Specs, CreateServer(m, spec)
        PROVE  QueueInv'
    <2> DEFINE new == [uid |-> ops, spec |-> spec, deleting |-> FALSE, finalizer |-> FALSE,
                       status |-> [ready |-> FALSE, players |-> 0, resolved |-> "unset"]]
    <2>1. api' = [api EXCEPT ![m] = new] /\ ~Exists(m)
          /\ UNCHANGED <<child, childNews, cacheVars, queueVars, w>>
      BY <1>5 DEF CreateServer
    <2>2. new.uid = ops
      OBVIOUS
    <2>3. api'[m].uid = ops /\ \A n \in Names : n # m => api'[n] = api[n]
      BY <1>t, <2>1, <2>2 DEF TypeOK
    <2> QED
      BY <1>4, <2>1, <2>3
  <1>6. ASSUME NEW m \in Names, NEW spec \in Specs, EditServer(m, spec)
        PROVE  QueueInv'
    <2>1. api[m] \in Server /\ Exists(m) /\ api' = [api EXCEPT ![m] = [api[m] EXCEPT !.spec = spec]]
          /\ UNCHANGED <<child, childNews, cacheVars, queueVars, w>>
      BY <1>t, <1>6 DEF EditServer, Exists, TypeOK
    <2>2. /\ [api[m] EXCEPT !.spec = spec].uid = api[m].uid
          /\ [api[m] EXCEPT !.spec = spec].status = api[m].status
      BY <2>1 DEF Server
    <2>3. /\ api'[m].uid = api[m].uid /\ api'[m].status = api[m].status
          /\ \A n \in Names : n # m => api'[n] = api[n]
      BY <1>t, <2>1, <2>2 DEF TypeOK
    <2> QED
      BY <1>4, <2>1, <2>3
  <1>7. ASSUME NEW m \in Names, DeleteServer(m)
        PROVE  QueueInv'
    <2>1. /\ api[m] \in Server /\ Exists(m)
          /\ api' = [api EXCEPT ![m] =
                IF api[m].finalizer THEN [api[m] EXCEPT !.deleting = TRUE] ELSE None]
          /\ UNCHANGED <<child, childNews, cacheVars, queueVars, w>>
      BY <1>t, <1>7 DEF DeleteServer, Exists, TypeOK
    <2>2. /\ [api[m] EXCEPT !.deleting = TRUE].uid = api[m].uid
          /\ [api[m] EXCEPT !.deleting = TRUE].status = api[m].status
      BY <2>1 DEF Server
    <2>3. /\ ~Exists(m)' \/ (api'[m].uid = api[m].uid /\ api'[m].status = api[m].status)
          /\ \A n \in Names : n # m => api'[n] = api[n]
      BY <1>t, <2>1, <2>2 DEF TypeOK, Exists
    <2> QED
      BY <1>4, <2>1, <2>3
  <1>8. ASSUME NEW t \in Templates \cup {None}, ChangeTemplate(t)
        PROVE  QueueInv'
    BY <1>4, <1>8 DEF ChangeTemplate
  <1> QED
    BY <1>2, <1>3, <1>5, <1>6, <1>7, <1>8, Zenon DEF User

LEMMA InitQueueInv == Init => QueueInv
  BY DEF Init, QueueInv, CachesFollow, Accounted, OwnerAlive, Exists, AtWork, Idle

LEMMA NextQueueInv == OperatorInv /\ QueueInv /\ [Next]_vars => QueueInv'
  <1> SUFFICES ASSUME OperatorInv, QueueInv, [Next]_vars
               PROVE  QueueInv'
    OBVIOUS
  <1>t. TypeOK /\ CachesFollow
    BY DEF OperatorInv, QueueInv
  <1>1. ASSUME UNCHANGED <<apiVars, cacheVars, w>>, dirty \subseteq dirty'
        PROVE  QueueInv'
    <2>1. CachesFollow'
      BY <1>t, <1>1, CachesFollowStands DEF apiVars, cacheVars
    <2>2. \A n \in Names : Steady(n)
      BY <1>1, SteadyServer DEF apiVars
    <2> QED
      BY <1>1, <2>1, <2>2, WorldAccounts
  <1>2. CASE UNCHANGED vars
    BY <1>1, <1>2 DEF vars, queueVars
  <1>3. ASSUME NEW n \in Names, Refresh(n)
        PROVE  QueueInv'
    BY <1>1, <1>3 DEF Refresh
  <1>4. CASE Next
    BY <1>3, <1>4, TakeAccounts, WriteBackAccounts, RemovalAccounts, ReconcileChildAccounts,
       ResolveObserveAccounts, WatchesAccount, OutsideAccounts, Zenon DEF Next, Reconcile
  <1> QED
    BY <1>2, <1>4

LEMMA QueueHolds == Spec => []QueueInv
  BY InvariantHolds, InitQueueInv, NextQueueInv, PTL DEF Spec

\* A server that is neither in the queue nor at work, and of which the caches
\* know everything, has the children and the status its users ask for.
THEOREM NothingIsForgotten == Spec => []NothingForgotten
  <1>1. OperatorInv /\ QueueInv => NothingForgotten
    <2> SUFFICES ASSUME OperatorInv, QueueInv, NEW n \in Names,
                        Exists(n), UpToDate(n), n \notin dirty, ~AtWork(n)
                 PROVE  Resolvable(n) /\ InSync(n)
      BY DEF NothingForgotten
    <2> DEFINE s == api[n]
    <2>1. s \in Server /\ cache[n] = s /\ OwnerAlive(n, s.uid)
      BY DEF OperatorInv, TypeOK, Exists, UpToDate, OwnerAlive
    <2>2. Done(n, s, s.status.ready)
      BY <2>1 DEF QueueInv, Accounted
    <2>3. CachedConfig(s.spec) = <<s.spec.cfg, IF s.spec.ref THEN template ELSE None>>
      BY DEF CachedConfig, UpToDate
    <2>4. \A k \in KindSet : <<n, k>> \notin childNews /\ childCache[n][k] = child[n][k]
      BY DEF UpToDate, QueueInv, CachesFollow
    <2>5. Resolvable(n)
      BY <2>2 DEF Resolvable, Done, MayReconcile, UpToDate
    <2>6. ASSUME NEW k \in KindSet, Wanted(k, s.spec)
          PROVE  /\ child[n][k] # None /\ child[n][k].owner = s.uid
                 /\ child[n][k].content = Desired(k, s.spec, CachedConfig(s.spec))
      BY <2>2, <2>4, <2>6 DEF Done, Settled
    <2>7. s.status.ready = (child[n]["Deployment"].ready /\ ~s.spec.paused)
      <3>1. "Deployment" \in KindSet /\ Wanted("Deployment", s.spec)
        BY DEF Wanted, Routes
      <3>2. child[n]["Deployment"] # None
        BY <2>6, <3>1
      <3> QED
        BY <2>2, <2>4, <3>1, <3>2 DEF Done, Reported
    <2> QED
      BY <2>3, <2>5, <2>6, <2>7 DEF InSync
  <1> QED
    BY <1>1, InvariantHolds, QueueHolds, PTL
=============================================================================
