------------------------------ MODULE Operator ------------------------------
(***************************************************************************)
(* The QuakeServer controller of the operator:                             *)
(* operator/internal/controller/quakeserver_controller.go.                 *)
(*                                                                         *)
(* One worker takes names from the work queue and runs Reconcile on them.  *)
(* It reads QuakeServers, children and the template from informer caches   *)
(* that lag behind the API server, and writes to the API server, where a   *)
(* write based on an old version is refused.  Meanwhile users create, edit *)
(* and delete QuakeServers, the template changes, Kubernetes reports ready *)
(* replicas and collects orphans, calls fail, and the operator restarts.   *)
(*                                                                         *)
(* A cache jumps to the latest version, as a watch may coalesce versions.  *)
(* A QuakeServer is written if it still has the value that was read: the   *)
(* API server would refuse it if it had changed back and forth meanwhile,  *)
(* a refusal that is here one of the calls that may fail.                  *)
(***************************************************************************)
EXTENDS Integers, Sequences, FiniteSets

CONSTANTS
    Names,          \* names of QuakeServers
    Specs,          \* specs (with the pause annotation) users may give
    Configs,        \* inline configurations
    Templates,      \* contents the template may have
    Kinds,          \* the kinds of children, in the order they are reconciled
    Counts,         \* player counts a game server may report
    None,           \* no object, no value
    MaxOps,         \* bound on what users do
    MaxFaults       \* bound on failed calls and operator restarts

AllKinds == {"ConfigMap", "Service", "Deployment", "HTTPRoute", "UDPRoute"}
Routes == {"HTTPRoute", "UDPRoute"}
Spec0 == [cfg : Configs, paused : BOOLEAN, routes : SUBSET Routes, ref : BOOLEAN]
KindSet == {Kinds[i] : i \in 1..Len(Kinds)}

ASSUME OperatorAssumption ==
    /\ IsFiniteSet(Names) /\ Specs \subseteq Spec0
    /\ Kinds \in Seq(AllKinds) /\ "Deployment" \in KindSet
    /\ Counts \subseteq Nat /\ 0 \in Counts
    /\ MaxOps \in Nat /\ MaxFaults \in Nat

VARIABLES
    api,            \* QuakeServers in the API server
    cache,          \* QuakeServers in the informer cache
    child,          \* children in the API server, by name and kind
    childCache,     \* children in the informer caches
    childNews,      \* children changed since their informer last heard of them
    template,       \* the template in the API server
    templateCache,  \* the template in the informer cache
    dirty,          \* names in the work queue
    refresh,        \* names to be added to it after statusRefreshInterval
    w,              \* the worker: where it is, and Reconcile's locals
    active,         \* gauge quakeserver_active_total
    players,        \* gauge quakeserver_players_active, by server name
    ops,            \* user operations so far; the next uid
    faults,         \* faults so far
    lost            \* of these, lost replies to updates of QuakeServers

apiVars == <<api, child, childNews, template>>
cacheVars == <<cache, childCache, templateCache>>
queueVars == <<dirty, refresh>>
metricVars == <<active, players>>
envVars == <<ops, faults, lost>>
vars == <<apiVars, cacheVars, queueVars, w, metricVars, envVars>>

Status == [ready : BOOLEAN, players : Counts, resolved : {"unset", "yes", "no"}]
Server == [uid : Nat, spec : Specs, deleting : BOOLEAN, finalizer : BOOLEAN,
           status : Status]
Resolved == Configs \X (Templates \cup {None})
Content == [config : Resolved \cup {None}, replicas : {0, 1}]
Child == [owner : Nat, content : Content, ready : BOOLEAN]

ASSUME NoneAssumption == None \notin Server \cup Child \cup Templates \cup Counts

Idle == [pc |-> "idle", name |-> None, obj |-> None, config |-> None,
         kind |-> 0, status |-> None]
Pcs == {"idle", "adopt", "finalize", "forget", "resolve", "unresolved",
        "child", "observe", "publish"}

TypeOK ==
    /\ api \in [Names -> Server \cup {None}]
    /\ cache \in [Names -> Server \cup {None}]
    /\ child \in [Names -> [KindSet -> Child \cup {None}]]
    /\ childCache \in [Names -> [KindSet -> Child \cup {None}]]
    /\ childNews \subseteq Names \X KindSet
    /\ template \in Templates \cup {None} /\ templateCache \in Templates \cup {None}
    /\ dirty \subseteq Names /\ refresh \subseteq Names
    /\ w.pc \in Pcs /\ w.kind \in 0..Len(Kinds)
    /\ w.pc # "idle" => w.name \in Names /\ w.obj \in Server
    /\ w.pc \in {"unresolved", "publish"} => w.status \in Status
    /\ w.pc = "child" => w.config \in Resolved /\ w.kind # 0
    /\ active \in Nat /\ players \in [Names -> Counts \cup {None}]
    /\ ops \in Nat /\ faults \in Nat /\ lost \in 0..faults

-----------------------------------------------------------------------------
Init ==
    /\ api = [n \in Names |-> None] /\ cache = api
    /\ child = [n \in Names |-> [k \in KindSet |-> None]] /\ childCache = child
    /\ childNews = {}
    /\ template = None /\ templateCache = None
    /\ dirty = {} /\ refresh = {}
    /\ w = Idle
    /\ active = 0 /\ players = [n \in Names |-> None]
    /\ ops = 0 /\ faults = 0 /\ lost = 0

Exists(n) == api[n] # None
Cached == {n \in Names : cache[n] # None}

PutChild(n, k, new) ==
    /\ child' = [child EXCEPT ![n][k] = new]
    /\ childNews' = childNews \cup {<<n, k>>}

\* The owner a child refers to is in the API server.
OwnerAlive(n, uid) == Exists(n) /\ api[n].uid = uid

-----------------------------------------------------------------------------
(* The worker.  A returned error puts the name back in the queue.          *)

\* Variant: the worker tries again on the spot.
Requeue_OnTheSpot == w' = w /\ UNCHANGED queueVars

Requeue == w' = Idle /\ dirty' = dirty \cup {w.name} /\ UNCHANGED refresh

Fault == faults < MaxFaults /\ faults' = faults + 1 /\ UNCHANGED <<ops, lost>>

\* The API server takes new in place of the version Reconcile read.
Put(new) == api[w.name] = w.obj /\ api' = [api EXCEPT ![w.name] = new]

\* It refuses it, the call fails, or the call succeeds and its reply is lost.
PutFails(new) ==
    /\ \/ api[w.name] # w.obj /\ UNCHANGED <<api, envVars>>
       \/ Fault /\ UNCHANGED api
       \/ /\ Put(new) /\ faults < MaxFaults
          /\ faults' = faults + 1 /\ lost' = lost + 1 /\ UNCHANGED ops
    /\ Requeue

\* Variant: Reconcile works without a finalizer of its own.
Take_WithoutFinalizer(n) ==
    /\ w.pc = "idle" /\ n \in dirty
    /\ dirty' = dirty \ {n}
    /\ IF cache[n] = None
       THEN UNCHANGED <<w, active>>
       ELSE /\ active' = Cardinality(Cached)
            /\ w' = [Idle EXCEPT !.name = n, !.obj = cache[n],
                        !.pc = IF cache[n].deleting THEN "finalize" ELSE "resolve"]
    /\ UNCHANGED <<apiVars, cacheVars, refresh, players, envVars>>

\* Get and List from the cache, then the branches of Reconcile.
Take(n) ==
    /\ w.pc = "idle" /\ n \in dirty
    /\ dirty' = dirty \ {n}
    /\ IF cache[n] = None
       THEN UNCHANGED <<w, active>>
       ELSE /\ active' = Cardinality(Cached)
            /\ w' = [Idle EXCEPT !.name = n, !.obj = cache[n],
                        !.pc = IF cache[n].deleting THEN "finalize"
                               ELSE IF cache[n].finalizer THEN "resolve" ELSE "adopt"]
    /\ UNCHANGED <<apiVars, cacheVars, refresh, players, envVars>>

AddFinalizer ==
    /\ w.pc = "adopt"
    /\ LET new == [w.obj EXCEPT !.finalizer = TRUE] IN
           \/ Put(new) /\ Requeue /\ UNCHANGED envVars
           \/ PutFails(new)
    /\ UNCHANGED <<child, childNews, template, cacheVars, metricVars>>

\* Without its finalizer a deleted server leaves the API server.
RemoveFinalizer ==
    /\ w.pc = "finalize"
    /\ \/ Put(None) /\ w' = [w EXCEPT !.pc = "forget"] /\ UNCHANGED <<queueVars, envVars>>
       \/ PutFails(None)
    /\ UNCHANGED <<child, childNews, template, cacheVars, metricVars>>

\* Variant: the player gauge is not deleted.
Forget_KeepsPlayers ==
    /\ w.pc = "forget"
    /\ active' = Cardinality(Cached)
    /\ w' = Idle
    /\ UNCHANGED <<apiVars, cacheVars, queueVars, players, envVars>>

\* The metrics after a deletion; the list comes from the cache.
Forget ==
    /\ w.pc = "forget"
    /\ active' = Cardinality(Cached)
    /\ players' = [players EXCEPT ![w.name] = None]
    /\ w' = Idle
    /\ UNCHANGED <<apiVars, cacheVars, queueVars, envVars>>

\* resolveConfig, whose error is also recorded in the status.
ResolveConfig ==
    /\ w.pc = "resolve"
    /\ LET spec == w.obj.spec
           config == <<spec.cfg, IF spec.ref THEN templateCache ELSE None>>
       IN  w' = IF spec.ref /\ templateCache = None
                THEN [w EXCEPT !.pc = "unresolved",
                               !.status = [w.obj.status EXCEPT !.resolved = "no"]]
                ELSE [w EXCEPT !.pc = "child", !.kind = 1, !.config = config]
    /\ UNCHANGED <<apiVars, cacheVars, queueVars, metricVars, envVars>>

\* The status update may fail too: the error returned is the same.
RecordUnresolved ==
    /\ w.pc = "unresolved"
    /\ LET new == [w.obj EXCEPT !.status = w.status] IN
           \/ Put(new) /\ Requeue /\ UNCHANGED envVars
           \/ PutFails(new)
    /\ UNCHANGED <<child, childNews, template, cacheVars, metricVars>>

\* Routes are reconciled only for an enabled gateway, the HTTPRoute if it has a
\* hostname and the UDPRoute if it has a reference.
Wanted(k, spec) == k \in Routes => k \in spec.routes

\* What distinguishes two contents of a child: the configuration a ConfigMap
\* carries, and the replicas of a Deployment.
Desired(k, spec, config) ==
    [config |-> IF k = "ConfigMap" THEN config ELSE None,
     replicas |-> IF k = "Deployment" /\ ~spec.paused THEN 1 ELSE 0]

AfterChild == IF w.kind < Len(Kinds) THEN [w EXCEPT !.kind = @ + 1]
              ELSE [w EXCEPT !.pc = "observe", !.kind = 0, !.config = None]

\* The API server creates what does not exist, and updates the version that the
\* cache has.
Accepted(n, k) ==
    IF childCache[n][k] = None THEN child[n][k] = None ELSE <<n, k>> \notin childNews

\* CreateOrUpdate of one child: a create or an update, which may be refused or
\* fail, or succeed and its reply be lost.  If the cached child is as wanted a
\* ConfigMap is left alone, while the others, whose spec is rebuilt without the
\* API server's defaults, are updated to no effect.
ReconcileChild ==
    /\ w.pc = "child"
    /\ LET k == Kinds[w.kind]
           cached == childCache[w.name][k]
           new == [owner |-> w.obj.uid,
                   content |-> Desired(k, w.obj.spec, w.config),
                   ready |-> cached # None /\ cached.ready]
       IN  \/ /\ ~Wanted(k, w.obj.spec) \/ cached = new
              /\ w' = AfterChild /\ UNCHANGED <<child, childNews, queueVars, envVars>>
           \/ /\ Wanted(k, w.obj.spec) /\ cached # new
              /\ Accepted(w.name, k)
              /\ PutChild(w.name, k, new)
              /\ \/ w' = AfterChild /\ UNCHANGED <<queueVars, envVars>>
                 \/ Requeue /\ Fault
           \/ /\ Wanted(k, w.obj.spec) /\ (k = "ConfigMap" => cached # new)
              /\ \/ ~Accepted(w.name, k) /\ UNCHANGED envVars
                 \/ Fault
              /\ Requeue /\ UNCHANGED <<child, childNews>>
    /\ UNCHANGED <<api, template, cacheVars, metricVars>>

\* updateStatus up to its last line: the new status, and the player metric.
Observe ==
    /\ w.pc = "observe"
    /\ LET d == childCache[w.name]["Deployment"]
           spec == w.obj.spec
           old == [w.obj.status EXCEPT
                      !.resolved = IF spec.ref THEN "yes" ELSE @]
           down == [old EXCEPT !.ready = FALSE, !.players = 0]
       IN  \/ /\ d = None \/ spec.paused
              /\ w' = [w EXCEPT !.pc = "publish", !.status = down]
              /\ UNCHANGED players
           \/ /\ d # None /\ ~spec.paused /\ d.ready
              /\ \/ \E c \in Counts :
                       /\ w' = [w EXCEPT !.pc = "publish",
                                         !.status = [old EXCEPT !.ready = TRUE, !.players = c]]
                       /\ players' = [players EXCEPT ![w.name] = c]
                 \/ /\ w' = [w EXCEPT !.pc = "publish",
                                      !.status = [old EXCEPT !.ready = TRUE]]
                    /\ UNCHANGED players
           \/ /\ d # None /\ ~spec.paused /\ ~d.ready
              /\ w' = [w EXCEPT !.pc = "publish", !.status = down]
              /\ players' = [players EXCEPT ![w.name] = 0]
    /\ UNCHANGED <<apiVars, cacheVars, queueVars, active, envVars>>

PublishStatus ==
    /\ w.pc = "publish"
    /\ LET new == [w.obj EXCEPT !.status = w.status] IN
           \/ /\ Put(new)
              /\ refresh' = (IF w.status.ready THEN refresh \cup {w.name} ELSE refresh)
              /\ w' = Idle /\ UNCHANGED <<dirty, envVars>>
           \/ PutFails(new)
    /\ UNCHANGED <<child, childNews, template, cacheVars, metricVars>>

Reconcile ==
    \/ AddFinalizer \/ RemoveFinalizer \/ Forget \/ ResolveConfig
    \/ RecordUnresolved \/ ReconcileChild \/ Observe \/ PublishStatus

Refresh(n) ==
    /\ n \in refresh
    /\ refresh' = refresh \ {n} /\ dirty' = dirty \cup {n}
    /\ UNCHANGED <<apiVars, cacheVars, w, metricVars, envVars>>

-----------------------------------------------------------------------------
(* The watches of SetupWithManager: a cache catches up and names are       *)
(* enqueued.                                                               *)

SyncServer(n) ==
    /\ cache[n] # api[n]
    /\ cache' = [cache EXCEPT ![n] = api[n]]
    /\ dirty' = dirty \cup {n}
    /\ UNCHANGED <<apiVars, childCache, templateCache, refresh, w, metricVars, envVars>>

\* Variant: ConfigMaps are not watched.
SyncChild_ConfigMapNotOwned(n, k) ==
    /\ <<n, k>> \in childNews
    /\ childCache' = [childCache EXCEPT ![n][k] = child[n][k]]
    /\ childNews' = childNews \ {<<n, k>>}
    /\ dirty' = IF k = "ConfigMap" THEN dirty ELSE dirty \cup {n}
    /\ UNCHANGED <<api, child, template, cache, templateCache, refresh, w, metricVars, envVars>>

\* Children are mapped to the name of their controller.
SyncChild(n, k) ==
    /\ <<n, k>> \in childNews
    /\ childCache' = [childCache EXCEPT ![n][k] = child[n][k]]
    /\ childNews' = childNews \ {<<n, k>>}
    /\ dirty' = dirty \cup {n}
    /\ UNCHANGED <<api, child, template, cache, templateCache, refresh, w, metricVars, envVars>>

FindServersForTemplate == {n \in Cached : cache[n].spec.ref}

SyncTemplate ==
    /\ templateCache # template
    /\ templateCache' = template
    /\ dirty' = dirty \cup FindServersForTemplate
    /\ UNCHANGED <<apiVars, cache, childCache, refresh, w, metricVars, envVars>>

\* A new process: it lists everything and has neither queue nor metrics.
Restart ==
    /\ Fault
    /\ cache' = api /\ childCache' = child /\ templateCache' = template
    /\ dirty' = {n \in Names : Exists(n)} /\ refresh' = {}
    /\ w' = Idle
    /\ active' = 0 /\ players' = [n \in Names |-> None]
    /\ childNews' = {} /\ UNCHANGED <<api, child, template>>

-----------------------------------------------------------------------------
(* Kubernetes.                                                             *)

\* A deployment becomes ready only with a replica, and loses it when scaled
\* down.
DeploymentStatus(n) ==
    /\ child[n]["Deployment"] # None
    /\ LET d == child[n]["Deployment"] IN
           /\ d.ready # (d.content.replicas = 1)
           /\ PutChild(n, "Deployment", [d EXCEPT !.ready = ~@])
    /\ UNCHANGED <<api, template, cacheVars, queueVars, w, metricVars, envVars>>

CollectGarbage(n, k) ==
    /\ child[n][k] # None /\ ~OwnerAlive(n, child[n][k].owner)
    /\ PutChild(n, k, None)
    /\ UNCHANGED <<api, template, cacheVars, queueVars, w, metricVars, envVars>>

-----------------------------------------------------------------------------
(* Users.                                                                  *)

UserOp == ops < MaxOps /\ ops' = ops + 1 /\ UNCHANGED <<faults, lost>>

\* A server is created, edited, or deleted; the API server keeps a deleted
\* one until it has no finalizer.
CreateServer(n, spec) ==
    /\ UserOp /\ ~Exists(n)
    /\ api' = [api EXCEPT ![n] =
           [uid |-> ops, spec |-> spec, deleting |-> FALSE, finalizer |-> FALSE,
            status |-> [ready |-> FALSE, players |-> 0, resolved |-> "unset"]]]
    /\ UNCHANGED <<child, childNews, template, cacheVars, queueVars, w, metricVars>>

EditServer(n, spec) ==
    /\ UserOp /\ Exists(n) /\ spec # api[n].spec
    /\ api' = [api EXCEPT ![n].spec = spec]
    /\ UNCHANGED <<child, childNews, template, cacheVars, queueVars, w, metricVars>>

DeleteServer(n) ==
    /\ UserOp /\ Exists(n) /\ ~api[n].deleting
    /\ api' = [api EXCEPT ![n] =
           IF api[n].finalizer THEN [api[n] EXCEPT !.deleting = TRUE] ELSE None]
    /\ UNCHANGED <<child, childNews, template, cacheVars, queueVars, w, metricVars>>

ChangeTemplate(t) ==
    /\ UserOp /\ template # t
    /\ template' = t
    /\ UNCHANGED <<api, child, childNews, cacheVars, queueVars, w, metricVars>>

DeleteChild(n, k) ==
    /\ UserOp /\ child[n][k] # None
    /\ PutChild(n, k, None)
    /\ UNCHANGED <<api, template, cacheVars, queueVars, w, metricVars>>

User ==
    \/ \E n \in Names : \/ \E spec \in Specs : CreateServer(n, spec) \/ EditServer(n, spec)
                        \/ DeleteServer(n)
                        \/ \E k \in KindSet : DeleteChild(n, k)
    \/ \E t \in Templates \cup {None} : ChangeTemplate(t)

-----------------------------------------------------------------------------
Next ==
    \/ Reconcile
    \/ SyncTemplate
    \/ Restart
    \/ User
    \/ \E n \in Names :
         \/ Take(n) \/ Refresh(n) \/ SyncServer(n) \/ DeploymentStatus(n)
         \/ \E k \in KindSet : SyncChild(n, k) \/ CollectGarbage(n, k)

Spec == Init /\ [][Next]_vars

\* The queue is first in, first out (hence SF for Take); watches deliver, the
\* garbage collector and the deployment controller do their work.
Fairness ==
    /\ WF_vars(Reconcile) /\ WF_vars(SyncTemplate)
    /\ \A n \in Names :
         /\ SF_vars(Take(n)) /\ WF_vars(SyncServer(n)) /\ WF_vars(DeploymentStatus(n))
         /\ \A k \in KindSet : WF_vars(SyncChild(n, k)) /\ WF_vars(CollectGarbage(n, k))

FairSpec == Spec /\ Fairness

-----------------------------------------------------------------------------
(* Properties.                                                             *)

\* While Reconcile works on a server's children or status, that very server
\* (not one recreated under its name) is in the API server and cannot leave
\* it: a deletion meanwhile waits for the finalizer.
ReconciledServerExists ==
    w.pc \in {"resolve", "unresolved", "child", "observe", "publish"} =>
        OwnerAlive(w.name, w.obj.uid) /\ api[w.name].finalizer

\* No child is ever created for, or handed over to, a server that is gone,
\* however stale the caches and late the writes: nothing runs unowned.
ChildrenGetLiveOwners ==
    [][ \A n \in Names, k \in KindSet :
          LET c == child'[n][k] IN
            c # None /\ (child[n][k] = None \/ child[n][k].owner # c.owner)
                => OwnerAlive(n, c.owner) ]_vars

\* The player gauge of a name disappears with its server, also when the server
\* is deleted during a reconcile or recreated at once.  Only a lost reply to
\* the removal of the finalizer can leave it behind.
PlayerGaugeHasServer ==
    lost = 0 =>
        \A n \in Names : players[n] # None =>
            \/ Exists(n) /\ api[n].finalizer
            \/ w.pc = "forget" /\ w.name = n

\* A server that exists, is not being deleted and has its template.
Resolvable(n) ==
    /\ Exists(n) /\ ~api[n].deleting
    /\ api[n].spec.ref => template # None

\* Children and status are what the spec and the template ask for.
InSync(n) ==
    LET s == api[n]
        config == <<s.spec.cfg, IF s.spec.ref THEN template ELSE None>>
    IN  /\ \A k \in KindSet : Wanted(k, s.spec) =>
             /\ child[n][k] # None /\ child[n][k].owner = s.uid
             /\ child[n][k].content = Desired(k, s.spec, config)
        /\ s.status.ready = (child[n]["Deployment"].ready /\ ~s.spec.paused)

\* The informers have nothing more to tell about a server.
UpToDate(n) ==
    /\ cache[n] = api[n]
    /\ \A k \in KindSet : <<n, k>> \notin childNews
    /\ api[n].spec.ref => templateCache = template

AtWork(n) == w.pc # "idle" /\ w.name = n

\* No change is forgotten: a server that is neither in the queue nor at work,
\* and of which the caches know everything, has what its users ask for. An
\* edit, a change of the template or of a child, a failed call or a restart
\* in the middle of a reconcile always leaves the name in the queue, news on
\* its way or the worker about to write.
NothingForgotten ==
    \A n \in Names :
        Exists(n) /\ UpToDate(n) /\ n \notin dirty /\ ~AtWork(n)
            => Resolvable(n) /\ InSync(n)

\* Once users and faults are quiet, every server gets the children and the
\* status it asks for and keeps them, a paused one without replicas, and
\* those of deleted servers are gone with them.
Converges ==
    \A n \in Names :
        <>[]( /\ Resolvable(n) => InSync(n)
              /\ Exists(n) => ~api[n].deleting
              /\ ~Exists(n) => \A k \in KindSet : child[n][k] = None )
=============================================================================
