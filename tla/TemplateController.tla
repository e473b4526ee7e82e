--------------------------- MODULE TemplateController ---------------------------
(***************************************************************************)
(* The QuakeServerTemplate controller of the operator:                     *)
(* operator/internal/controller/quakeservertemplate_controller.go.         *)
(*                                                                         *)
(* Reconcile writes the names of the QuakeServers that refer to a template *)
(* to the template's status.  It reads both from informer caches, gets the *)
(* servers in any order, and is triggered by every event of the template,  *)
(* those of its own writes included, and of the servers.                   *)
(*                                                                         *)
(* As in Operator a cache jumps to the latest version, and a write is      *)
(* accepted if the template has the value that was read.                   *)
(***************************************************************************)
EXTENDS Naturals, FiniteSets

CONSTANTS
    Names,          \* names of templates
    Servers,        \* names of QuakeServers
    None,           \* no template, no status
    Absent,         \* no server
    MaxOps,         \* bound on what users and the other controller do
    MaxFaults       \* bound on failed calls and operator restarts

ASSUME TemplateAssumption ==
    /\ IsFiniteSet(Servers) /\ None \notin Names /\ Absent \notin Names \cup {None}
    /\ MaxOps \in Nat /\ MaxFaults \in Nat

VARIABLES
    template,       \* templates in the API server
    templateCache,  \* templates in the informer cache
    ref,            \* the template each QuakeServer refers to, in the API server
    refCache,       \* the same in the informer cache and its index
    dirty,          \* the work queue
    w,              \* the worker: where it is, and Reconcile's locals
    ops,            \* operations so far; the next template's uid
    faults          \* faults so far

queueVars == <<dirty, w>>
envVars == <<ops, faults>>
vars == <<template, templateCache, ref, refCache, queueVars, envVars>>

\* The ways the index may list a set of servers.
Listings(S) ==
    {l \in [1..Cardinality(S) -> S] : \A s \in S : \E i \in DOMAIN l : l[i] = s}

Listed(l) == {l[i] : i \in DOMAIN l}

AllListings == UNION {Listings(S) : S \in SUBSET Servers}
Status == [usedBy : AllListings, observed : Nat]
Template == [uid : Nat, generation : Nat, status : Status \cup {None}]

ASSUME NoneAssumption == None \notin Template \cup Status

Idle == [pc |-> "idle", name |-> None, obj |-> None, usedBy |-> None]

TypeOK ==
    /\ template \in [Names -> Template \cup {None}]
    /\ templateCache \in [Names -> Template \cup {None}]
    /\ ref \in [Servers -> Names \cup {None, Absent}]
    /\ refCache \in [Servers -> Names \cup {None, Absent}]
    /\ dirty \subseteq Names
    /\ w.pc \in {"idle", "list", "update"}
    /\ w.pc # "idle" => w.name \in Names /\ w.obj \in Template
    /\ w.pc = "update" => w.usedBy \in AllListings
    /\ ops \in 0..MaxOps /\ faults \in 0..MaxFaults

Init ==
    /\ template = [t \in Names |-> None] /\ templateCache = template
    /\ ref = [s \in Servers |-> Absent] /\ refCache = ref
    /\ dirty = {} /\ w = Idle
    /\ ops = 0 /\ faults = 0

Users(t) == {s \in Servers : ref[s] = t}
CachedUsers(t) == {s \in Servers : refCache[s] = t}

-----------------------------------------------------------------------------
(* Reconcile.  A returned error puts the name back in the queue.           *)

Fault == faults < MaxFaults /\ faults' = faults + 1 /\ UNCHANGED ops

Requeue == w' = Idle /\ dirty' = dirty \cup {w.name}

Get(t) ==
    /\ w.pc = "idle" /\ t \in dirty
    /\ dirty' = dirty \ {t}
    /\ w' = IF templateCache[t] = None THEN Idle
            ELSE [pc |-> "list", name |-> t, obj |-> templateCache[t], usedBy |-> None]
    /\ UNCHANGED <<template, templateCache, ref, refCache, envVars>>

List ==
    /\ w.pc = "list"
    /\ \E l \in Listings(CachedUsers(w.name)) :
          w' = [w EXCEPT !.pc = "update", !.usedBy = l]
    /\ UNCHANGED <<template, templateCache, ref, refCache, dirty, envVars>>

\* Variant: every success asks for another reconcile.
UpdateStatus_Requeues ==
    /\ w.pc = "update" /\ template[w.name] = w.obj
    /\ template' = [template EXCEPT ![w.name].status =
           [usedBy |-> w.usedBy, observed |-> w.obj.generation]]
    /\ Requeue
    /\ UNCHANGED <<templateCache, ref, refCache, envVars>>

\* Status and condition are functions of the list and the generation: a write
\* that changes neither is no event.
UpdateStatus ==
    /\ w.pc = "update" /\ template[w.name] = w.obj
    /\ template' = [template EXCEPT ![w.name].status =
           [usedBy |-> w.usedBy, observed |-> w.obj.generation]]
    /\ w' = Idle
    /\ UNCHANGED <<templateCache, ref, refCache, dirty, envVars>>

\* Variant: the error is logged and forgotten.
UpdateFails_Swallows ==
    /\ w.pc = "update"
    /\ \/ template[w.name] # w.obj /\ UNCHANGED envVars
       \/ Fault
    /\ w' = Idle
    /\ UNCHANGED <<template, templateCache, ref, refCache, dirty>>

UpdateFails ==
    /\ w.pc = "update"
    /\ \/ template[w.name] # w.obj /\ UNCHANGED envVars
       \/ Fault
    /\ Requeue
    /\ UNCHANGED <<template, templateCache, ref, refCache>>

Reconcile == (\E t \in Names : Get(t)) \/ List \/ UpdateStatus \/ UpdateFails

-----------------------------------------------------------------------------
(* The watches of SetupWithManager.                                        *)

SyncTemplate(t) ==
    /\ templateCache[t] # template[t]
    /\ templateCache' = [templateCache EXCEPT ![t] = template[t]]
    /\ dirty' = dirty \cup {t}
    /\ UNCHANGED <<template, ref, refCache, w, envVars>>

\* Variant: an update of a server is mapped to its new template only.
findTemplateForServer_New(old, new) == {new} \cap Names

\* The names that the old and the new version of a server enqueue.
findTemplateForServer(old, new) == {old, new} \cap Names

SyncServer(s) ==
    /\ refCache[s] # ref[s]
    /\ refCache' = [refCache EXCEPT ![s] = ref[s]]
    /\ dirty' = dirty \cup findTemplateForServer(refCache[s], ref[s])
    /\ UNCHANGED <<template, templateCache, ref, w, envVars>>

-----------------------------------------------------------------------------
(* Users, the QuakeServer controller, and a new operator.                  *)

Operation == ops < MaxOps /\ ops' = ops + 1 /\ UNCHANGED faults

CreateTemplate(t) ==
    /\ Operation /\ template[t] = None
    /\ template' = [template EXCEPT ![t] = [uid |-> ops, generation |-> 0, status |-> None]]
    /\ UNCHANGED <<templateCache, ref, refCache, queueVars>>

EditTemplate(t) ==
    /\ Operation /\ template[t] # None
    /\ template' = [template EXCEPT ![t].generation = @ + 1]
    /\ UNCHANGED <<templateCache, ref, refCache, queueVars>>

DeleteTemplate(t) ==
    /\ Operation /\ template[t] # None
    /\ template' = [template EXCEPT ![t] = None]
    /\ UNCHANGED <<templateCache, ref, refCache, queueVars>>

\* A server is created, edited or deleted.
ChangeServer(s, r) ==
    /\ Operation /\ ref[s] # r
    /\ ref' = [ref EXCEPT ![s] = r]
    /\ UNCHANGED <<template, templateCache, refCache, queueVars>>

\* The status of a server changes, which is an event of the server as well.
TouchServer(s) ==
    /\ Operation
    /\ dirty' = dirty \cup findTemplateForServer(refCache[s], refCache[s])
    /\ UNCHANGED <<template, templateCache, ref, refCache, w>>

Restart ==
    /\ Fault
    /\ templateCache' = template /\ refCache' = ref
    /\ dirty' = {t \in Names : template[t] # None}
                  \cup {ref[s] : s \in {s \in Servers : ref[s] \in Names}}
    /\ w' = Idle
    /\ UNCHANGED <<template, ref>>

Environment ==
    \/ \E t \in Names : CreateTemplate(t) \/ EditTemplate(t) \/ DeleteTemplate(t)
    \/ \E s \in Servers :
          TouchServer(s) \/ \E r \in Names \cup {None, Absent} : ChangeServer(s, r)
    \/ Restart

Watches == (\E t \in Names : SyncTemplate(t)) \/ (\E s \in Servers : SyncServer(s))

Next == Reconcile \/ Watches \/ Environment

Spec == Init /\ [][Next]_vars

\* The worker and the watches go on; the queue is first in, first out.
Fairness ==
    /\ WF_vars(List) /\ WF_vars(UpdateStatus \/ UpdateFails)
    /\ \A t \in Names : SF_vars(Get(t)) /\ WF_vars(SyncTemplate(t))
    /\ \A s \in Servers : WF_vars(SyncServer(s))

FairSpec == Spec /\ Fairness

-----------------------------------------------------------------------------
(* Properties.                                                             *)

\* The status of t says what the caches say.
Settled(t) ==
    /\ template[t].status # None
    /\ Listed(template[t].status.usedBy) = CachedUsers(t)
    /\ template[t].status.observed = template[t].generation

\* No change is forgotten: a template whose status is not what the caches say
\* is in the queue, at the worker, or not yet in the cache as it is.
NothingForgotten ==
    \A t \in Names :
        template[t] # None /\ templateCache[t] = template[t] /\ t \notin dirty =>
            Settled(t) \/ (w.pc # "idle" /\ w.name = t)

\* From some time on every template lists its users, although its own writes
\* keep it coming back.
UsedByConverges ==
    <>[](\A t \in Names : template[t] # None =>
            /\ template[t].status # None
            /\ Listed(template[t].status.usedBy) = Users(t))

\* The controller falls silent where no template has two users.  With two, the
\* order of the list may differ each time, and each write brings the next one.
FallsSilent ==
    <>[](\A t \in Names : Cardinality(Users(t)) <= 1) => <>[](w.pc = "idle" /\ dirty = {})
=============================================================================
