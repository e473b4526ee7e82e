---------------------------- MODULE TemplateProofs ----------------------------
(***************************************************************************)
(* Proofs about TemplateController, for any finite set of servers, any     *)
(* templates and any bounds.                                               *)
(***************************************************************************)
EXTENDS TemplateController, TLAPS

Worker == [pc : {"idle", "list", "update"}, name : Names \cup {None},
           obj : Template \cup {None}, usedBy : AllListings \cup {None}]

TypeInv == TypeOK /\ w \in Worker

\* uids are given out once, and a cached template is an old one.
CacheIsOld ==
    \A t \in Names :
        /\ template[t] # None => template[t].uid < ops
        /\ templateCache[t] # None => templateCache[t].uid < ops
        /\ template[t] # None /\ templateCache[t] # None
             /\ templateCache[t].uid = template[t].uid
               => templateCache[t].generation <= template[t].generation

\* A list the worker holds is what the cache says, or its template is queued.
ListIsCurrent ==
    w.pc = "update" /\ w.name \notin dirty => Listed(w.usedBy) = CachedUsers(w.name)

TemplateInv == TypeInv /\ CacheIsOld /\ ListIsCurrent /\ NothingForgotten

-----------------------------------------------------------------------------
(* Listings.                                                               *)

LEMMA ListingLists ==
    ASSUME NEW S, NEW l \in Listings(S) PROVE Listed(l) = S
  BY DEF Listings, Listed

LEMMA ListingIsListing ==
    ASSUME NEW S \in SUBSET Servers, NEW l \in Listings(S) PROVE l \in AllListings
  BY DEF AllListings

-----------------------------------------------------------------------------
(* Types.                                                                  *)

LEMMA InitType == Init => TypeInv
  BY TemplateAssumption DEF Init, TypeInv, TypeOK, Worker, Idle

LEMMA NextType == TypeInv /\ [Next]_vars => TypeInv'
<1> SUFFICES ASSUME TypeInv, [Next]_vars PROVE TypeInv'
  OBVIOUS
<1> USE DEF TypeInv, TypeOK
<1> USE TemplateAssumption
<1>1. ASSUME NEW t \in Names, Get(t) PROVE TypeInv'
  BY <1>1 DEF Get, Idle, Worker, envVars
<1>2. CASE List
  <2>1. PICK l \in Listings(CachedUsers(w.name)) :
            w' = [w EXCEPT !.pc = "update", !.usedBy = l]
    BY <1>2 DEF List
  <2>2. l \in AllListings
    BY ListingIsListing DEF CachedUsers
  <2>3. w' \in Worker /\ w'.usedBy = l /\ w'.name = w.name /\ w'.obj = w.obj
        /\ w'.pc = "update" /\ w.pc = "list"
    BY <1>2, <2>1, <2>2 DEF List, Worker
  <2>4. QED
    BY <1>2, <2>2, <2>3 DEF List, envVars
<1>3. CASE UpdateStatus
  <2>1. w.name \in Names /\ w.obj \in Template /\ w.usedBy \in AllListings
        /\ template[w.name] = w.obj
    BY <1>3 DEF UpdateStatus
  <2> DEFINE st == [usedBy |-> w.usedBy, observed |-> w.obj.generation]
  <2>2. st \in Status
    BY <2>1 DEF Status, Template
  <2>3. [template[w.name] EXCEPT !.status = st] \in Template
    BY <2>1, <2>2 DEF Template
  <2>4. template' = [template EXCEPT ![w.name] = [template[w.name] EXCEPT !.status = st]]
    BY <1>3 DEF UpdateStatus
  <2>5. template' \in [Names -> Template \cup {None}]
    BY <2>3, <2>4
  <2>6. QED
    BY <1>3, <2>5 DEF UpdateStatus, Idle, Worker, envVars
<1>4. CASE UpdateFails
  BY <1>4 DEF UpdateFails, Requeue, Fault, Idle, Worker, envVars
<1>5. ASSUME NEW t \in Names, SyncTemplate(t) PROVE TypeInv'
  BY <1>5 DEF SyncTemplate, envVars
<1>6. ASSUME NEW s \in Servers, SyncServer(s) PROVE TypeInv'
  BY <1>6 DEF SyncServer, findTemplateForServer, envVars
<1>7. ASSUME NEW t \in Names, CreateTemplate(t) \/ EditTemplate(t) \/ DeleteTemplate(t)
      PROVE  TypeInv'
  <2>1. CASE CreateTemplate(t)
    BY <1>7, <2>1 DEF CreateTemplate, Operation, Template, queueVars
  <2>2. CASE EditTemplate(t)
    BY <1>7, <2>2 DEF EditTemplate, Operation, Template, queueVars
  <2>3. CASE DeleteTemplate(t)
    BY <1>7, <2>3 DEF DeleteTemplate, Operation, queueVars
  <2>4. QED
    BY <1>7, <2>1, <2>2, <2>3
<1>8. ASSUME NEW s \in Servers, TouchServer(s) PROVE TypeInv'
  BY <1>8 DEF TouchServer, Operation, findTemplateForServer
<1>9. ASSUME NEW s \in Servers, NEW r \in Names \cup {None, Absent}, ChangeServer(s, r)
      PROVE  TypeInv'
  BY <1>9 DEF ChangeServer, Operation, queueVars
<1>10. CASE Restart
  BY <1>10 DEF Restart, Fault, Idle, Worker
<1>11. CASE UNCHANGED vars
  BY <1>11 DEF vars, queueVars, envVars
<1>12. QED
  BY <1>1, <1>2, <1>3, <1>4, <1>5, <1>6, <1>7, <1>8, <1>9, <1>10, <1>11
     DEF Next, Reconcile, Watches, Environment

\* The types of the variables, for any names, servers and bounds.
THEOREM TypeCorrect == Spec => []TypeOK
<1>1. Init => TypeInv
  BY InitType
<1>2. TypeInv /\ [Next]_vars => TypeInv'
  BY NextType
<1>3. TypeInv => TypeOK
  BY DEF TypeInv
<1>4. QED
  BY <1>1, <1>2, <1>3, PTL DEF Spec

-----------------------------------------------------------------------------
(* Nothing is forgotten.                                                   *)

LEMMA InitTemplate == Init => TemplateInv
  BY InitType DEF Init, TemplateInv, CacheIsOld, ListIsCurrent, NothingForgotten, Idle

\* A cached template stays an old one.
LEMMA NextCache == TypeInv /\ CacheIsOld /\ [Next]_vars => CacheIsOld'
<1> SUFFICES ASSUME TypeInv, CacheIsOld, [Next]_vars PROVE CacheIsOld'
  OBVIOUS
<1> USE DEF TypeInv, TypeOK, CacheIsOld, Template
<1>1. ASSUME UNCHANGED <<template, templateCache>>, ops' = ops \/ ops' = ops + 1
      PROVE  CacheIsOld'
  BY <1>1
<1>2. CASE UpdateStatus
  <2>1. \A t \in Names :
            /\ template'[t] # None <=> template[t] # None
            /\ template[t] # None => template'[t].uid = template[t].uid
                                     /\ template'[t].generation = template[t].generation
    <3> DEFINE st == [usedBy |-> w.usedBy, observed |-> w.obj.generation]
               new == [template[w.name] EXCEPT !.status = st]
    <3>1. /\ template' = [template EXCEPT ![w.name] = new]
          /\ w.name \in Names /\ template[w.name] \in Template
          /\ w.usedBy \in AllListings /\ w.obj.generation \in Nat
      BY <1>2 DEF UpdateStatus
    <3>2. new \in Template /\ new.uid = template[w.name].uid
          /\ new.generation = template[w.name].generation
      BY <3>1 DEF Status
    <3>3. new # None /\ template[w.name] # None
      BY <3>1, <3>2, NoneAssumption
    <3>4. QED
      BY <3>1, <3>2, <3>3
  <2>2. UNCHANGED <<templateCache, ops>>
    BY <1>2 DEF UpdateStatus, envVars
  <2>3. QED
    BY <2>1, <2>2
<1>3. ASSUME NEW n \in Names, SyncTemplate(n) PROVE CacheIsOld'
  BY <1>3 DEF SyncTemplate, envVars
<1>4. ASSUME NEW n \in Names, CreateTemplate(n) PROVE CacheIsOld'
  BY <1>4 DEF CreateTemplate, Operation
<1>5. ASSUME NEW n \in Names, EditTemplate(n) PROVE CacheIsOld'
  <2>1. template[n] # None /\ ops' = ops + 1 /\ UNCHANGED templateCache
        /\ template' = [template EXCEPT ![n].generation = template[n].generation + 1]
    BY <1>5 DEF EditTemplate, Operation
  <2>2. \A t \in Names : t # n => template'[t] = template[t]
    BY <2>1
  <2>3. /\ template'[n].uid = template[n].uid
        /\ template'[n].generation = template[n].generation + 1
    BY <2>1
  <2>4. \A t \in Names : templateCache[t] # None => templateCache[t].generation \in Nat
    OBVIOUS
  <2>5. QED
    BY <2>1, <2>2, <2>3, <2>4
<1>6. ASSUME NEW n \in Names, DeleteTemplate(n) PROVE CacheIsOld'
  BY <1>6 DEF DeleteTemplate, Operation
<1>7. CASE Restart
  BY <1>7 DEF Restart, Fault
<1>8. CASE UNCHANGED vars \/ (\E t \in Names : Get(t)) \/ List \/ UpdateFails
           \/ (\E s \in Servers : SyncServer(s) \/ TouchServer(s)
                   \/ \E r \in Names \cup {None, Absent} : ChangeServer(s, r))
  BY <1>1, <1>8 DEF vars, Get, List, UpdateFails, Fault, SyncServer, TouchServer, ChangeServer,
     Operation, envVars
<1>9. QED
  BY <1>2, <1>3, <1>4, <1>5, <1>6, <1>7, <1>8 DEF Next, Reconcile, Watches, Environment

\* The worker's list stays what the cache says, or its template is queued.
LEMMA NextList == TypeInv /\ ListIsCurrent /\ [Next]_vars => ListIsCurrent'
<1> SUFFICES ASSUME TypeInv, ListIsCurrent, [Next]_vars PROVE ListIsCurrent'
  OBVIOUS
<1> USE DEF ListIsCurrent, CachedUsers
<1>1. ASSUME UNCHANGED <<w, refCache>>, dirty \subseteq dirty' PROVE ListIsCurrent'
  BY <1>1
<1>2. ASSUME w'.pc # "update" PROVE ListIsCurrent'
  BY <1>2
<1>3. CASE List
  <2>1. PICK l \in Listings(CachedUsers(w.name)) :
            w' = [w EXCEPT !.pc = "update", !.usedBy = l]
    BY <1>3 DEF List
  <2>2. w'.usedBy = l /\ w'.name = w.name
    BY <2>1 DEF TypeInv, Worker
  <2>3. Listed(l) = CachedUsers(w.name)
    BY <2>1, ListingLists
  <2>4. UNCHANGED refCache
    BY <1>3 DEF List
  <2>5. QED
    BY <2>2, <2>3, <2>4
<1>4. ASSUME NEW s \in Servers, SyncServer(s) PROVE ListIsCurrent'
  <2>1. SUFFICES ASSUME w.pc = "update", w.name \notin dirty'
                 PROVE  CachedUsers(w.name)' = CachedUsers(w.name)
    BY <1>4 DEF SyncServer
  <2>2. w.name # refCache[s] /\ w.name # ref[s]
    BY <1>4, <2>1 DEF SyncServer, findTemplateForServer, TypeInv, TypeOK
  <2>3. QED
    BY <1>4, <2>2 DEF SyncServer, TypeInv, TypeOK
<1>5. CASE (\E t \in Names : Get(t)) \/ UpdateStatus \/ UpdateFails \/ Restart
  BY <1>2, <1>5 DEF Get, UpdateStatus, UpdateFails, Requeue, Restart, Idle
<1>6. CASE \/ UNCHANGED vars
           \/ \E t \in Names : SyncTemplate(t) \/ CreateTemplate(t) \/ EditTemplate(t)
                               \/ DeleteTemplate(t)
           \/ \E s \in Servers : TouchServer(s)
                   \/ \E r \in Names \cup {None, Absent} : ChangeServer(s, r)
  BY <1>1, <1>6 DEF vars, SyncTemplate, CreateTemplate, EditTemplate, DeleteTemplate,
     TouchServer, ChangeServer, queueVars
<1>7. QED
  BY <1>3, <1>4, <1>5, <1>6 DEF Next, Reconcile, Watches, Environment

\* What NothingForgotten says of one template.
Remembered(t) ==
    template[t] # None /\ templateCache[t] = template[t] /\ t \notin dirty =>
        Settled(t) \/ (w.pc # "idle" /\ w.name = t)

\* A step that leaves template t, its users and the worker alone.
LEMMA OthersRemembered ==
    ASSUME NEW t \in Names, Remembered(t), UNCHANGED w, dirty \subseteq dirty',
           UNCHANGED <<template[t], templateCache[t], CachedUsers(t)>>
    PROVE  Remembered(t)'
  BY DEF Remembered, Settled

LEMMA NextRemembered ==
    ASSUME TemplateInv, [Next]_vars, NEW t \in Names
    PROVE  Remembered(t)'
<1>1. Remembered(t)
  BY DEF TemplateInv, NothingForgotten, Remembered
<1> USE DEF TemplateInv, TypeInv, TypeOK
<1>2. ASSUME NEW n \in Names, Get(n) PROVE Remembered(t)'
  <2>1. CASE t = n
    BY <1>2, <2>1 DEF Get, Remembered, Idle
  <2>2. CASE t # n
    <3>1. w.pc = "idle" /\ (t \in dirty' <=> t \in dirty)
      BY <1>2, <2>2 DEF Get
    <3>2. UNCHANGED <<template, templateCache, refCache>>
      BY <1>2 DEF Get
    <3>3. Settled(t)' <=> Settled(t)
      BY <3>2 DEF Settled, CachedUsers
    <3>4. QED
      BY <1>1, <3>1, <3>2, <3>3 DEF Remembered
  <2>3. QED
    BY <2>1, <2>2
<1>3. CASE List
  <2>1. UNCHANGED <<template, templateCache, refCache, dirty>>
    BY <1>3 DEF List
  <2>2. w'.pc = "update" /\ w'.name = w.name
    BY <1>3 DEF List, Worker
  <2>3. Settled(t)' <=> Settled(t)
    BY <2>1 DEF Settled, CachedUsers
  <2>4. QED
    BY <1>1, <2>1, <2>2, <2>3 DEF Remembered
<1>4. CASE UpdateStatus
  <2> DEFINE st == [usedBy |-> w.usedBy, observed |-> w.obj.generation]
  <2>1. /\ w.pc = "update" /\ w.name \in Names /\ template[w.name] = w.obj
        /\ template' = [template EXCEPT ![w.name].status = st]
        /\ UNCHANGED <<templateCache, refCache, dirty>>
    BY <1>4 DEF UpdateStatus
  <2>2. CASE t = w.name
    <3>1. SUFFICES ASSUME t \notin dirty PROVE Settled(t)'
      BY <2>1 DEF Remembered
    <3>2. Listed(w.usedBy) = CachedUsers(t)
      BY <2>1, <2>2, <3>1 DEF ListIsCurrent
    <3>3. template[t] \in Template
      BY <2>1, <2>2
    <3>4. /\ template'[t].status = st
          /\ template'[t].generation = w.obj.generation
      BY <2>1, <2>2, <3>3 DEF Template
    <3>5. st # None
      BY <2>1, NoneAssumption DEF Status, Template
    <3>6. QED
      BY <2>1, <3>2, <3>4, <3>5 DEF Settled, CachedUsers
  <2>3. CASE t # w.name
    <3>1. template'[t] = template[t]
      BY <2>1, <2>3
    <3>2. Settled(t)' <=> Settled(t)
      BY <2>1, <3>1 DEF Settled, CachedUsers
    <3>3. QED
      BY <1>1, <2>1, <2>3, <3>1, <3>2 DEF Remembered
  <2>4. QED
    BY <2>2, <2>3
<1>5. CASE UpdateFails
  <2>1. UNCHANGED <<template, templateCache, refCache>> /\ dirty' = dirty \cup {w.name}
    BY <1>5 DEF UpdateFails, Requeue
  <2>2. Settled(t)' <=> Settled(t)
    BY <2>1 DEF Settled, CachedUsers
  <2>3. QED
    BY <1>1, <2>1, <2>2 DEF Remembered
<1>6. ASSUME NEW n \in Names, SyncTemplate(n) PROVE Remembered(t)'
  <2>1. UNCHANGED <<template, refCache, w>> /\ dirty' = dirty \cup {n}
    BY <1>6 DEF SyncTemplate
  <2>2. CASE t = n
    BY <2>1, <2>2 DEF Remembered
  <2>3. CASE t # n
    <3>1. templateCache'[t] = templateCache[t]
      BY <1>6, <2>3 DEF SyncTemplate
    <3>2. QED
      BY <1>1, <2>1, <3>1, OthersRemembered DEF CachedUsers
  <2>4. QED
    BY <2>2, <2>3
<1>7. ASSUME NEW s \in Servers, SyncServer(s) PROVE Remembered(t)'
  <2>1. CASE t \in dirty'
    BY <2>1 DEF Remembered
  <2>2. CASE t \notin dirty'
    <3>1. t # refCache[s] /\ t # ref[s]
      BY <1>7, <2>2 DEF SyncServer, findTemplateForServer
    <3>2. CachedUsers(t)' = CachedUsers(t)
      BY <1>7, <3>1 DEF SyncServer, CachedUsers
    <3>3. UNCHANGED <<template, templateCache, w>> /\ dirty \subseteq dirty'
      BY <1>7 DEF SyncServer
    <3>4. QED
      BY <1>1, <3>2, <3>3, OthersRemembered
  <2>3. QED
    BY <2>1, <2>2
<1>8. ASSUME NEW n \in Names, CreateTemplate(n) \/ EditTemplate(n) \/ DeleteTemplate(n)
      PROVE  Remembered(t)'
  <2>1. UNCHANGED <<templateCache, refCache, w, dirty>>
    BY <1>8 DEF CreateTemplate, EditTemplate, DeleteTemplate, queueVars
  <2>2. CASE t # n
    <3>1. template'[t] = template[t]
      BY <1>8, <2>2 DEF CreateTemplate, EditTemplate, DeleteTemplate
    <3>2. QED
      BY <1>1, <2>1, <3>1, OthersRemembered DEF CachedUsers
  <2>3. CASE t = n /\ CreateTemplate(n)
    <3>1. template'[t].uid = ops
      BY <2>3 DEF CreateTemplate
    <3>2. templateCache[t] # None => templateCache[t].uid < ops
      BY DEF CacheIsOld
    <3>3. templateCache'[t] = template'[t] => template'[t] = None
      BY <2>1, <3>1, <3>2
    <3>4. QED
      BY <3>3 DEF Remembered
  <2>4. CASE t = n /\ EditTemplate(n)
    <3>1. template[t] \in Template /\ template[t] # None
      BY <2>4 DEF EditTemplate
    <3>2. /\ template'[t].uid = template[t].uid
          /\ template'[t].generation = template[t].generation + 1
      BY <2>4, <3>1 DEF EditTemplate, Template
    <3>3. templateCache[t] # None /\ templateCache[t].uid = template[t].uid
            => templateCache[t].generation <= template[t].generation
      BY <3>1 DEF CacheIsOld
    <3>4. templateCache'[t] = template'[t] => template'[t] = None
      BY <2>1, <3>1, <3>2, <3>3 DEF Template
    <3>5. QED
      BY <3>4 DEF Remembered
  <2>5. CASE t = n /\ DeleteTemplate(n)
    BY <2>5 DEF DeleteTemplate, Remembered
  <2>6. QED
    BY <1>8, <2>2, <2>3, <2>4, <2>5
<1>9. ASSUME NEW s \in Servers,
             TouchServer(s) \/ \E r \in Names \cup {None, Absent} : ChangeServer(s, r)
      PROVE  Remembered(t)'
  <2>1. UNCHANGED <<template, templateCache, refCache, w>> /\ dirty \subseteq dirty'
    BY <1>9 DEF TouchServer, ChangeServer, queueVars
  <2>2. QED
    BY <1>1, <2>1, OthersRemembered DEF CachedUsers
<1>10. CASE Restart
  BY <1>10 DEF Restart, Remembered
<1>11. CASE UNCHANGED vars
  BY <1>1, <1>11, OthersRemembered DEF vars, queueVars, CachedUsers
<1>12. QED
  BY <1>2, <1>3, <1>4, <1>5, <1>6, <1>7, <1>8, <1>9, <1>10, <1>11
     DEF Next, Reconcile, Watches, Environment

LEMMA NextTemplate == TemplateInv /\ [Next]_vars => TemplateInv'
<1> SUFFICES ASSUME TemplateInv, [Next]_vars PROVE TemplateInv'
  OBVIOUS
<1>1. TypeInv'
  BY NextType DEF TemplateInv
<1>2. CacheIsOld'
  BY NextCache DEF TemplateInv
<1>3. ListIsCurrent'
  BY NextList DEF TemplateInv
<1>4. NothingForgotten'
  BY NextRemembered DEF NothingForgotten, Remembered
<1>5. QED
  BY <1>1, <1>2, <1>3, <1>4 DEF TemplateInv

\* No change of a template or of a reference to it is forgotten, whatever the
\* caches hold and whichever calls fail: the status is right, or a reconcile or
\* an event is on its way.
THEOREM NothingIsForgotten == Spec => []NothingForgotten
<1>1. Init => TemplateInv
  BY InitTemplate
<1>2. TemplateInv /\ [Next]_vars => TemplateInv'
  BY NextTemplate
<1>3. TemplateInv => NothingForgotten
  BY DEF TemplateInv
<1>4. QED
  BY <1>1, <1>2, <1>3, PTL DEF Spec
=============================================================================
