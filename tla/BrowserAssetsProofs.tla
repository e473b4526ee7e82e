------------------------- MODULE BrowserAssetsProofs -------------------------
(***************************************************************************)
(* The safety properties of BrowserAssets, for any tabs, any first files,  *)
(* any uploads and any number of starts and faults.                        *)
(*                                                                         *)
(* What a tab stored it has itself, from the moment it has copied the      *)
(* database: what it does not have is therefore not its own to remove.     *)
(* And a pak that is wanted and not right is in the queue of downloads,    *)
(* what the queue brings is what was listed unless it was uploaded since,  *)
(* and the game plays when the queue is empty.                             *)
(***************************************************************************)
EXTENDS BrowserAssets, FiniteSetTheorems, TLAPS

Files(f) == f = [p \in Pak |-> f[p]]
TabFiles(f) == f = [t \in Tab |-> f[t]] /\ \A t \in Tab : Files(f[t])

\* The types the argument needs; times may be anything.
Shapes ==
    /\ file \in [Name -> 0..3]
    /\ pc = [t \in Tab |-> pc[t]] /\ stage = [t \in Tab |-> stage[t]]
    /\ queue = [t \in Tab |-> queue[t]]
    /\ manifest \in [Tab -> [Name -> 0..3]]
    /\ changed \in [Tab -> SUBSET Name]
    /\ owner \in [Pak -> Tab \cup {NoTab}]
    /\ Files(db) /\ TabFiles(mem) /\ TabFiles(listed)

\* Where a tab has a manifest and downloads what it says.
Loading == {"eula", "installer", "pak", "saveList", "save"}

\* A file of the manifest is there, and if it may still be downloaded it is as it
\* was listed or has changed since.
Wanted(t) ==
    \A n \in Name : manifest[t][n] # None =>
        /\ file[n] # None
        /\ pc[t] \in Loading /\ n \in Awaited(t) =>
               file[n] = manifest[t][n] \/ n \in changed[t]

\* The files of a tab are right, changed, or in the queue.
Right(t, q) ==
    \A p \in Pak : manifest[t][p] # None =>
        mem[t][p].version = manifest[t][p] \/ p \in changed[t] \/ p \in q

\* The stage says what a tab downloads, and the queue of paks has all it needs.
Queued(t) ==
    /\ pc[t] \in {"eula", "installer"} => stage[t] = "installer"
    /\ pc[t] = "pak" => stage[t] = "pak"
    /\ pc[t] \in {"pak", "saveList", "save"} => stage[t] \in {"installer", "pak"}
    /\ pc[t] \in {"pak", "saveList", "save"} /\ stage[t] = "pak" =>
           /\ queue[t] \in Seq(Pak)
           /\ \A p \in ToSet(queue[t]) : manifest[t][p] # None
           /\ Right(t, ToSet(queue[t]))
    /\ pc[t] = "playing" => Right(t, {})

\* What a tab stored it has, once it has copied the database.
Owned(t) ==
    \A p \in Pak : owner[p] = t =>
        /\ Has(db, p)
        /\ pc[t] = "populate" => Has(listed[t], p)
        /\ pc[t] \notin {"closed", "list", "populate", "stuck"} => Has(mem[t], p)

TabInv(t) == Wanted(t) /\ Queued(t) /\ Owned(t)

Inv == Shapes /\ \A t \in Tab : TabInv(t)

-----------------------------------------------------------------------------

\* SetToSeq has the elements of the set, and no others.
LEMMA PaksAsSequence ==
    ASSUME NEW S \in SUBSET Pak
    PROVE  /\ SetToSeq(S) \in Seq(Pak)
           /\ ToSet(SetToSeq(S)) = S
  <1> DEFINE n == Cardinality(S)
             f == SetToSeq(S)
  <1>1. IsFiniteSet(S)
    <2>1. IsFiniteSet({"pak0", "pak1", "map"})
      <3>1. IsFiniteSet({"pak0"})
        BY FS_Singleton
      <3>2. IsFiniteSet({"pak0"} \cup {"pak1"})
        BY <3>1, FS_AddElement
      <3>3. IsFiniteSet(({"pak0"} \cup {"pak1"}) \cup {"map"})
        BY <3>2, FS_AddElement
      <3>4. ({"pak0"} \cup {"pak1"}) \cup {"map"} = {"pak0", "pak1", "map"}
        OBVIOUS
      <3> QED
        BY <3>3, <3>4
    <2> QED
      BY <2>1, FS_Subset DEF Pak
  <1>2. n \in Nat /\ ExistsBijection(1..n, S)
    BY <1>1, FS_CardinalityType
  <1>3. PICK g \in Bijection(1..n, S) : TRUE
    BY <1>2 DEF ExistsBijection
  <1>4. g \in [1..n -> S] /\ IsInjective(g)
    BY <1>3 DEF Bijection, Injection
  <1>5. f \in [1..n -> S] /\ IsInjective(f)
    BY <1>4 DEF SetToSeq
  <1>6. f \in Surjection(1..n, S)
    <2>1. f \in Injection(1..n, S)
      BY <1>5 DEF Injection
    <2>2. Cardinality(1..n) = n
      BY <1>2, FS_Interval
    <2> QED
      BY <1>1, <2>1, <2>2, FS_Injection
  <1>7. f \in Seq(S)
    BY <1>2, <1>5
  <1>8. f \in Seq(Pak)
    BY <1>7
  <1>9. ToSet(f) = S
    <2>1. DOMAIN f = 1..n
      BY <1>5
    <2>2. \A x \in S : \E i \in 1..n : f[i] = x
      BY <1>6 DEF Surjection
    <2>3. \A i \in 1..n : f[i] \in S
      BY <1>5
    <2> QED
      BY <2>1, <2>2, <2>3 DEF ToSet
  <1> QED
    BY <1>8, <1>9

\* Taking the first of a queue leaves the others in it.
LEMMA QueueTail ==
    ASSUME NEW T, NEW q \in Seq(T), q # <<>>
    PROVE  /\ Head(q) \in ToSet(q) /\ Head(q) \in T
           /\ Tail(q) \in Seq(T)
           /\ ToSet(Tail(q)) \subseteq ToSet(q)
           /\ ToSet(q) \subseteq ToSet(Tail(q)) \cup {Head(q)}
  <1>1. Len(q) \in Nat \ {0} /\ DOMAIN q = 1..Len(q) /\ Head(q) = q[1] /\ q[1] \in T
    OBVIOUS
  <1>2. Tail(q) \in Seq(T) /\ Len(Tail(q)) = Len(q) - 1 /\ DOMAIN Tail(q) = 1..(Len(q) - 1)
    BY <1>1
  <1>3. \A i \in 1..(Len(q) - 1) : Tail(q)[i] = q[i + 1]
    BY <1>1
  <1>4. ToSet(Tail(q)) \subseteq ToSet(q)
    BY <1>1, <1>2, <1>3 DEF ToSet
  <1>5. ASSUME NEW i \in 1..Len(q)
        PROVE  q[i] \in ToSet(Tail(q)) \cup {Head(q)}
    <2>1. CASE i = 1
      BY <2>1, <1>1
    <2>2. CASE i # 1
      <3>1. i - 1 \in 1..(Len(q) - 1)
        BY <2>2, <1>1
      <3>2. Tail(q)[i - 1] = q[i]
        BY <3>1, <1>3
      <3> QED
        BY <3>1, <3>2, <1>2 DEF ToSet
    <2> QED
      BY <2>1, <2>2
  <1>6. ToSet(q) \subseteq ToSet(Tail(q)) \cup {Head(q)}
    BY <1>1, <1>5 DEF ToSet
  <1>7. Head(q) \in ToSet(q)
    BY <1>1 DEF ToSet
  <1> QED
    BY <1>1, <1>2, <1>4, <1>6, <1>7

\* Nothing is wanted of the empty queue.
LEMMA EmptyQueue == ToSet(<<>>) = {}
  BY DEF ToSet

-----------------------------------------------------------------------------

\* One tab's files are replaced.
LEMMA TabFilesExcept ==
    ASSUME NEW f, TabFiles(f), NEW t \in Tab
    PROVE  \A g : Files(g) => TabFiles([f EXCEPT ![t] = g]) /\ [f EXCEPT ![t] = g][t] = g
  <1>1. \A g : /\ [f EXCEPT ![t] = g] = [u \in Tab |-> [f EXCEPT ![t] = g][u]]
              /\ [f EXCEPT ![t] = g][t] = g
              /\ \A u \in Tab : u # t => [f EXCEPT ![t] = g][u] = f[u]
    BY DEF TabFiles
  <1> QED
    BY <1>1 DEF TabFiles

\* The page of a tab stays as it is.
Same(t) ==
    /\ pc'[t] = pc[t] /\ stage'[t] = stage[t] /\ queue'[t] = queue[t]
    /\ mem'[t] = mem[t] /\ listed'[t] = listed[t]
    /\ manifest'[t] = manifest[t] /\ changed'[t] = changed[t]

\* A step of a tab that takes nothing another tab stored keeps the others' part
\* of the invariant.
LEMMA OthersKeep ==
    ASSUME NEW t \in Tab, Shapes, \A u \in Tab : TabInv(u), Shapes', file' = file,
           \A u \in Tab : u # t => Same(u),
           \A u \in Tab, p \in Pak :
               u # t /\ owner'[p] = u => owner[p] = u /\ (Has(db, p) => Has(db, p)'),
           TabInv(t)'
    PROVE  Inv'
  <1>1. ASSUME NEW u \in Tab, u # t
        PROVE  TabInv(u)'
    <2>1. TabInv(u) /\ Same(u)
      BY <1>1
    <2>2. Wanted(u)'
      BY <2>1 DEF TabInv, Same, Wanted, Awaited
    <2>3. Queued(u)'
      BY <2>1 DEF TabInv, Same, Queued, Right
    <2>4. Owned(u)'
      BY <1>1, <2>1 DEF TabInv, Same, Owned, Has
    <2> QED
      BY <2>2, <2>3, <2>4 DEF TabInv
  <1> QED
    BY <1>1 DEF Inv

\* The initial states satisfy the invariant.
LEMMA InitInv == Init => Inv
  <1> SUFFICES ASSUME Init PROVE Inv
    OBVIOUS
  <1>1. Shapes
    <2>1. Files(db) /\ TabFiles(mem) /\ TabFiles(listed)
      BY DEF Init, Files, TabFiles, NoEntries
    <2>2. NoManifest \in [Name -> 0..3]
      BY DEF NoManifest, None
    <2>3. /\ file \in [Name -> 0..3]
          /\ pc = [t \in Tab |-> pc[t]] /\ stage = [t \in Tab |-> stage[t]]
          /\ queue = [t \in Tab |-> queue[t]]
          /\ manifest \in [Tab -> [Name -> 0..3]]
      BY <2>2, BrowserAssetsAssumption DEF Init
    <2>4. changed \in [Tab -> SUBSET Name] /\ owner \in [Pak -> Tab \cup {NoTab}]
      BY DEF Init
    <2> QED
      BY <2>1, <2>3, <2>4 DEF Shapes
  <1>2. ASSUME NEW t \in Tab PROVE TabInv(t)
    <2>1. Wanted(t)
      BY DEF Init, Wanted, NoManifest
    <2>2. Queued(t)
      BY DEF Init, Queued
    <2>3. Owned(t)
      BY BrowserAssetsAssumption DEF Init, Owned
    <2> QED
      BY <2>1, <2>2, <2>3 DEF TabInv
  <1> QED
    BY <1>1, <1>2 DEF Inv

\* A page that is over has nothing to keep.
LEMMA OverStep ==
    ASSUME Inv, NEW t \in Tab, Over(t), UNCHANGED <<serverVars, owner>>,
           \A p \in Pak : Has(db, p) => Has(db, p)', Files(db)'
    PROVE  Inv'
  <1>1. Shapes'
    <2>1. Files(NoEntries) /\ NoManifest \in [Name -> 0..3]
      BY DEF Files, NoEntries, NoManifest, None
    <2>2. TabFiles(mem)' /\ TabFiles(listed)'
      BY <2>1, TabFilesExcept DEF Inv, Shapes, Over
    <2>3. Files(db)'
      OBVIOUS
    <2>4. /\ (file \in [Name -> 0..3])'
          /\ (pc = [u \in Tab |-> pc[u]])' /\ (stage = [u \in Tab |-> stage[u]])'
          /\ (queue = [u \in Tab |-> queue[u]])'
      BY DEF Inv, Shapes, Over, Goto, serverVars
    <2>5. /\ (manifest \in [Tab -> [Name -> 0..3]])'
          /\ (changed \in [Tab -> SUBSET Name])'
          /\ (owner \in [Pak -> Tab \cup {NoTab}])'
      BY <2>1 DEF Inv, Shapes, Over, Goto, serverVars
    <2> QED
      BY <2>2, <2>3, <2>4, <2>5 DEF Shapes
  <1>2. \A u \in Tab : u # t => Same(u)
    BY DEF Inv, Shapes, TabFiles, Over, Goto, Same
  <1>3. pc'[t] = "closed" /\ manifest'[t] = NoManifest
    BY DEF Inv, Shapes, Over, Goto
  <1>4. Wanted(t)' /\ Queued(t)'
    BY <1>3 DEF Wanted, Queued, NoManifest
  <1>5. Owned(t)'
    BY <1>3 DEF Inv, TabInv, Owned, Has
  <1>6. TabInv(t)'
    BY <1>4, <1>5 DEF TabInv
  <1> QED
    BY <1>1, <1>2, <1>6, OthersKeep DEF Inv, serverVars

\* The database is listed.
LEMMA ListStep ==
    ASSUME Inv, NEW t \in Tab, Listings(t)
    PROVE  Inv'
  <1> USE DEF serverVars, histVars
  <1>1. /\ listed' = [listed EXCEPT ![t] = db]
        /\ UNCHANGED <<file, db, mem, manifest, queue, stage, changed, owner>>
        /\ \/ pc[t] = "list" /\ Goto(t, "populate")
           \/ pc[t] = "saveList" /\ Goto(t, "save")
           \/ pc[t] = "exitList" /\ Goto(t, "exit")
    BY DEF Listings, List
  <1>2. Shapes'
    <2>1. TabFiles(listed)'
      BY <1>1, TabFilesExcept DEF Inv, Shapes
    <2> QED
      BY <1>1, <2>1 DEF Inv, Shapes, Goto, Files, TabFiles
  <1>3. \A u \in Tab : u # t => Same(u)
    BY <1>1 DEF Inv, Shapes, TabFiles, Goto, Same
  <1>4. /\ listed'[t] = db
        /\ \/ pc[t] = "list" /\ pc'[t] = "populate"
           \/ pc[t] = "saveList" /\ pc'[t] = "save"
           \/ pc[t] = "exitList" /\ pc'[t] = "exit"
    BY <1>1, TabFilesExcept DEF Inv, Shapes, TabFiles, Goto
  <1>5. Wanted(t)'
    BY <1>1, <1>4 DEF Inv, TabInv, Wanted, Awaited, Loading
  <1>6. Queued(t)'
    BY <1>1, <1>4 DEF Inv, TabInv, Queued, Right
  <1>7. Owned(t)'
    BY <1>1, <1>4 DEF Inv, TabInv, Owned, Has
  <1>8. TabInv(t)'
    BY <1>5, <1>6, <1>7 DEF TabInv
  <1> QED
    BY <1>1, <1>2, <1>3, <1>8, OthersKeep DEF Inv

\* The database is copied: what the tab stored is in the listing.
LEMMA PopulateStep ==
    ASSUME Inv, NEW t \in Tab, Populate(t)
    PROVE  Inv'
  <1> DEFINE create == Create(listed[t], mem[t])
  <1>1. pc[t] = "populate" /\ UNCHANGED <<serverVars, db, owner>>
    BY DEF Populate
  <1>2. CASE Over(t)
    <2>1. Files(db)' /\ \A p \in Pak : Has(db, p) => Has(db, p)'
      BY <1>1 DEF Inv, Shapes, Has
    <2> QED
      BY <1>1, <1>2, <2>1, OverStep
  <1>3. CASE /\ \A p \in create : Has(db, p)
             /\ mem' = [mem EXCEPT ![t] = Reconciled(db, @, create, Obsolete(listed[t], @))]
             /\ Goto(t, "manifest")
             /\ ForgetListing(t)
             /\ UNCHANGED <<manifest, queue, stage, cut, changed>>
    <2>1. Shapes'
      <3>1. Files(NoEntries) /\ Files(Reconciled(db, mem[t], create, Obsolete(listed[t], mem[t])))
        BY DEF Files, NoEntries, Reconciled
      <3>2. TabFiles(mem)' /\ TabFiles(listed)'
        BY <1>3, <3>1, TabFilesExcept DEF Inv, Shapes, ForgetListing
      <3> QED
        BY <1>1, <1>3, <3>2 DEF Inv, Shapes, Goto, serverVars
    <2>2. \A u \in Tab : u # t => Same(u)
      BY <1>1, <1>3 DEF Inv, Shapes, TabFiles, Goto, ForgetListing, Same
    <2>3. /\ pc'[t] = "manifest"
          /\ mem'[t] = Reconciled(db, mem[t], create, Obsolete(listed[t], mem[t]))
      BY <1>1, <1>3 DEF Inv, Shapes, TabFiles, Goto
    <2>4. Wanted(t)'
      BY <1>1, <1>3, <2>3 DEF Inv, TabInv, Wanted, Loading, serverVars
    <2>5. Queued(t)'
      BY <2>3 DEF Queued
    <2>6. ASSUME NEW p \in Pak, owner[p] = t
          PROVE  Has(db, p) /\ Has(mem[t], p)'
      <3>1. Has(db, p) /\ Has(listed[t], p)
        BY <1>1, <2>6 DEF Inv, TabInv, Owned
      <3>2. p \notin Obsolete(listed[t], mem[t])
        BY <3>1 DEF Obsolete
      <3>3. p \notin create => Has(mem[t], p)
        BY <3>1 DEF Create
      <3>4. mem'[t][p] = IF p \in create THEN db[p] ELSE mem[t][p]
        BY <2>3, <3>2 DEF Reconciled
      <3> QED
        BY <3>1, <3>3, <3>4 DEF Has
    <2>7. Owned(t)'
      BY <1>1, <2>3, <2>6 DEF Owned, Has
    <2>8. TabInv(t)'
      BY <2>4, <2>5, <2>7 DEF TabInv
    <2> QED
      BY <1>1, <2>1, <2>2, <2>8, OthersKeep DEF Inv, serverVars, Has
  <1> QED
    BY <1>2, <1>3 DEF Populate

\* A tab goes on, or is stuck, with the same files.
LEMMA PcStep ==
    ASSUME Inv, NEW t \in Tab, NEW w \in {"list", "exitList", "installer", "stuck"},
           Goto(t, w),
           w \in {"list", "stuck"} \/ pc[t] \in {"eula", "playing"},
           w = "installer" => pc[t] = "eula",
           UNCHANGED <<file, db, mem, listed, manifest, queue, stage, changed, owner>>
    PROVE  Inv'
  <1>1. Shapes'
    BY DEF Inv, Shapes, Goto, Files, TabFiles
  <1>2. \A u \in Tab : u # t => Same(u)
    BY DEF Inv, Shapes, Goto, Same
  <1>3. pc'[t] = w
    BY DEF Inv, Shapes, Goto
  <1>4. Wanted(t)'
    BY <1>3 DEF Inv, TabInv, Wanted, Awaited, Loading
  <1>5. Queued(t)'
    BY <1>3 DEF Inv, TabInv, Queued
  <1>6. Owned(t)'
    BY <1>3 DEF Inv, TabInv, Owned, Has
  <1>7. TabInv(t)'
    BY <1>4, <1>5, <1>6 DEF TabInv
  <1> QED
    BY <1>1, <1>2, <1>7, OthersKeep DEF Inv

-----------------------------------------------------------------------------

\* What the transaction of a tab does to the database: others' entries that are
\* still theirs are there, and the tab has what is its own.
LEMMA Stored ==
    ASSUME Inv, NEW t \in Tab, pc[t] \in {"save", "exit"}, Store(t) \/ StoreFails
    PROVE  /\ Files(db)'
           /\ (owner \in [Pak -> Tab \cup {NoTab}])'
           /\ \A u \in Tab, p \in Pak :
                  u # t /\ owner'[p] = u => owner[p] = u /\ (Has(db, p) => Has(db, p)')
           /\ \A p \in Pak : owner'[p] = t => Has(db, p)' /\ Has(mem[t], p)
           /\ \A p \in Pak : Has(db, p) /\ ~Has(db, p)' => owner[p] # t
  <1> DEFINE create == Create(mem[t], listed[t])
             remove == Obsolete(mem[t], listed[t])
  <1>1. /\ owner \in [Pak -> Tab \cup {NoTab}]
        /\ \A p \in Pak : owner[p] = t => Has(db, p) /\ Has(mem[t], p)
        /\ Files(db)
    BY DEF Inv, Shapes, TabInv, Owned
  <1>2. CASE StoreFails
    BY <1>1, <1>2 DEF StoreFails, Files, Has
  <1>3. CASE Store(t)
    <2>1. /\ Files(db)'
          /\ \A p \in Pak : db'[p] = IF p \in create THEN mem[t][p]
                                     ELSE IF p \in remove THEN NoEntry ELSE db[p]
      BY <1>3 DEF Store, Reconciled, Files
    <2>2. /\ (owner \in [Pak -> Tab \cup {NoTab}])'
          /\ \A p \in Pak : owner'[p] = IF p \in create THEN t
                                        ELSE IF p \in remove THEN NoTab ELSE owner[p]
      BY <1>1, <1>3 DEF Store
    <2>3. \A p \in create : Has(mem[t], p)
      BY DEF Create
    <2>4. \A p \in remove : ~Has(mem[t], p)
      BY DEF Obsolete
    <2>5. ASSUME NEW u \in Tab, NEW p \in Pak, u # t, owner'[p] = u
          PROVE  owner[p] = u /\ (Has(db, p) => Has(db, p)')
      BY <2>1, <2>2, <2>5, BrowserAssetsAssumption DEF Has
    <2>6. ASSUME NEW p \in Pak, owner'[p] = t
          PROVE  Has(db, p)' /\ Has(mem[t], p)
      BY <1>1, <2>1, <2>2, <2>3, <2>6, BrowserAssetsAssumption DEF Has
    <2>7. ASSUME NEW p \in Pak, Has(db, p), ~Has(db, p)'
          PROVE  owner[p] # t
      BY <1>1, <2>1, <2>3, <2>4, <2>7 DEF Has
    <2> QED
      BY <2>1, <2>2, <2>5, <2>6, <2>7
  <1> QED
    BY <1>2, <1>3

\* The paks that SyncPaks queues are those that are not right.
LEMMA SyncPaksStep ==
    ASSUME Inv, NEW t \in Tab, SyncPaks(t, mem[t], manifest'[t]), mem'[t] = mem[t]
    PROVE  Queued(t)' /\ pc'[t] \in {"pak", "playing"}
  <1> DEFINE dirty == DirtyPaks(mem[t], manifest'[t])
  <1>1. /\ stage'[t] = "pak" /\ queue'[t] = SetToSeq(dirty)
        /\ pc'[t] = IF dirty = {} THEN "playing" ELSE "pak"
    BY DEF SyncPaks, Goto, Inv, Shapes
  <1>2. dirty \in SUBSET Pak
    BY DEF DirtyPaks
  <1>3. queue'[t] \in Seq(Pak) /\ ToSet(queue'[t]) = dirty
    BY <1>1, <1>2, PaksAsSequence
  <1>4. /\ \A p \in Pak : manifest'[t][p] # None =>
               mem'[t][p].version = manifest'[t][p] \/ p \in dirty
        /\ \A p \in dirty : manifest'[t][p] # None
    BY DEF DirtyPaks
  <1>5. dirty = {} => Right(t, {})'
    BY <1>4 DEF Right
  <1>6. Right(t, ToSet(queue[t]))'
    BY <1>3, <1>4 DEF Right
  <1> HIDE DEF dirty
  <1> QED
    BY <1>1, <1>3, <1>4, <1>5, <1>6 DEF Queued

\* After a pak, the next one, or the next stage.
LEMMA NextDownloadStep ==
    ASSUME Inv, NEW t \in Tab, pc[t] = "save", NextDownload(t),
           mem'[t] = mem[t], manifest'[t] = manifest[t], changed'[t] = changed[t]
    PROVE  Queued(t)' /\ pc'[t] \in {"installer", "pak", "playing"}
  <1>1. Queued(t) /\ stage[t] \in {"installer", "pak"}
    BY DEF Inv, TabInv, Queued
  <1>2. CASE queue[t] # <<>>
    <2>1. pc'[t] = stage[t] /\ queue' = queue /\ stage' = stage
      BY <1>2 DEF NextDownload, Goto, Inv, Shapes
    <2> QED
      BY <1>1, <2>1 DEF Queued, Right
  <1>3. CASE queue[t] = <<>> /\ stage[t] = "installer"
    <2>1. SyncPaks(t, mem[t], manifest'[t])
      BY <1>3 DEF NextDownload
    <2> QED
      BY <2>1, SyncPaksStep
  <1>4. CASE queue[t] = <<>> /\ stage[t] = "pak"
    <2>1. pc'[t] = "playing"
      BY <1>4 DEF NextDownload, Goto, Inv, Shapes
    <2>2. Right(t, {})
      BY <1>1, <1>4, EmptyQueue DEF Queued
    <2> QED
      BY <2>1, <2>2 DEF Queued, Right
  <1> QED
    BY <1>1, <1>2, <1>3, <1>4

\* A tab saves its files.
LEMMA SaveStep ==
    ASSUME Inv, NEW t \in Tab, Save(t)
    PROVE  Inv'
  <1>1. pc[t] = "save" /\ UNCHANGED <<file, uploads, starts>>
    BY DEF Save, serverVars
  <1>2. CASE StoreFails /\ Over(t)
    <2>1. Files(db)' /\ \A p \in Pak : Has(db, p) => Has(db, p)'
      BY <1>2 DEF Inv, Shapes, StoreFails, Has, Files
    <2> QED
      BY <1>1, <1>2, <2>1, OverStep DEF StoreFails, serverVars
  <1>3. CASE /\ Store(t) \/ StoreFails
             /\ NextDownload(t)
             /\ ForgetListing(t)
             /\ UNCHANGED <<mem, manifest, cut, changed>>
    <2>1. /\ (owner \in [Pak -> Tab \cup {NoTab}])'
          /\ Files(db)'
          /\ \A u \in Tab, p \in Pak :
                 u # t /\ owner'[p] = u => owner[p] = u /\ (Has(db, p) => Has(db, p)')
          /\ \A p \in Pak : owner'[p] = t => Has(db, p)' /\ Has(mem[t], p)
      BY <1>1, <1>3, Stored
    <2>2. Queued(t)' /\ pc'[t] \in {"installer", "pak", "playing"}
      BY <1>1, <1>3, NextDownloadStep
    <2>3. \E w, x, y : /\ pc' = [pc EXCEPT ![t] = w]
                       /\ stage' = [stage EXCEPT ![t] = x]
                       /\ queue' = [queue EXCEPT ![t] = y]
      <3>1. stage = [stage EXCEPT ![t] = stage[t]] /\ queue = [queue EXCEPT ![t] = queue[t]]
        BY DEF Inv, Shapes
      <3> QED
        BY <1>3, <3>1 DEF NextDownload, SyncPaks, Goto
    <2>4. Shapes'
      <3>1. Files(NoEntries)
        BY DEF Files, NoEntries
      <3>2. TabFiles(listed)'
        BY <1>3, <3>1, TabFilesExcept DEF ForgetListing, Inv, Shapes
      <3>3. /\ (pc = [u \in Tab |-> pc[u]])' /\ (stage = [u \in Tab |-> stage[u]])'
            /\ (queue = [u \in Tab |-> queue[u]])'
        BY <2>3 DEF Inv, Shapes
      <3>4. /\ (file \in [Name -> 0..3])'
            /\ (manifest \in [Tab -> [Name -> 0..3]])'
            /\ (changed \in [Tab -> SUBSET Name])'
            /\ TabFiles(mem)'
        BY <1>1, <1>3 DEF Inv, Shapes, TabFiles, Files
      <3> QED
        BY <2>1, <3>2, <3>3, <3>4 DEF Shapes
    <2>5. \A u \in Tab : u # t => Same(u)
      BY <1>3, <2>3 DEF Same, ForgetListing, Inv, Shapes, TabFiles
    <2>6. Wanted(t)'
      <3>1. Awaited(t)' \cap Name \subseteq Awaited(t)
        <4>1. CASE stage[t] = "installer"
          BY <4>1 DEF Awaited
        <4>2. CASE stage[t] # "installer"
          <5>1. stage' = stage /\ queue' = queue
            BY <1>3, <4>2 DEF NextDownload
          <5> QED
            BY <5>1 DEF Awaited
        <4> QED
          BY <4>1, <4>2
      <3> QED
        BY <1>1, <1>3, <3>1 DEF Inv, TabInv, Wanted, Loading
    <2>7. Owned(t)'
      BY <1>3, <2>1, <2>2 DEF Owned, Has
    <2>8. TabInv(t)'
      BY <2>2, <2>6, <2>7 DEF TabInv
    <2> QED
      BY <1>1, <2>1, <2>4, <2>5, <2>8, OthersKeep DEF Inv
  <1> QED
    BY <1>2, <1>3 DEF Save

\* A tab saves its files before a restart.
LEMMA ExitStep ==
    ASSUME Inv, NEW t \in Tab, Exit(t)
    PROVE  Inv'
  <1>1. /\ pc[t] = "exit" /\ (Store(t) \/ StoreFails)
        /\ Goto(t, "list") /\ ForgetListing(t)
        /\ UNCHANGED <<file, mem, manifest, queue, stage, changed>>
    BY DEF Exit, serverVars
  <1>2. /\ (owner \in [Pak -> Tab \cup {NoTab}])'
        /\ Files(db)'
        /\ \A u \in Tab, p \in Pak :
               u # t /\ owner'[p] = u => owner[p] = u /\ (Has(db, p) => Has(db, p)')
        /\ \A p \in Pak : owner'[p] = t => Has(db, p)'
    BY <1>1, Stored DEF Exit
  <1>3. Shapes'
    <2>1. Files(NoEntries)
      BY DEF Files, NoEntries
    <2>2. TabFiles(listed)'
      BY <1>1, <2>1, TabFilesExcept DEF ForgetListing, Inv, Shapes
    <2> QED
      BY <1>1, <1>2, <2>2 DEF Goto, Inv, Shapes, TabFiles, Files
  <1>4. \A u \in Tab : u # t => Same(u)
    BY <1>1 DEF Same, Goto, ForgetListing, Inv, Shapes, TabFiles
  <1>5. pc'[t] = "list"
    BY <1>1 DEF Goto, Inv, Shapes
  <1>6. Wanted(t)'
    BY <1>1, <1>5 DEF Inv, TabInv, Wanted, Loading
  <1>7. Queued(t)' /\ Owned(t)'
    BY <1>2, <1>5 DEF Queued, Owned
  <1>8. TabInv(t)'
    BY <1>6, <1>7 DEF TabInv
  <1> QED
    BY <1>1, <1>2, <1>3, <1>4, <1>8, OthersKeep DEF Inv

-----------------------------------------------------------------------------

\* The manifest is read: what is wanted is what there is.
LEMMA UpdateManifestStep ==
    ASSUME Inv, NEW t \in Tab, UpdateManifest(t)
    PROVE  Inv'
  <1>1. PICK maps \in SUBSET {"map"} :
            LET wanted == [n \in Name |-> IF n \in maps \cup (Name \ {"map"}) THEN file[n] ELSE None]
                dirty == DirtyInstallers(mem[t], wanted)
            IN
            /\ pc[t] = "manifest" /\ \E n \in Name : file[n] # None
            /\ manifest' = [manifest EXCEPT ![t] = wanted]
            /\ changed' = [changed EXCEPT ![t] = {}]
            /\ IF dirty = {} THEN SyncPaks(t, mem[t], wanted)
               ELSE /\ stage' = [stage EXCEPT ![t] = "installer"]
                    /\ queue' = [queue EXCEPT ![t] = InTableOrder(dirty)]
                    /\ Goto(t, "eula")
            /\ UNCHANGED <<serverVars, db, mem, listed, starts, faults, cut, owner>>
    BY DEF UpdateManifest
  <1> DEFINE wanted == [n \in Name |-> IF n \in maps \cup (Name \ {"map"}) THEN file[n] ELSE None]
             dirty == DirtyInstallers(mem[t], wanted)
  <1>2. /\ pc[t] = "manifest"
        /\ manifest' = [manifest EXCEPT ![t] = wanted] /\ manifest'[t] = wanted
        /\ changed' = [changed EXCEPT ![t] = {}]
        /\ UNCHANGED <<file, db, mem, listed, owner>>
    BY <1>1 DEF serverVars, Inv, Shapes
  <1>3. wanted \in [Name -> 0..3] /\ \A n \in Name : wanted[n] \in {file[n], None}
    BY DEF Inv, Shapes, None
  <1>4. \E w, x, y : /\ pc' = [pc EXCEPT ![t] = w]
                     /\ stage' = [stage EXCEPT ![t] = x]
                     /\ queue' = [queue EXCEPT ![t] = y]
    BY <1>1 DEF SyncPaks, Goto
  <1>5. Queued(t)' /\ pc'[t] \in {"eula", "pak", "playing"}
    <2>1. CASE dirty = {}
      <3>1. SyncPaks(t, mem[t], manifest'[t])
        BY <1>1, <1>2, <2>1
      <3> QED
        BY <1>2, <3>1, SyncPaksStep
    <2>2. CASE dirty # {}
      <3>1. pc'[t] = "eula" /\ stage'[t] = "installer"
        BY <1>1, <2>2 DEF Goto, Inv, Shapes
      <3> QED
        BY <3>1 DEF Queued
    <2> QED
      BY <2>1, <2>2
  <1> HIDE DEF wanted, dirty
  <1>6. Shapes'
    <2>1. /\ (pc = [u \in Tab |-> pc[u]])' /\ (stage = [u \in Tab |-> stage[u]])'
          /\ (queue = [u \in Tab |-> queue[u]])'
      BY <1>4 DEF Inv, Shapes
    <2>2. /\ (manifest \in [Tab -> [Name -> 0..3]])'
          /\ (changed \in [Tab -> SUBSET Name])'
      BY <1>2, <1>3 DEF Inv, Shapes
    <2> QED
      BY <1>2, <2>1, <2>2 DEF Inv, Shapes, TabFiles, Files
  <1>7. \A u \in Tab : u # t => Same(u)
    BY <1>2, <1>4 DEF Same, Inv, Shapes
  <1>8. Wanted(t)'
    BY <1>2, <1>3 DEF Wanted
  <1>9. Owned(t)'
    BY <1>2, <1>5 DEF Inv, TabInv, Owned, Has
  <1>10. TabInv(t)'
    BY <1>5, <1>8, <1>9 DEF TabInv
  <1> QED
    BY <1>2, <1>6, <1>7, <1>10, OthersKeep DEF Inv

\* A pak is written: the tab has it, whatever its version.
LEMMA SavePakStep ==
    ASSUME Inv, NEW t \in Tab, NEW p, NEW version, SavePak(t, p, version), version # None,
           pc[t] \in Loading,
           queue' = [queue EXCEPT ![t] = Tail(@)], Awaited(t)' \subseteq Awaited(t),
           UNCHANGED <<file, db, listed, manifest, stage, changed, owner>>,
           Queued(t)'
    PROVE  Inv'
  <1> DEFINE e == [version |-> version, at |-> Now(p)]
  <1>1. /\ mem' = [mem EXCEPT ![t][p] = e]
        /\ pc' = [pc EXCEPT ![t] = "saveList"] /\ pc'[t] = "saveList"
    BY DEF SavePak, Goto, Inv, Shapes
  <1>2. e # NoEntry
    BY DEF NoEntry
  <1> HIDE DEF e
  <1>3. TabFiles(mem)' /\ mem'[t] = [mem[t] EXCEPT ![p] = e]
    <2>1. TabFiles(mem)
      BY DEF Inv, Shapes
    <2>2. DOMAIN mem[t] = Pak
      BY <2>1 DEF TabFiles, Files
    <2>3. Files([mem[t] EXCEPT ![p] = e])
      BY <2>2 DEF Files
    <2>4. mem' = [mem EXCEPT ![t] = [mem[t] EXCEPT ![p] = e]]
      BY <1>1
    <2> QED
      <3> DEFINE g == [mem[t] EXCEPT ![p] = e]
      <3>1. Files(g) /\ mem' = [mem EXCEPT ![t] = g]
        BY <2>3, <2>4
      <3> HIDE DEF g
      <3>2. TabFiles(mem)' /\ mem'[t] = g
        BY <2>1, <3>1, TabFilesExcept
      <3> QED
        BY <3>2 DEF g
  <1>4. Shapes'
    <2>1. /\ Files(db)' /\ TabFiles(listed)'
          /\ (pc = [u \in Tab |-> pc[u]])' /\ (queue = [u \in Tab |-> queue[u]])'
      BY <1>1 DEF Inv, Shapes, TabFiles, Files
    <2> QED
      BY <1>3, <2>1 DEF Inv, Shapes
  <1>5. \A u \in Tab : u # t => Same(u)
    BY <1>1 DEF Same, Inv, Shapes, TabFiles
  <1>6. Wanted(t)'
    BY DEF Inv, TabInv, Wanted
  <1>7. \A q \in Pak : Has(mem[t], q) => Has(mem[t], q)'
    BY <1>2, <1>3 DEF Has, Inv, Shapes, TabFiles, Files
  <1>8. Owned(t)'
    BY <1>1, <1>7 DEF Inv, TabInv, Owned, Has, Loading
  <1>9. TabInv(t)'
    BY <1>6, <1>8 DEF TabInv
  <1> QED
    BY <1>4, <1>5, <1>9, OthersKeep DEF Inv

\* A pak of an installer is written, or the tab is stuck.
LEMMA InstallStep ==
    ASSUME Inv, NEW t \in Tab, Install(t)
    PROVE  Inv'
  <1>1. /\ pc[t] = "installer" /\ stage[t] = "installer"
        /\ UNCHANGED <<file, db, listed, manifest, stage, changed, owner>>
        /\ \/ \E p : \E v \in {Official, Unpacked} :
                     /\ SavePak(t, p, v)
                     /\ queue' = [queue EXCEPT ![t] = Tail(@)]
           \/ Goto(t, "stuck") /\ UNCHANGED <<mem, queue>>
    BY DEF Install, serverVars, histVars, Inv, TabInv, Queued
  <1>2. CASE Goto(t, "stuck") /\ UNCHANGED <<mem, queue>>
    BY <1>1, <1>2, PcStep
  <1>3. ASSUME NEW p, NEW v \in {Official, Unpacked}, SavePak(t, p, v),
               queue' = [queue EXCEPT ![t] = Tail(@)]
        PROVE  Inv'
    <2>1. pc'[t] = "saveList" /\ stage'[t] = "installer"
      BY <1>1, <1>3 DEF SavePak, Goto, Inv, Shapes
    <2>2. Queued(t)'
      BY <2>1 DEF Queued
    <2>3. v # None
      BY DEF Official, Unpacked, None
    <2>4. Awaited(t)' \subseteq Awaited(t) /\ pc[t] \in Loading
      BY <1>1, <2>1 DEF Awaited, Loading
    <2> QED
      BY <1>1, <1>3, <2>2, <2>3, <2>4, SavePakStep
  <1> QED
    BY <1>1, <1>2, <1>3

\* A pak is downloaded: it is what was listed, or it was uploaded since.
LEMMA DownloadStep ==
    ASSUME Inv, NEW t \in Tab, Download(t)
    PROVE  Inv'
  <1> DEFINE p == Head(queue[t])
  <1>1. /\ pc[t] = "pak" /\ queue[t] # <<>>
        /\ SavePak(t, p, file[p])
        /\ queue' = [queue EXCEPT ![t] = Tail(@)]
        /\ UNCHANGED <<file, db, listed, manifest, stage, changed, owner>>
    BY DEF Download, serverVars, histVars
  <1>2. /\ stage[t] = "pak" /\ queue[t] \in Seq(Pak)
        /\ \A q \in ToSet(queue[t]) : manifest[t][q] # None
        /\ Right(t, ToSet(queue[t]))
    BY <1>1 DEF Inv, TabInv, Queued
  <1>3. /\ p \in ToSet(queue[t]) /\ p \in Pak
        /\ Tail(queue[t]) \in Seq(Pak)
        /\ ToSet(Tail(queue[t])) \subseteq ToSet(queue[t])
        /\ ToSet(queue[t]) \subseteq ToSet(Tail(queue[t])) \cup {p}
    BY <1>1, <1>2, QueueTail
  <1>4. file[p] # None /\ (file[p] = manifest[t][p] \/ p \in changed[t])
    BY <1>1, <1>2, <1>3 DEF Inv, TabInv, Wanted, Awaited, Loading, Name
  <1>5. /\ pc'[t] = "saveList" /\ queue'[t] = Tail(queue[t])
        /\ mem'[t][p].version = file[p]
        /\ \A q \in Pak : q # p => mem'[t][q] = mem[t][q]
    BY <1>1, <1>3 DEF SavePak, Goto, Inv, Shapes, TabFiles, Files
  <1> HIDE DEF p
  <1>6. Right(t, ToSet(queue[t]))'
    BY <1>1, <1>2, <1>3, <1>4, <1>5 DEF Right
  <1>7. Queued(t)'
    BY <1>1, <1>2, <1>3, <1>5, <1>6 DEF Queued
  <1>8. Awaited(t)' \subseteq Awaited(t) /\ pc[t] \in Loading
    BY <1>1, <1>2, <1>3, <1>5 DEF Awaited, Loading
  <1> QED
    BY <1>1, <1>4, <1>7, <1>8, SavePakStep

\* A file written on the content server is not awaited, or is remembered.
LEMMA WriteStep ==
    ASSUME Inv, NEW n \in Name, NEW v \in {Half, Official, Uploaded}, Write(n, v)
    PROVE  Inv'
  <1> USE DEF Write
  <1>1. v \in 1..3
    BY DEF Half, Official, Uploaded
  <1>2. Shapes'
    BY <1>1 DEF Inv, Shapes, TabFiles, Files, tabVars
  <1>3. ASSUME NEW t \in Tab
        PROVE  TabInv(t)'
    <2>1. /\ TabInv(t) /\ changed[t] \subseteq changed'[t]
          /\ manifest[t][n] # None /\ n \in Awaited(t) => n \in changed'[t]
      BY DEF Inv
    <2>2. \A m \in Name : file'[m] = IF m = n THEN v ELSE file[m]
      BY DEF Inv, Shapes
    <2>3. Wanted(t)'
      BY <1>1, <2>1, <2>2 DEF TabInv, Wanted, Awaited, tabVars, None
    <2>4. Queued(t)' /\ Owned(t)'
      BY <2>1 DEF TabInv, Queued, Right, Owned, Has, tabVars
    <2> QED
      BY <2>3, <2>4 DEF TabInv
  <1> QED
    BY <1>2, <1>3 DEF Inv

\* Every step keeps the invariant.
LEMMA NextInv == Inv /\ [Next]_vars => Inv'
  <1> SUFFICES ASSUME Inv, [Next]_vars PROVE Inv'
    OBVIOUS
  <1>1. ASSUME NEW t \in Tab, Open(t) PROVE Inv'
    BY <1>1, PcStep DEF Open, serverVars
  <1>2. ASSUME NEW t \in Tab, Restart(t) PROVE Inv'
    BY <1>2, PcStep DEF Restart, serverVars
  <1>3. ASSUME NEW t \in Tab,
               Over(t), UNCHANGED <<serverVars, db, owner>>
        PROVE  Inv'
    <2>1. Files(db)' /\ \A p \in Pak : Has(db, p) => Has(db, p)'
      BY <1>3 DEF Inv, Shapes, Has, Files
    <2> QED
      BY <1>3, <2>1, OverStep
  <1>4. ASSUME NEW t \in Tab, Close(t) \/ RequestFails(t) \/ OpenFails(t) PROVE Inv'
    BY <1>3, <1>4 DEF Close, RequestFails, OpenFails
  <1>5. ASSUME NEW t \in Tab, LoseReply(t) \/ ListFails(t) \/ NoAssets(t) PROVE Inv'
    BY <1>5, PcStep DEF LoseReply, ListFails, Cut, NoAssets, serverVars, histVars
  <1>6. ASSUME NEW t \in Tab, PromptEULA(t) PROVE Inv'
    BY <1>3, <1>6, PcStep DEF PromptEULA, serverVars
  <1>7. ASSUME NEW t \in Tab, Step(t) PROVE Inv'
    BY <1>5, <1>7, ListStep, PopulateStep, SaveStep, ExitStep, UpdateManifestStep,
       InstallStep, DownloadStep DEF Step
  <1>8. ASSUME NEW n \in Uploads, BeginUpload(n) \/ EndUpload(n) PROVE Inv'
    <2>1. n \in Name
      BY BrowserAssetsAssumption
    <2> QED
      BY <1>8, <2>1, WriteStep DEF BeginUpload, EndUpload
  <1>9. CASE UNCHANGED vars
    BY <1>9 DEF vars, serverVars, tabVars, histVars, Inv, Shapes, TabFiles, Files,
                TabInv, Wanted, Awaited, Queued, Right, Owned, Has
  <1> QED
    BY <1>1, <1>2, <1>4, <1>5, <1>6, <1>7, <1>8, <1>9 DEF Next, User

\* The invariant holds in every state.
LEMMA InvHolds == Spec => []Inv
  <1> QED
    BY InitInv, NextInv, PTL DEF Spec

\* PlaysWhatWasListed: a game plays with the files its tab was told of, or with
\* those uploaded since.
THEOREM PlaysCorrect == Spec => []PlaysWhatWasListed
  <1>1. Inv => PlaysWhatWasListed
    BY DEF Inv, TabInv, Queued, Right, PlaysWhatWasListed
  <1> QED
    BY <1>1, InvHolds, PTL

\* RemovesOnlyOthers: a synchronisation removes from the database nothing that
\* its own tab stored.
THEOREM RemovesCorrect == Spec => RemovesOnlyOthers
  <1> DEFINE Removes == \A t \in Tab, p \in Pak :
                 (Has(db, p) /\ ~Has(db', p) /\ pc'[t] # pc[t]) => owner[p] # t
  <1>1. Inv /\ [Next]_vars => [Removes]_vars
    <2> SUFFICES ASSUME Inv, Next PROVE Removes
      OBVIOUS
    <2>1. CASE db' = db
      BY <2>1 DEF Has
    <2>2. ASSUME NEW u \in Tab, Save(u) \/ Exit(u)
          PROVE  Removes
      <3>1. pc[u] \in {"save", "exit"} /\ (Store(u) \/ StoreFails)
        BY <2>2 DEF Save, Exit
      <3>2. \A p \in Pak : Has(db, p) /\ ~Has(db, p)' => owner[p] # u
        BY <3>1, Stored
      <3>3. \A t \in Tab : t # u => pc'[t] = pc[t]
        BY <2>2 DEF Save, Exit, Over, NextDownload, SyncPaks, Goto, Inv, Shapes
      <3> QED
        BY <3>2, <3>3 DEF Has
    <2>3. \/ db' = db
          \/ \E u \in Tab : Save(u) \/ Exit(u)
      BY DEF Next, Step, User, Listings, List, Populate, NoAssets, UpdateManifest, Install,
             Download, Open, Restart, Close, PromptEULA, LoseReply, ListFails, Cut,
             RequestFails, OpenFails, BeginUpload, EndUpload, Write
    <2> QED
      BY <2>1, <2>2, <2>3
  <1> QED
    BY <1>1, InvHolds, PTL DEF Spec, RemovesOnlyOthers

-----------------------------------------------------------------------------
(* A start does not wait for nothing.                                      *)

\* Where the page waits for a download there is one to wait for.
WaitsForDownload ==
    \A t \in Tab : pc[t] \in {"installer", "pak"} => queue[t] # <<>>

\* A start gets stuck only for a reason it may hang for.
StuckForAReason ==
    [][\A t \in Tab : pc[t] # "stuck" /\ pc'[t] = "stuck" => MayHang(t)']_vars

\* The installers a tab has yet to download are of the table, and have an asset.
InstallersQueued(t) ==
    stage[t] = "installer" =>
        /\ queue[t] \in Seq({1, 2})
        /\ \A i \in ToSet(queue[t]) : manifest[t][Asset(manifest[t], i)] # None

GoOn(t) ==
    /\ InstallersQueued(t)
    /\ pc[t] \in {"eula", "installer", "pak"} => queue[t] # <<>>

GoOnInv == Inv /\ cut = [t \in Tab |-> cut[t]] /\ \A t \in Tab : GoOn(t)

\* InTableOrder has elements of the set, and one if the set has one.
LEMMA TableOrder ==
    ASSUME NEW S \in SUBSET {1, 2}, S # {}
    PROVE  /\ InTableOrder(S) \in Seq({1, 2}) /\ InTableOrder(S) # <<>>
           /\ ToSet(InTableOrder(S)) \subseteq S
  <1> DEFINE n == Cardinality(S)
             Ordered(q) == \A j, k \in DOMAIN q : j < k => q[j] < q[k]
  <1>1. n \in {1, 2} /\ \E q \in [1..n -> S] : Ordered(q)
    <2>1. CASE S = {1, 2}
      <3>1. n = 2
        <4>1. IsFiniteSet({1}) /\ Cardinality({1}) = 1
          BY FS_Singleton, Zenon
        <4>2. Cardinality({1} \cup {2}) = Cardinality({1}) + 1
          <5>1. 2 \notin {1}
            OBVIOUS
          <5> QED
            BY <4>1, <5>1, FS_AddElement, Zenon
        <4>3. S = {1} \cup {2}
          BY <2>1
        <4> QED
          BY <4>1, <4>2, <4>3
      <3>2. /\ [i \in 1..2 |-> i] \in [1..2 -> S] /\ Ordered([i \in 1..2 |-> i])
        BY <2>1
      <3> QED
        BY <3>1, <3>2
    <2>2. ASSUME NEW x \in {1, 2}, S = {x}
          PROVE  n \in {1, 2} /\ \E q \in [1..n -> S] : Ordered(q)
      <3>1. n = 1
        BY <2>2, FS_Singleton
      <3>2. [i \in 1..1 |-> x] \in [1..1 -> S] /\ Ordered([i \in 1..1 |-> x])
        BY <2>2
      <3> QED
        BY <3>1, <3>2
    <2> QED
      BY <2>1, <2>2
  <1>2. InTableOrder(S) \in [1..n -> S]
    BY <1>1 DEF InTableOrder
  <1> HIDE DEF n
  <1>3. Len(InTableOrder(S)) = n /\ InTableOrder(S) \in Seq({1, 2})
    <2> DEFINE q == InTableOrder(S)
    <2>1. n \in Nat
      BY <1>1
    <2>2. q \in [1..n -> {1, 2}]
      BY <1>2
    <2> HIDE DEF q
    <2>3. q \in Seq({1, 2}) /\ Len(q) = n
      BY <2>1, <2>2
    <2> QED
      BY <2>3 DEF q
  <1>4. \A i \in DOMAIN InTableOrder(S) : InTableOrder(S)[i] \in S
    BY <1>2
  <1>5. ToSet(InTableOrder(S)) \subseteq S
    BY <1>4 DEF ToSet
  <1>6. InTableOrder(S) # <<>>
    <2>1. Len(InTableOrder(S)) # 0
      BY <1>1, <1>3
    <2> QED
      BY <2>1
  <1> QED
    BY <1>3, <1>5, <1>6

\* What a tab has yet to do does not depend on the others, nor on its files.
LEMMA GoOnStays ==
    ASSUME NEW t \in Tab, GoOn(t), stage'[t] = stage[t], queue'[t] = queue[t],
           manifest'[t] = manifest[t],
           pc'[t] = pc[t] \/ pc'[t] \notin {"eula", "installer", "pak"}
    PROVE  GoOn(t)'
  BY DEF GoOn, InstallersQueued

\* A page that is over has nothing to do.
LEMMA GoOnOver ==
    ASSUME GoOnInv, NEW t \in Tab, Over(t)
    PROVE  /\ GoOn(t)' /\ (cut = [u \in Tab |-> cut[u]])'
           /\ \A u \in Tab : u # t => GoOn(u)'
  <1>1. GoOn(t)'
    BY DEF GoOnInv, Inv, Shapes, Over, Goto, GoOn, InstallersQueued
  <1>2. ASSUME NEW u \in Tab, u # t
        PROVE  GoOn(u)'
    <2>1. /\ stage'[u] = stage[u] /\ queue'[u] = queue[u] /\ manifest'[u] = manifest[u]
          /\ pc'[u] = pc[u]
      BY <1>2 DEF GoOnInv, Inv, Shapes, Over, Goto
    <2> QED
      BY <2>1, GoOnStays DEF GoOnInv
  <1> QED
    BY <1>1, <1>2 DEF GoOnInv, Over

\* With the installers done, the paks: none is wanted, or the queue has one.
LEMMA GoOnPaks ==
    ASSUME GoOnInv, NEW t \in Tab, SyncPaks(t, mem[t], manifest'[t])
    PROVE  GoOn(t)'
  <1> DEFINE dirty == DirtyPaks(mem[t], manifest'[t])
  <1>1. /\ stage'[t] = "pak" /\ queue'[t] = SetToSeq(dirty)
        /\ pc'[t] = IF dirty = {} THEN "playing" ELSE "pak"
    BY DEF SyncPaks, Goto, GoOnInv, Inv, Shapes
  <1>2. dirty \in SUBSET Pak
    BY DEF DirtyPaks
  <1> HIDE DEF dirty
  <1>3. ToSet(queue'[t]) = dirty
    BY <1>1, <1>2, PaksAsSequence
  <1>4. dirty # {} => queue'[t] # <<>>
    BY <1>3, EmptyQueue
  <1> QED
    BY <1>1, <1>4 DEF GoOn, InstallersQueued

GoOnNext == (cut = [u \in Tab |-> cut[u]])' /\ \A u \in Tab : GoOn(u)'

OnlyOf(t) ==
    /\ cut' = [u \in Tab |-> cut'[u]]
    /\ \A u \in Tab : u # t =>
           /\ pc'[u] = pc[u] /\ stage'[u] = stage[u] /\ queue'[u] = queue[u]
           /\ manifest'[u] = manifest[u]

\* A step of one tab leaves the others what they have to do.
LEMMA GoOnOthers ==
    ASSUME GoOnInv, NEW t \in Tab, GoOn(t)', OnlyOf(t)
    PROVE  GoOnNext
  <1>1. ASSUME NEW u \in Tab, u # t
        PROVE  GoOn(u)'
    BY <1>1, GoOnStays DEF OnlyOf, GoOnInv
  <1> QED
    BY <1>1 DEF GoOnNext, OnlyOf

\* A step that only goes somewhere else, where nothing is waited for.
LEMMA GoOnElsewhere ==
    ASSUME GoOnInv, NEW t \in Tab, NEW w, Goto(t, w),
           w \notin {"eula", "installer", "pak"},
           UNCHANGED <<stage, queue, manifest>>,
           cut' = cut \/ cut' = [cut EXCEPT ![t] = TRUE]
    PROVE  GoOnNext
  <1>1. pc' = [pc EXCEPT ![t] = w] /\ pc'[t] = w
    BY DEF Goto, GoOnInv, Inv, Shapes
  <1>2. GoOn(t)'
    BY <1>1, GoOnStays DEF GoOnInv
  <1>3. OnlyOf(t)
    BY <1>1 DEF OnlyOf, GoOnInv, Inv, Shapes
  <1> QED
    BY <1>2, <1>3, GoOnOthers

\* The manifest says what there is to download.
LEMMA GoOnManifest ==
    ASSUME GoOnInv, NEW t \in Tab, UpdateManifest(t)
    PROVE  GoOnNext
  <1>1. PICK wanted :
            LET dirty == DirtyInstallers(mem[t], wanted) IN
            /\ manifest' = [manifest EXCEPT ![t] = wanted]
            /\ IF dirty = {} THEN SyncPaks(t, mem[t], wanted)
               ELSE /\ stage' = [stage EXCEPT ![t] = "installer"]
                    /\ queue' = [queue EXCEPT ![t] = InTableOrder(dirty)]
                    /\ Goto(t, "eula")
            /\ cut' = cut
    BY DEF UpdateManifest
  <1> DEFINE dirty == DirtyInstallers(mem[t], wanted)
  <1>2. manifest'[t] = wanted
    BY <1>1 DEF GoOnInv, Inv, Shapes
  <1>3. \E w, x, y : /\ pc' = [pc EXCEPT ![t] = w]
                     /\ stage' = [stage EXCEPT ![t] = x]
                     /\ queue' = [queue EXCEPT ![t] = y]
    BY <1>1 DEF SyncPaks, Goto
  <1>4. GoOn(t)'
    <2>1. CASE dirty = {}
      BY <1>1, <1>2, <2>1, GoOnPaks
    <2>2. CASE dirty # {}
      <3>1. /\ pc'[t] = "eula" /\ stage'[t] = "installer"
            /\ queue'[t] = InTableOrder(dirty)
        BY <1>1, <2>2 DEF Goto, GoOnInv, Inv, Shapes
      <3>2. dirty \in SUBSET {1, 2} /\ \A i \in dirty : wanted[Asset(wanted, i)] # None
        BY DEF DirtyInstallers, Installers
      <3> HIDE DEF dirty
      <3>3. /\ queue'[t] \in Seq({1, 2}) /\ queue'[t] # <<>>
            /\ ToSet(queue'[t]) \subseteq dirty
        BY <2>2, <3>1, <3>2, TableOrder
      <3> QED
        BY <1>2, <3>1, <3>2, <3>3 DEF GoOn, InstallersQueued
    <2> QED
      BY <2>1, <2>2
  <1>5. OnlyOf(t)
    BY <1>1, <1>3 DEF OnlyOf, GoOnInv, Inv, Shapes
  <1> QED
    BY <1>4, <1>5, GoOnOthers

\* After a pak was saved the next download, which is there, or the next stage.
LEMMA GoOnSave ==
    ASSUME GoOnInv, NEW t \in Tab, Save(t)
    PROVE  GoOnNext
  <1>1. CASE StoreFails /\ Over(t)
    BY <1>1, GoOnOver DEF GoOnNext
  <1>2. CASE NextDownload(t) /\ UNCHANGED <<mem, manifest, cut>>
    <2>1. pc[t] = "save" /\ stage[t] \in {"installer", "pak"} /\ GoOn(t)
      BY DEF Save, GoOnInv, Inv, TabInv, Queued
    <2>2. GoOn(t)'
      <3>1. CASE queue[t] # <<>>
        <4>1. pc'[t] = stage[t] /\ queue' = queue /\ stage' = stage
          BY <1>2, <3>1 DEF NextDownload, Goto, GoOnInv, Inv, Shapes
        <4> QED
          BY <1>2, <2>1, <3>1, <4>1 DEF GoOn, InstallersQueued
      <3>2. CASE queue[t] = <<>> /\ stage[t] = "installer"
        <4>1. SyncPaks(t, mem[t], manifest'[t])
          BY <1>2, <3>2 DEF NextDownload
        <4> QED
          BY <4>1, GoOnPaks
      <3>3. CASE queue[t] = <<>> /\ stage[t] # "installer"
        <4>1. pc'[t] = "playing" /\ UNCHANGED <<queue, stage>>
          BY <1>2, <3>3 DEF NextDownload, Goto, GoOnInv, Inv, Shapes
        <4> QED
          BY <1>2, <2>1, <4>1, GoOnStays
      <3> QED
        BY <3>1, <3>2, <3>3
    <2>3. \E w, x, y : /\ pc' = [pc EXCEPT ![t] = w]
                       /\ stage' = [stage EXCEPT ![t] = x] \/ stage' = stage
                       /\ queue' = [queue EXCEPT ![t] = y] \/ queue' = queue
      BY <1>2 DEF NextDownload, SyncPaks, Goto
    <2>4. OnlyOf(t)
      BY <1>2, <2>3 DEF OnlyOf, GoOnInv, Inv, Shapes
    <2> QED
      BY <2>2, <2>4, GoOnOthers
  <1> QED
    BY <1>1, <1>2 DEF Save

\* An installer is unpacked, and what is queued after it is still of the table;
\* or the page is stuck, where the second installer takes the asset of the first
\* for want of its own, or the asset is not the official installer.
LEMMA GoOnInstall ==
    ASSUME GoOnInv, NEW t \in Tab, Install(t)
    PROVE  GoOnNext /\ (pc'[t] = "stuck" => MayHang(t)')
  <1> DEFINE i == Head(queue[t])
             m == manifest[t]
             S == ToSet(queue[t])
             as == CHOOSE j \in S : \A k \in S : k <= j
             taken == IF Asset(m, as) = Asset(m, i) THEN as ELSE i
  <1>1. /\ pc[t] = "installer" /\ queue[t] # <<>>
        /\ UNCHANGED <<file, manifest, stage, cut>>
        /\ \/ Goto(t, "saveList") /\ queue' = [queue EXCEPT ![t] = Tail(@)]
           \/ /\ Installers[taken].name # Asset(m, i) \/ file[Asset(m, i)] # Official
              /\ Goto(t, "stuck") /\ UNCHANGED queue
    BY DEF Install, SavePak, serverVars, histVars
  <1>2. /\ GoOn(t) /\ stage[t] = "installer"
        /\ queue[t] \in Seq({1, 2}) /\ \A j \in S : m[Asset(m, j)] # None
    BY <1>1 DEF GoOnInv, Inv, TabInv, Queued, GoOn, InstallersQueued
  <1>3. /\ i \in S /\ i \in {1, 2} /\ S \subseteq {1, 2}
        /\ Tail(queue[t]) \in Seq({1, 2}) /\ ToSet(Tail(queue[t])) \subseteq S
    <2>1. S \subseteq {1, 2}
      BY <1>2 DEF ToSet
    <2> QED
      BY <1>1, <1>2, <2>1, QueueTail
  <1> HIDE DEF i, S
  <1>4. as \in S
    <2>1. \E j \in S : \A k \in S : k <= j
      <3>1. 2 \in S => \A k \in S : k <= 2
        BY <1>3
      <3>2. 2 \notin S => i = 1 /\ \A k \in S : k <= 1
        BY <1>3
      <3> QED
        BY <1>3, <3>1, <3>2
    <2> QED
      BY <2>1
  <1> HIDE DEF as
  <1>5. OnlyOf(t)
    BY <1>1 DEF OnlyOf, Goto, GoOnInv, Inv, Shapes
  <1>6. CASE Goto(t, "saveList") /\ queue' = [queue EXCEPT ![t] = Tail(@)]
    <2>1. pc'[t] = "saveList" /\ queue'[t] = Tail(queue[t])
      BY <1>6 DEF Goto, GoOnInv, Inv, Shapes
    <2>2. GoOn(t)'
      BY <1>1, <1>2, <1>3, <2>1 DEF GoOn, InstallersQueued
    <2> QED
      BY <1>5, <2>1, <2>2, GoOnOthers
  <1>7. CASE /\ Goto(t, "stuck") /\ UNCHANGED queue
             /\ Installers[taken].name # Asset(m, i) \/ file[Asset(m, i)] # Official
    <2>1. /\ Installers[1].name = "demo" /\ Installers[2].name = "point"
          /\ Asset(m, 1) = "demo"
          /\ Asset(m, 2) = IF m["point"] # None THEN "point" ELSE "demo"
      BY DEF Asset, Installers
    <2>2. pc'[t] = "stuck" /\ manifest'[t] = m /\ file' = file
      BY <1>1, <1>7 DEF Goto, GoOnInv, Inv, Shapes
    <2>3. ASSUME m["point"] = None
          PROVE  MayHang(t)'
      <3>1. m["demo"] # None
        BY <1>2, <1>3, <2>1, <2>3
      <3> QED
        BY <2>2, <2>3, <3>1 DEF MayHang
    <2>4. ASSUME m["point"] # None
          PROVE  MayHang(t)'
      <3>1. \A j \in {1, 2} : Installers[j].name = Asset(m, j)
        BY <2>1, <2>4
      <3>2. taken \in {1, 2} /\ Asset(m, taken) = Asset(m, i)
        BY <1>3, <1>4
      <3> HIDE DEF taken
      <3>3. Asset(m, i) = Installers[i].name /\ Asset(m, i) = Installers[taken].name
        BY <1>3, <3>1, <3>2
      <3>4. m[Asset(m, i)] # None /\ Asset(m, i) \in Name
        BY <1>2, <1>3, <2>1 DEF Name
      <3>5. file[Asset(m, i)] # None
        BY <3>4 DEF GoOnInv, Inv, TabInv, Wanted
      <3>6. i \in DOMAIN Installers
        BY <1>3 DEF Installers
      <3> QED
        BY <1>7, <2>2, <3>3, <3>5, <3>6 DEF MayHang
    <2>5. GoOn(t)'
      BY <1>1, <1>2, <1>7, <2>2 DEF GoOn, InstallersQueued
    <2> QED
      BY <1>5, <2>3, <2>4, <2>5, GoOnOthers
  <1> QED
    BY <1>1, <1>6, <1>7

\* Every step keeps it.
LEMMA NextGoOn == GoOnInv /\ [Next]_vars => GoOnInv'
  <1> SUFFICES ASSUME GoOnInv, [Next]_vars PROVE GoOnNext
    BY NextInv DEF GoOnInv, GoOnNext
  <1>1. ASSUME NEW t \in Tab, Open(t) \/ Restart(t) \/ Listings(t) \/ Exit(t)
        PROVE  GoOnNext
    <2>1. /\ \/ Goto(t, "list") \/ Goto(t, "exitList")
             \/ Goto(t, "populate") \/ Goto(t, "save") \/ Goto(t, "exit")
          /\ UNCHANGED <<stage, queue, manifest, cut>>
      BY <1>1 DEF Open, Restart, Listings, List, Exit, histVars
    <2> QED
      BY <2>1, GoOnElsewhere
  <1>2. ASSUME NEW t \in Tab, Over(t), UNCHANGED serverVars
        PROVE  GoOnNext
    BY <1>2, GoOnOver DEF GoOnNext
  <1>3. ASSUME NEW t \in Tab, Close(t) \/ RequestFails(t) \/ OpenFails(t)
        PROVE  GoOnNext
    BY <1>2, <1>3 DEF Close, RequestFails, OpenFails
  <1>4. ASSUME NEW t \in Tab, Populate(t)
        PROVE  GoOnNext
    BY <1>2, <1>4, GoOnElsewhere DEF Populate
  <1>5. ASSUME NEW t \in Tab, PromptEULA(t)
        PROVE  GoOnNext
    <2>1. CASE Over(t)
      BY <1>2, <1>5, <2>1 DEF PromptEULA
    <2>2. CASE Goto(t, "installer") /\ UNCHANGED <<manifest, queue, stage, cut>>
      <3>1. pc'[t] = "installer" /\ pc[t] = "eula" /\ GoOn(t)
        BY <1>5, <2>2 DEF PromptEULA, Goto, GoOnInv, Inv, Shapes
      <3>2. GoOn(t)'
        BY <2>2, <3>1 DEF GoOn, InstallersQueued
      <3>3. OnlyOf(t)
        BY <2>2 DEF OnlyOf, Goto, GoOnInv, Inv, Shapes
      <3> QED
        BY <3>2, <3>3, GoOnOthers
    <2> QED
      BY <1>5, <2>1, <2>2 DEF PromptEULA
  <1>6. ASSUME NEW t \in Tab, LoseReply(t) \/ ListFails(t) \/ NoAssets(t)
        PROVE  GoOnNext
    BY <1>6, GoOnElsewhere DEF LoseReply, ListFails, Cut, NoAssets, histVars
  <1>7. ASSUME NEW t \in Tab, Download(t)
        PROVE  GoOnNext
    <2>1. /\ pc[t] = "pak" /\ pc' = [pc EXCEPT ![t] = "saveList"]
          /\ queue' = [queue EXCEPT ![t] = Tail(@)]
          /\ UNCHANGED <<manifest, stage, cut>>
      BY <1>7 DEF Download, SavePak, Goto, histVars
    <2>2. pc'[t] = "saveList" /\ stage'[t] = "pak"
      BY <2>1 DEF GoOnInv, Inv, Shapes, TabInv, Queued
    <2>3. GoOn(t)'
      BY <2>2 DEF GoOn, InstallersQueued
    <2>4. OnlyOf(t)
      BY <2>1 DEF OnlyOf, GoOnInv, Inv, Shapes
    <2> QED
      BY <2>3, <2>4, GoOnOthers
  <1>8. ASSUME NEW p, BeginUpload(p) \/ EndUpload(p)
        PROVE  GoOnNext
    <2>1. UNCHANGED <<tabVars, cut>>
      BY <1>8 DEF BeginUpload, EndUpload, Write
    <2> QED
      BY <2>1 DEF GoOnInv, GoOnNext, GoOn, InstallersQueued, tabVars
  <1>9. CASE UNCHANGED vars
    BY <1>9 DEF vars, tabVars, histVars, GoOnInv, GoOnNext, GoOn, InstallersQueued
  <1> QED
    BY <1>1, <1>3, <1>4, <1>5, <1>6, <1>7, <1>8, <1>9,
       GoOnManifest, GoOnSave, GoOnInstall DEF Next, Step, User

\* A step that leaves a page stuck is one of those that MayHang names.
LEMMA NextStuck ==
    ASSUME GoOnInv, Next, NEW t \in Tab, pc[t] # "stuck", pc'[t] = "stuck"
    PROVE  MayHang(t)'
  <1>1. ASSUME NEW u \in Tab, LoseReply(u) \/ ListFails(u)
        PROVE  MayHang(t)'
    <2>1. cut' = [cut EXCEPT ![u] = TRUE] /\ pc' = [pc EXCEPT ![u] = "stuck"]
      BY <1>1 DEF LoseReply, ListFails, Cut, Goto
    <2>2. u = t
      BY <2>1 DEF GoOnInv, Inv, Shapes
    <2>3. cut'[t] = TRUE
      BY <2>1, <2>2 DEF GoOnInv
    <2> QED
      BY <2>3 DEF MayHang
  <1>2. ASSUME NEW u \in Tab, NoAssets(u)
        PROVE  MayHang(t)'
    BY <1>2 DEF NoAssets, serverVars, MayHang
  <1>3. ASSUME NEW u \in Tab, Install(u)
        PROVE  MayHang(t)'
    <2>1. u = t
      BY <1>3 DEF Install, SavePak, Goto, GoOnInv, Inv, Shapes
    <2> QED
      BY <1>3, <2>1, GoOnInstall
  <1>4. ASSUME NEW u \in Tab, Save(u)
        PROVE  FALSE
    <2>1. stage[u] \in {"installer", "pak"}
      BY <1>4 DEF Save, GoOnInv, Inv, TabInv, Queued
    <2> QED
      BY <1>4, <2>1 DEF Save, Over, NextDownload, SyncPaks, Goto, GoOnInv, Inv, Shapes
  <1>5. ASSUME NEW u \in Tab,
               \/ Listings(u) \/ Populate(u) \/ Exit(u) \/ UpdateManifest(u) \/ Download(u)
               \/ User(u) \/ RequestFails(u) \/ OpenFails(u)
        PROVE  FALSE
    BY <1>5 DEF Listings, List, Populate, Exit, UpdateManifest, SyncPaks, Download, SavePak,
                User, Open, Restart, Close, PromptEULA, RequestFails, OpenFails, Over,
                Goto, GoOnInv, Inv, Shapes
  <1>6. ASSUME NEW n, BeginUpload(n) \/ EndUpload(n)
        PROVE  FALSE
    BY <1>6 DEF BeginUpload, EndUpload, Write, tabVars
  <1> QED
    BY <1>1, <1>2, <1>3, <1>4, <1>5, <1>6 DEF Next, Step

\* A start of the page is never left waiting for a download that is not there,
\* and it gets stuck only where MayHang names the reason: an answer that did not
\* come, a content server without any file, the first installer without the
\* second, or an installer that is not the official one or not all there.
\* (That what can go on does is StartEnds.)
THEOREM StartsHaveANextStep == Spec => []WaitsForDownload /\ StuckForAReason
  <1>1. Init => GoOnInv
    BY InitInv DEF Init, GoOnInv, GoOn, InstallersQueued
  <1>2. Spec => []GoOnInv
    BY <1>1, NextGoOn, PTL DEF Spec
  <1>3. GoOnInv => WaitsForDownload
    BY DEF GoOnInv, GoOn, WaitsForDownload
  <1> DEFINE Reasons == \A t \in Tab : pc[t] # "stuck" /\ pc'[t] = "stuck" => MayHang(t)'
  <1>4. GoOnInv /\ [Next]_vars => [Reasons]_vars
    BY NextStuck
  <1> QED
    BY <1>2, <1>3, <1>4, PTL DEF Spec, StuckForAReason
==============================================================================
