---------------------------- MODULE BrowserAssets ----------------------------
(***************************************************************************)
(* The start of the game in a browser: how tabs get the files of the game  *)
(* from the content server and keep them in the browser's database.        *)
(*                                                                         *)
(* A tab first copies what the database has into its own file system, then *)
(* reads which map is played, the manifest of the content server, and      *)
(* downloads, one after the other, the installers and the paks whose       *)
(* checksum is not the wanted one (SYSC of public/ioquake3.js).  Each pak  *)
(* is saved by a synchronisation of the whole file system with the         *)
(* database (IDBFS): list both sides, then, in a second transaction, store *)
(* what is missing or newer and remove what the tab does not have.  A      *)
(* restart of the file system saves and begins again.                      *)
(*                                                                         *)
(* Meanwhile files are uploaded to the content server, or downloaded to    *)
(* its directory, in place, another tab does the same with the same        *)
(* database, and tabs are closed.                                          *)
(*                                                                         *)
(* A file is its version: the checksum of the manifest tells versions      *)
(* apart, and is not compared with what a download brings.  Each installer *)
(* stands for its paks by one.                                             *)
(*                                                                         *)
(* Where the code of the page throws out of a callback nothing goes on,    *)
(* and the start is stuck until the page is left.                          *)
(***************************************************************************)
EXTENDS Integers, Sequences, SequencesExt

CONSTANTS
    Tab,            \* the tabs of a browser
    Seeds,          \* what the content server may have at first
    Uploads,        \* the files that may be written while it serves
    MaxStarts,      \* bound on the starts and restarts of tabs
    MaxEvents       \* bound on uploads, lost replies, failed requests and transactions

VARIABLES
    file,           \* the version of a file on the content server
    uploads,        \* number of such writes begun
    db,             \* the database of the browser: a version and a time
    pc,             \* what a tab waits for
    mem,            \* its file system
    listed,         \* the database's entries as it listed them
    manifest,       \* the versions it wants
    queue,          \* the downloads it has yet to do
    stage,          \* of what: "installer" or "pak"
    starts,         \* number of starts and restarts
    faults,         \* number of faults
    cut,            \* whether a reply to the tab was lost, or a listing failed
    changed,        \* files uploaded between the tab's manifest and its download
    owner           \* the tab that stored an entry

serverVars == <<file, uploads>>
tabVars == <<pc, mem, listed, manifest, queue, stage>>
histVars == <<starts, faults, cut, changed, owner>>
vars == <<serverVars, db, tabVars, histVars>>

\* The table of installers: the file, and the pak that is in it.
Installers == <<[name |-> "demo", pak |-> "pak0"], [name |-> "point", pak |-> "pak1"]>>
Pak == {"pak0", "pak1", "map"}
Name == Pak \cup {"demo", "point"}

None == 0           \* no file
Official == 1       \* the version whose checksum the table of installers has
Uploaded == 2
Half == 3           \* what is there of an upload that is not finished
Unpacked == 4       \* what an installer other than the official one has in it

NoTab == "none"

ASSUME BrowserAssetsAssumption ==
    /\ NoTab \notin Tab
    /\ Seeds \subseteq [Name -> 0..3] /\ Uploads \subseteq Name
    /\ MaxStarts \in Nat /\ MaxEvents \in Nat

NoEntry == [version |-> None, at |-> 0]
NoEntries == [p \in Pak |-> NoEntry]
NoManifest == [n \in Name |-> None]
Entry == [version : 0..4, at : Nat]
Has(files, p) == files[p] # NoEntry

\* The time of a write of a pak, later than those before.  Times of one pak are
\* compared, never those of two.
Now(p) ==
    LET stamps == {db[p].at} \cup {mem[t][p].at : t \in Tab}
    IN  1 + (CHOOSE i \in stamps : \A j \in stamps : j <= i)

Starting(t) == pc[t] \notin {"closed", "playing"}

TypeOK ==
    /\ file \in [Name -> 0..3] /\ uploads \in 0..MaxEvents
    /\ db \in [Pak -> Entry]
    /\ pc \in [Tab -> {"closed", "list", "populate", "manifest", "eula", "installer",
                       "pak", "saveList", "save", "exitList", "exit",
                       "playing", "stuck"}]
    /\ stage \in [Tab -> {"installer", "pak"}]
    /\ mem \in [Tab -> [Pak -> Entry]] /\ listed \in [Tab -> [Pak -> Entry]]
    /\ manifest \in [Tab -> [Name -> 0..3]]
    /\ starts \in 0..MaxStarts /\ faults \in 0..MaxEvents
    /\ cut \in [Tab -> BOOLEAN] /\ changed \in [Tab -> SUBSET Name]
    /\ owner \in [Pak -> Tab \cup {NoTab}]

Init ==
    /\ file \in Seeds /\ uploads = 0
    /\ db = NoEntries
    /\ pc = [t \in Tab |-> "closed"]
    /\ mem = [t \in Tab |-> db] /\ listed = mem
    /\ manifest = [t \in Tab |-> NoManifest]
    /\ queue = [t \in Tab |-> <<>>]
    /\ stage = [t \in Tab |-> "pak"]
    /\ starts = 0 /\ faults = 0
    /\ cut = [t \in Tab |-> FALSE]
    /\ changed = [t \in Tab |-> {}]
    /\ owner = [p \in Pak |-> NoTab]

Goto(t, where) == pc' = [pc EXCEPT ![t] = where]
Fault == faults + uploads < MaxEvents /\ faults' = faults + 1

\* The page is left, or the game ends with an error: its files and variables go.
Over(t) ==
    /\ Goto(t, "closed")
    /\ mem' = [mem EXCEPT ![t] = NoEntries]
    /\ listed' = [listed EXCEPT ![t] = NoEntries]
    /\ manifest' = [manifest EXCEPT ![t] = NoManifest]
    /\ queue' = [queue EXCEPT ![t] = <<>>]
    /\ stage' = [stage EXCEPT ![t] = "pak"]
    /\ cut' = [cut EXCEPT ![t] = FALSE]
    /\ changed' = [changed EXCEPT ![t] = {}]

-----------------------------------------------------------------------------
(* Synchronisation of a tab's files and the database: IDBFS.reconcile *)

\* What is stored in dst, and what is removed from it.
Create(src, dst) == {p \in Pak : Has(src, p) /\ (~Has(dst, p) \/ src[p].at > dst[p].at)}
Obsolete(src, dst) == {p \in Pak : Has(dst, p) /\ ~Has(src, p)}

Reconciled(src, dst, create, remove) ==
    [p \in Pak |-> IF p \in create THEN src[p] ELSE IF p \in remove THEN NoEntry ELSE dst[p]]

\* getRemoteSet, after getLocalSet, when every entry was read.
List(t, from, to) ==
    /\ pc[t] = from
    /\ listed' = [listed EXCEPT ![t] = db]
    /\ Goto(t, to)
    /\ UNCHANGED <<serverVars, db, mem, manifest, queue, stage, histVars>>

Listings(t) ==
    List(t, "list", "populate") \/ List(t, "saveList", "save") \/ List(t, "exitList", "exit")

\* What was listed is not looked at again.
ForgetListing(t) == listed' = [listed EXCEPT ![t] = NoEntries]

\* Variant: the start goes on before the database is copied.
Populate_NotAwaited(t) ==
    /\ pc[t] = "populate"
    /\ Goto(t, "manifest") /\ ForgetListing(t)
    /\ UNCHANGED <<serverVars, db, mem, manifest, queue, stage, histVars>>

\* syncfs(true): an entry that was listed and is no longer there is an error.
Populate(t) ==
    LET create == Create(listed[t], mem[t]) IN
    /\ pc[t] = "populate"
    /\ \/ /\ \A p \in create : Has(db, p)
          /\ mem' = [mem EXCEPT ![t] = Reconciled(db, @, create, Obsolete(listed[t], @))]
          /\ Goto(t, "manifest")
          /\ ForgetListing(t)
          /\ UNCHANGED <<manifest, queue, stage, cut, changed>>
       \/ /\ \E p \in create : ~Has(db, p)
          /\ Over(t)
    /\ UNCHANGED <<serverVars, db, starts, faults, owner>>

\* syncfs(false), in one transaction.
Store(t) ==
    LET create == Create(mem[t], listed[t])
        remove == Obsolete(mem[t], listed[t])
    IN
    /\ db' = Reconciled(mem[t], db, create, remove)
    /\ owner' = [p \in Pak |-> IF p \in create THEN t
                             ELSE IF p \in remove THEN NoTab ELSE owner[p]]
    /\ UNCHANGED faults

\* A request of the transaction fails, or the transaction is aborted after its
\* last request succeeded.
StoreFails == Fault /\ UNCHANGED <<db, owner>>

\* Variant: only what is not there.
DirtyPaks_Absent(files, wanted) ==
    {p \in Pak : wanted[p] # None /\ files[p].version = None}

\* DirtyPaks
DirtyPaks(files, wanted) ==
    {p \in Pak : wanted[p] # None /\ files[p].version # wanted[p]}

\* Variant: with nothing to download it waits for a download.
SyncPaks_WaitsForNone(t, files, wanted) ==
    /\ stage' = [stage EXCEPT ![t] = "pak"]
    /\ queue' = [queue EXCEPT ![t] = SetToSeq(DirtyPaks(files, wanted))]
    /\ Goto(t, "pak")

\* SyncPaks, once there is nothing (more) to install.
SyncPaks(t, files, wanted) ==
    LET dirty == DirtyPaks(files, wanted) IN
    /\ stage' = [stage EXCEPT ![t] = "pak"]
    /\ queue' = [queue EXCEPT ![t] = SetToSeq(dirty)]
    /\ Goto(t, IF dirty = {} THEN "playing" ELSE "pak")

\* nextDownload: the next one of the stage, or the next stage.
NextDownload(t) ==
    IF queue[t] # <<>> THEN Goto(t, stage[t]) /\ UNCHANGED <<queue, stage>>
    ELSE IF stage[t] = "installer" THEN SyncPaks(t, mem[t], manifest[t])
    ELSE Goto(t, "playing") /\ UNCHANGED <<queue, stage>>

\* After a pak was written.  An error ends the start; a transaction that is
\* aborted at its end is not noticed.
Save(t) ==
    /\ pc[t] = "save"
    /\ \/ /\ Store(t) \/ StoreFails
          /\ NextDownload(t)
          /\ ForgetListing(t)
          /\ UNCHANGED <<mem, manifest, cut, changed>>
       \/ StoreFails /\ Over(t)
    /\ UNCHANGED <<serverVars, starts>>

\* Sys_FS_Shutdown, before Sys_FS_Startup: an error is ignored.
Exit(t) ==
    /\ pc[t] = "exit"
    /\ Store(t) \/ StoreFails
    /\ Goto(t, "list")
    /\ ForgetListing(t)
    /\ UNCHANGED <<serverVars, mem, manifest, queue, stage, starts, cut, changed>>

-----------------------------------------------------------------------------
(* The start *)

\* A page is loaded.
Open(t) ==
    /\ pc[t] = "closed" /\ starts < MaxStarts
    /\ starts' = starts + 1
    /\ Goto(t, "list")
    /\ UNCHANGED <<serverVars, db, mem, listed, manifest, queue, stage, faults, cut, changed, owner>>

\* The game restarts its file system.
Restart(t) ==
    /\ pc[t] = "playing" /\ starts < MaxStarts
    /\ starts' = starts + 1
    /\ Goto(t, "exitList")
    /\ UNCHANGED <<serverVars, db, mem, listed, manifest, queue, stage, faults, cut, changed, owner>>

\* The page is left, whatever it is doing.
Close(t) ==
    /\ pc[t] # "closed"
    /\ Over(t)
    /\ UNCHANGED <<serverVars, db, starts, faults, owner>>

\* Nothing calls back.
Cut(t) ==
    /\ Fault
    /\ cut' = [cut EXCEPT ![t] = TRUE]
    /\ Goto(t, "stuck")
    /\ UNCHANGED <<serverVars, db, mem, listed, manifest, queue, stage, starts, changed, owner>>

\* A request without a reply: DoXHR has no handler for it.
LoseReply(t) == pc[t] \in {"manifest", "installer", "pak"} /\ Cut(t)

\* A listing that fails is handed on with the error of its transaction, which is
\* not set yet: the two sides are then compared without the one, which throws.
ListFails(t) == pc[t] \in {"list", "saveList", "exitList"} /\ Cut(t)

\* getDB: the database of a new page cannot be opened.
OpenFails(t) ==
    /\ pc[t] = "list" /\ manifest[t] = NoManifest
    /\ Fault
    /\ Over(t)
    /\ UNCHANGED <<serverVars, db, starts, owner>>

\* A reply that is an error ends the start.
RequestFails(t) ==
    /\ pc[t] \in {"manifest", "installer", "pak"}
    /\ Fault
    /\ Over(t)
    /\ UNCHANGED <<serverVars, db, starts, owner>>

\* DirtyInstallers: an installer that is not in the manifest takes the asset
\* found for the one before.
Asset(wanted, i) ==
    IF wanted[Installers[i].name] # None \/ i = 1 THEN Installers[i].name
    ELSE Installers[i - 1].name

DirtyInstallers(files, wanted) ==
    {i \in DOMAIN Installers :
        /\ wanted[Asset(wanted, i)] # None
        /\ files[Installers[i].pak].version # Official}

\* They are downloaded in the order of the table.
InTableOrder(dirty) ==
    CHOOSE q \in [1..Cardinality(dirty) -> dirty] : \A j, k \in DOMAIN q : j < k => q[j] < q[k]

\* getAssets: of a directory without files the list is nil, which is sent as
\* null, and the browser's filter of it throws.
NoAssets(t) ==
    /\ pc[t] = "manifest"
    /\ \A n \in Name : file[n] = None
    /\ Goto(t, "stuck")
    /\ UNCHANGED <<serverVars, db, mem, listed, manifest, queue, stage, histVars>>

\* UpdateManifest: of the paks of maps, only the one that is played is wanted;
\* it is not known while the game server is down.  SyncInstallers then asks for
\* the licence first.
UpdateManifest(t) ==
    \E maps \in SUBSET {"map"} :
        LET wanted == [n \in Name |-> IF n \in maps \cup (Name \ {"map"}) THEN file[n] ELSE None]
            dirty == DirtyInstallers(mem[t], wanted)
        IN
        /\ pc[t] = "manifest" /\ \E n \in Name : file[n] # None
        /\ manifest' = [manifest EXCEPT ![t] = wanted]
        /\ changed' = [changed EXCEPT ![t] = {}]
        /\ IF dirty = {} THEN SyncPaks(t, mem[t], wanted)
           ELSE /\ stage' = [stage EXCEPT ![t] = "installer"]
                /\ queue' = [queue EXCEPT ![t] = InTableOrder(dirty)]
                /\ Goto(t, "eula")
        /\ UNCHANGED <<serverVars, db, mem, listed, starts, faults, cut, owner>>

PromptEULA(t) ==
    /\ pc[t] = "eula"
    /\ \/ Goto(t, "installer")
          /\ UNCHANGED <<mem, listed, manifest, queue, stage, cut, changed>>
       \/ Over(t)
    /\ UNCHANGED <<serverVars, db, starts, faults, owner>>

\* SavePak, up to the synchronisation.
SavePak(t, p, version) ==
    /\ mem' = [mem EXCEPT ![t][p] = [version |-> version, at |-> Now(p)]]
    /\ Goto(t, "saveList")

\* DownloadAsset and ExtractInstaller.  The asset has the last installer it
\* was taken for.  Unpacked as another installer, or half written, it throws; in
\* place of the official one it throws, or its paks are taken unchecked.
Install(t) ==
    LET i == Head(queue[t])
        asset == Asset(manifest[t], i)
        as == CHOOSE j \in ToSet(queue[t]) : \A k \in ToSet(queue[t]) : k <= j
        taken == IF Asset(manifest[t], as) = asset THEN as ELSE i
    IN
    /\ pc[t] = "installer" /\ queue[t] # <<>>
    /\ \/ /\ Installers[taken].name = asset /\ file[asset] # Half
          /\ SavePak(t, Installers[taken].pak,
                     IF file[asset] = Official THEN Official ELSE Unpacked)
          /\ queue' = [queue EXCEPT ![t] = Tail(@)]
       \/ /\ Installers[taken].name # asset \/ file[asset] # Official
          /\ Goto(t, "stuck") /\ UNCHANGED <<mem, queue>>
    /\ UNCHANGED <<serverVars, db, listed, manifest, stage, histVars>>

\* DownloadAsset and SavePak: what the content server has now.
Download(t) ==
    /\ pc[t] = "pak" /\ queue[t] # <<>>
    /\ SavePak(t, Head(queue[t]), file[Head(queue[t])])
    /\ queue' = [queue EXCEPT ![t] = Tail(@)]
    /\ UNCHANGED <<serverVars, db, listed, manifest, stage, histVars>>

-----------------------------------------------------------------------------
(* The content server's directory: POST /maps, and the downloads of the game  *)
(* server's container, which shares it, write in place while it serves       *)

\* What a tab may still download.
Awaited(t) == IF stage[t] = "installer" THEN Name ELSE ToSet(queue[t])

Write(n, version) ==
    /\ file' = [file EXCEPT ![n] = version]
    /\ changed' = [t \in Tab |-> IF manifest[t][n] # None /\ n \in Awaited(t)
                                THEN changed[t] \cup {n} ELSE changed[t]]
    /\ UNCHANGED <<db, tabVars, starts, faults, cut, owner>>

BeginUpload(n) ==
    /\ faults + uploads < MaxEvents /\ file[n] # Half
    /\ uploads' = uploads + 1
    /\ Write(n, Half)

EndUpload(n) ==
    /\ file[n] = Half
    /\ \E version \in {Official, Uploaded} : Write(n, version)
    /\ UNCHANGED uploads

Step(t) ==
    \/ Listings(t) \/ Populate(t) \/ Save(t) \/ Exit(t)
    \/ NoAssets(t) \/ UpdateManifest(t) \/ Install(t) \/ Download(t)

User(t) == Open(t) \/ Restart(t) \/ Close(t) \/ PromptEULA(t)

Next ==
    \/ \E t \in Tab : \/ Step(t) \/ User(t)
                     \/ LoseReply(t) \/ RequestFails(t) \/ ListFails(t) \/ OpenFails(t)
    \/ \E n \in Uploads : BeginUpload(n) \/ EndUpload(n)

\* A browser goes on with what it can do; users, uploads and faults need not be.
Spec == Init /\ [][Next]_vars /\ \A t \in Tab : WF_vars(Step(t))

-----------------------------------------------------------------------------
(* Properties *)

\* When the game plays it has every file of the manifest it read, in the version
\* listed there, unless this file was being uploaded between the listing and
\* the download: nobody compares what is downloaded with its checksum.
PlaysWhatWasListed ==
    \A t \in Tab : pc[t] = "playing" =>
        \A p \in Pak : manifest[t][p] # None =>
            mem[t][p].version = manifest[t][p] \/ p \in changed[t]

\* A tab removes from the database only what another one stored: what a tab
\* stored, it finds again as long as no other is open.
RemovesOnlyOthers ==
    [][\A t \in Tab, p \in Pak :
        (Has(db, p) /\ ~Has(db', p) /\ pc'[t] # pc[t]) => owner[p] # t]_vars

\* What may leave a start without a next step: an answer that did not come; no
\* file at all on the content server; the first installer without the second;
\* an installer that is not the official one, or not all there.
MayHang(t) ==
    \/ cut[t]
    \/ \A n \in Name : file[n] = None
    \/ manifest[t]["demo"] # None /\ manifest[t]["point"] = None
    \/ \E i \in DOMAIN Installers : file[Installers[i].name] \notin {None, Official}

\* A start plays, fails, asks the user or is left; it gets stuck only for one of
\* the reasons above.
StartEnds ==
    \A t \in Tab : (Starting(t) /\ pc[t] \notin {"eula", "stuck"}) ~>
        \/ pc[t] \in {"closed", "playing", "eula"}
        \/ pc[t] = "stuck" /\ MayHang(t)
==============================================================================
