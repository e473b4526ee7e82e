----------------------------- MODULE Supervisor -----------------------------
(***************************************************************************)
(* The supervisor of the dedicated game server:                            *)
(* internal/quake/server/server.go and the restartable command of          *)
(* pkg/exec/exec.go.                                                       *)
(*                                                                         *)
(* Four kinds of goroutine share one exec.Cmd wrapper: the caller of Start *)
(* (mainPc), the file watcher with its debounce timer (watcher, timer),    *)
(* one monitorProcess per started process (monitors), and the goroutine    *)
(* os/exec keeps per command to kill it when the context ends.  Outside    *)
(* them, somebody edits the configuration file and the ioq3ded processes   *)
(* load server.cfg, run and die.                                           *)
(*                                                                         *)
(* A content of the configuration file is known by the number of edits     *)
(* made before it; the contents reload cannot use (missing, unreadable,    *)
(* not YAML) are the members of bad.                                       *)
(***************************************************************************)
EXTENDS Integers, Sequences

CONSTANTS
    ConfigFiles,    \* what the --config flag may be given, see ConfigFile
    MaxEdits,       \* bound on the edits of the configuration file
    MaxServers      \* bound on the processes started

\* Nothing (s.ConfigFile is empty), a plain file, or a symlink as in a ConfigMap.
ConfigFile == {"none", "plain", "symlink"}

ASSUME SupervisorAssumption ==
    /\ ConfigFiles \subseteq ConfigFile
    /\ MaxEdits \in Nat
    /\ MaxServers \in Nat \ {0}

VARIABLES
    configFile, \* what the --config flag was given
    disk,       \* content of the configuration file
    bad,        \* contents that reload cannot use
    watched,    \* an inotify watch covers the configuration file
    events,     \* file events not yet received by the watcher goroutine
    watcher,    \* the goroutine started by watch
    timer,      \* its debounce timer
    mainPc,     \* where Start, watchAndReload, reload or Restart is
    data,       \* reload's local copy of what it read
    installed,  \* content that baseq3/server.cfg was written from
    cur,        \* the command the wrapper Cmd points to
    procs,      \* every command: its process, and what is known of it
    monitors,   \* the monitorProcess goroutine launched for each command
    ctxDone     \* the context is cancelled

fileVars == <<configFile, disk, bad, watched, events>>
watcherVars == <<watcher, timer>>
mainVars == <<mainPc, data, installed, cur>>
procVars == <<procs, monitors>>
vars == <<fileVars, watcherVars, mainVars, procVars, ctxDone>>

None == -1          \* no content: nothing written, or a write that failed
Servers == 1..MaxServers
Content == Nat \cup {None}

Live == {"starting", "up"}
Process == [st : {"none", "created", "dead"} \cup Live,
            killed : BOOLEAN, loaded : Content, waited : BOOLEAN]
Monitor == [pc : {"none", "launched", "waiting", "done"}, on : 0..MaxServers]

Event == [name : {"config", "data", "dataTmp"},
          op : {"Create", "Write", "Remove", "Rename", "Chmod"}]

Stopped == {"failed", "finished", "exited"}
MainPc == {"read", "install", "kill", "assign", "start", "watch", "park",
           "select", "wait", "waiting"} \cup Stopped

TypeOK ==
    /\ configFile \in ConfigFile
    /\ disk \in Nat /\ bad \subseteq Nat /\ watched \in BOOLEAN
    /\ events \in Seq(Event)
    /\ watcher \in {"off", "running", "stopped"}
    /\ timer \in {"off", "armed"}
    /\ mainPc \in MainPc
    /\ data \in Content /\ installed \in Content
    /\ cur \in Servers
    /\ procs \in [Servers -> Process]
    /\ monitors \in [Servers -> Monitor]
    /\ ctxDone \in BOOLEAN

-----------------------------------------------------------------------------
(* The file events that reach the watcher.                                 *)

\* What an update of the file is announced by: a ConfigMap is switched by
\* renaming ..data_tmp to ..data, its link may also be replaced directly,
\* and a plain file is written in place.
WriteEvents ==
    IF configFile = "symlink"
    THEN {<<[name |-> "dataTmp", op |-> "Create"],
            [name |-> "dataTmp", op |-> "Rename"],
            [name |-> "data", op |-> "Create"]>>,
          <<[name |-> "config", op |-> "Create"]>>}
    ELSE {<<[name |-> "config", op |-> "Write"]>>}

\* A plain file replaced by a rename: its inode loses its link and goes.
ReplaceEvents == <<[name |-> "config", op |-> "Chmod"],
                   [name |-> "config", op |-> "Remove"]>>

\* Variant: ..data_tmp counts too.
IsRelevantEvent_AnyName(e) == TRUE

IsRelevantEvent(e) ==
    IF configFile = "symlink"
    THEN e.name \in {"data", "config"}
    ELSE e.op \in {"Write", "Create", "Remove", "Rename"}

-----------------------------------------------------------------------------
(* A new command starts with nothing known of its process.                 *)

NewProcess(st) == [st |-> st, killed |-> FALSE, loaded |-> None, waited |-> FALSE]

Init ==
    /\ configFile \in ConfigFiles
    /\ disk = 0 /\ bad = {} /\ watched = FALSE /\ events = <<>>
    /\ watcher = "off" /\ timer = "off"
    /\ mainPc = (IF configFile # "none" THEN "read" ELSE "install")
    /\ data = (IF configFile # "none" THEN None ELSE 0)
    /\ installed = None
    /\ cur = 1
    /\ procs = [p \in Servers |-> NewProcess(IF p = 1 THEN "created" ELSE "none")]
    /\ monitors = [p \in Servers |-> [pc |-> "none", on |-> 0]]
    /\ ctxDone = FALSE

Running == mainPc # "exited"    \* os.Exit takes every goroutine with it

-----------------------------------------------------------------------------
(* The caller of Start.                                                    *)

Booting == procs[cur].st = "created"

\* Variant: contents that cannot be used are replaced by the program's defaults.
ReadConfig_OrDefaults ==
    /\ mainPc = "read"
    /\ data' = (IF disk \notin bad THEN disk ELSE 0)
    /\ mainPc' = "install"
    /\ UNCHANGED <<installed, cur, fileVars, watcherVars, procVars, ctxDone>>

\* Variant: an error of reload ends Start in the loop too.
ReadConfig_Fatal ==
    /\ mainPc = "read"
    /\ \/ disk \notin bad /\ data' = disk /\ mainPc' = "install"
       \/ disk \in bad /\ mainPc' = "failed" /\ UNCHANGED data
    /\ UNCHANGED <<installed, cur, fileVars, watcherVars, procVars, ctxDone>>

ReadConfig ==
    /\ mainPc = "read"
    /\ \/ /\ disk \notin bad
          /\ data' = disk
          /\ mainPc' = "install"
       \/ /\ disk \in bad
          /\ mainPc' = (IF Booting THEN "failed" ELSE "park")
          /\ UNCHANGED data
    /\ UNCHANGED <<installed, cur, fileVars, watcherVars, procVars, ctxDone>>

\* Variant: the new server.cfg is written but the server is not restarted.
InstallConfig_NoRestart ==
    /\ mainPc = "install"
    /\ installed' = data
    /\ mainPc' = (IF Booting THEN "start" ELSE "park")
    /\ UNCHANGED <<data, cur, fileVars, watcherVars, procVars, ctxDone>>

InstallConfig ==
    /\ mainPc = "install"
    /\ \/ /\ installed' = data
          /\ mainPc' = (IF Booting THEN "start" ELSE "kill")
       \/ /\ installed' \in {installed, None}
          /\ mainPc' = (IF Booting THEN "failed" ELSE "park")
    /\ UNCHANGED <<data, cur, fileVars, watcherVars, procVars, ctxDone>>

\* Variant: Restart starts the new process and forgets the old one.
KillServer_NoKill ==
    /\ mainPc = "kill"
    /\ mainPc' = "assign"
    /\ UNCHANGED <<data, installed, cur, procVars, fileVars, watcherVars, ctxDone>>

\* Process.Kill reports an error once the process has been waited for.
KillServer ==
    /\ mainPc = "kill"
    /\ IF procs[cur].waited
       THEN mainPc' = "failed" /\ UNCHANGED procs
       ELSE mainPc' = "assign" /\ procs' = [procs EXCEPT ![cur].killed = TRUE]
    /\ UNCHANGED <<data, installed, cur, monitors, fileVars, watcherVars, ctxDone>>

ReplaceCommand ==
    /\ mainPc = "assign" /\ cur < MaxServers
    /\ cur' = cur + 1
    /\ procs' = [procs EXCEPT ![cur + 1] = NewProcess("created")]
    /\ mainPc' = "start"
    /\ UNCHANGED <<data, installed, monitors, fileVars, watcherVars, ctxDone>>

AfterStart == IF cur > 1 THEN "park" ELSE IF configFile # "none" THEN "watch" ELSE "wait"

\* Variant: nobody monitors the process of a restart.
StartServer_Unmonitored ==
    /\ mainPc = "start" /\ ~ctxDone
    /\ procs' = [procs EXCEPT ![cur].st = "starting"]
    /\ monitors' = (IF cur = 1 THEN [monitors EXCEPT ![1].pc = "launched"] ELSE monitors)
    /\ mainPc' = AfterStart
    /\ UNCHANGED <<data, installed, cur, fileVars, watcherVars, ctxDone>>

StartServer ==
    /\ mainPc = "start"
    /\ \/ /\ ~ctxDone
          /\ procs' = [procs EXCEPT ![cur].st = "starting"]
          /\ monitors' = [monitors EXCEPT ![cur].pc = "launched"]
          /\ mainPc' = AfterStart
       \/ mainPc' = "failed" /\ UNCHANGED procVars
    /\ UNCHANGED <<data, installed, cur, fileVars, watcherVars, ctxDone>>

Watch ==
    /\ mainPc = "watch"
    /\ \/ watched' = TRUE /\ watcher' = "running" /\ mainPc' = "park"
       \/ mainPc' = "failed" /\ UNCHANGED <<watched, watcher>>
    /\ UNCHANGED <<configFile, disk, bad, events, timer, data, installed, cur, procVars, ctxDone>>

\* Back at the select: from here on the watcher finds a receiver.
Park ==
    /\ mainPc = "park"
    /\ mainPc' = "select"
    /\ UNCHANGED <<data, installed, cur, fileVars, watcherVars, procVars, ctxDone>>

\* Variant: the main loop does not listen to the context.
SelectDone_Deaf == FALSE

SelectDone ==
    /\ mainPc = "select" /\ ctxDone
    /\ mainPc' = "failed"
    /\ UNCHANGED <<data, installed, cur, fileVars, watcherVars, procVars, ctxDone>>

\* Variant: Start returns without waiting.
CallWait_Returns ==
    /\ mainPc = "wait"
    /\ mainPc' = "finished"
    /\ UNCHANGED <<data, installed, cur, fileVars, watcherVars, procVars, ctxDone>>

\* Without a configuration file Start waits for the process itself.
CallWait ==
    /\ mainPc = "wait"
    /\ mainPc' = (IF procs[cur].waited THEN "failed" ELSE "waiting")
    /\ UNCHANGED <<data, installed, cur, fileVars, watcherVars, procVars, ctxDone>>

WaitReturns ==
    /\ mainPc = "waiting"
    /\ procs[cur].st = "dead" /\ ~procs[cur].waited
    /\ procs' = [procs EXCEPT ![cur].waited = TRUE]
    /\ mainPc' \in {"finished", "failed"}
    /\ UNCHANGED <<data, installed, cur, monitors, fileVars, watcherVars, ctxDone>>

\* An error from Start is fatal to the program.
Exit ==
    /\ mainPc = "failed"
    /\ mainPc' = "exited"
    /\ UNCHANGED <<data, installed, cur, fileVars, watcherVars, procVars, ctxDone>>

Main == \/ ReadConfig \/ InstallConfig \/ KillServer \/ ReplaceCommand
        \/ StartServer \/ Watch \/ Park \/ SelectDone
        \/ CallWait \/ WaitReturns \/ Exit

-----------------------------------------------------------------------------
(* The goroutine of watch.                                                 *)

\* Variant: an event that meets a running timer stops it and starts no other.
WatcherEvent_NoRestart ==
    /\ Running /\ watcher = "running" /\ events # <<>>
    /\ events' = Tail(events)
    /\ timer' = (IF ~IsRelevantEvent(Head(events)) THEN timer
                ELSE IF timer = "armed" THEN "off" ELSE "armed")
    /\ UNCHANGED <<configFile, disk, bad, watched, watcher, mainVars, procVars, ctxDone>>

\* An error of the watcher is only logged.  What the kernel drops when its queue
\* of thousands of events is full is left out.
WatcherEvent ==
    /\ Running /\ watcher = "running" /\ events # <<>>
    /\ events' = Tail(events)
    /\ timer' = (IF IsRelevantEvent(Head(events)) THEN "armed" ELSE timer)
    /\ UNCHANGED <<configFile, disk, bad, watched, watcher, mainVars, procVars, ctxDone>>

\* The send on ch does not block: it succeeds when the main loop is at its
\* select, and otherwise this expiry of the timer is skipped.
TimerFires ==
    /\ Running /\ watcher = "running" /\ timer = "armed"
    /\ timer' = "off"
    /\ mainPc' = (IF mainPc = "select" THEN "read" ELSE mainPc)
    /\ UNCHANGED <<watcher, data, installed, cur, fileVars, procVars, ctxDone>>

WatcherStops ==
    /\ Running /\ watcher = "running" /\ ctxDone
    /\ watcher' = "stopped" /\ timer' = "off" /\ watched' = FALSE
    /\ UNCHANGED <<configFile, disk, bad, events, mainVars, procVars, ctxDone>>

Watcher == WatcherEvent \/ TimerFires \/ WatcherStops

-----------------------------------------------------------------------------
(* monitorProcess, launched for one command but reading the wrapper only   *)
(* when it runs: it waits for whichever command is current by then.        *)

MonitorCallsWait(m) ==
    /\ Running /\ monitors[m].pc = "launched"
    /\ monitors' = [monitors EXCEPT ![m] =
           IF procs[cur].st = "created" \/ procs[cur].waited
           THEN [pc |-> "done", on |-> 0] ELSE [pc |-> "waiting", on |-> cur]]
    /\ UNCHANGED <<procs, fileVars, watcherVars, mainVars, ctxDone>>

\* A command gives its result to one waiter; another one waits for ever.
MonitorWaitReturns(m) ==
    /\ Running /\ monitors[m].pc = "waiting"
    /\ LET p == monitors[m].on IN
           /\ procs[p].st = "dead" /\ ~procs[p].waited
           /\ procs' = [procs EXCEPT ![p].waited = TRUE]
    /\ monitors' = [monitors EXCEPT ![m] = [pc |-> "done", on |-> 0]]
    /\ UNCHANGED <<fileVars, watcherVars, mainVars, ctxDone>>

MonitorStep(m) == MonitorCallsWait(m) \/ MonitorWaitReturns(m)

-----------------------------------------------------------------------------
(* The context, and the goroutine os/exec keeps per started command.       *)

Cancel ==
    /\ Running /\ ~ctxDone
    /\ ctxDone' = TRUE
    /\ UNCHANGED <<fileVars, watcherVars, mainVars, procVars>>

CtxKill(p) ==
    /\ Running /\ ctxDone /\ procs[p].st \in Live /\ ~procs[p].killed
    /\ procs' = [procs EXCEPT ![p].killed = TRUE]
    /\ UNCHANGED <<monitors, fileVars, watcherVars, mainVars, ctxDone>>

-----------------------------------------------------------------------------
(* The ioq3ded processes.                                                  *)

LoadConfig(p) ==
    /\ procs[p].st = "starting" /\ ~procs[p].killed
    /\ procs' = [procs EXCEPT ![p].st = "up", ![p].loaded = installed]
    /\ UNCHANGED <<monitors, fileVars, watcherVars, mainVars, ctxDone>>

Die(p) ==
    /\ procs[p].st \in Live
    /\ procs' = [procs EXCEPT ![p].st = "dead"]
    /\ UNCHANGED <<monitors, fileVars, watcherVars, mainVars, ctxDone>>

-----------------------------------------------------------------------------
(* Whoever edits the configuration file.                                   *)

Edit(good, notice) ==
    /\ configFile # "none" /\ Running /\ disk < MaxEdits
    /\ disk' = disk + 1
    /\ bad' = (IF good THEN bad ELSE bad \cup {disk + 1})
    /\ events' = (IF watched THEN events \o notice ELSE events)
    /\ UNCHANGED <<configFile, watcherVars, mainVars, procVars, ctxDone>>

WriteConfig(good) ==
    \E notice \in WriteEvents : Edit(good, notice) /\ UNCHANGED watched

\* The watch is on the inode of a plain file and goes with it.
ReplaceConfig(good) ==
    configFile = "plain" /\ Edit(good, ReplaceEvents) /\ watched' = FALSE

Editor == \E good \in BOOLEAN : WriteConfig(good) \/ ReplaceConfig(good)

-----------------------------------------------------------------------------
Next ==
    \/ Main
    \/ Watcher
    \/ \E p \in Servers : MonitorStep(p) \/ CtxKill(p) \/ LoadConfig(p) \/ Die(p)
    \/ Cancel
    \/ Editor

Spec == Init /\ [][Next]_vars

\* Goroutines run, timers expire, a killed process dies and a started one
\* reads its configuration; nobody has to edit, cancel or crash.
Fairness ==
    /\ WF_vars(Main)
    /\ WF_vars(WatcherEvent) /\ WF_vars(TimerFires) /\ WF_vars(WatcherStops)
    /\ \A p \in Servers :
           /\ WF_vars(MonitorStep(p)) /\ WF_vars(CtxKill(p))
           /\ WF_vars(LoadConfig(p)) /\ WF_vars(procs[p].killed /\ Die(p))

FairSpec == Spec /\ Fairness

-----------------------------------------------------------------------------
(* Properties.                                                             *)

\* Whatever the interleaving of reloads, crashes and monitors, every server
\* that Restart has replaced is dead or has been sent a kill: no game server
\* of an earlier configuration goes on serving players.
ReplacedServersKilled ==
    \A p \in Servers : p < cur /\ procs[p].st \in Live => procs[p].killed

\* When the main loop has nothing left to do, the current server runs the
\* content server.cfg was last written from: a server that read its file
\* late, or between two reloads, is never left on another content.  (None: a
\* reload whose write failed leaves server.cfg unusable and the server alone.)
IdleRunsInstalled ==
    mainPc \in {"park", "select"} /\ procs[cur].st = "up" /\ installed # None
        => procs[cur].loaded = installed

\* An edit costs the players at most one restart: the several file events of
\* one ConfigMap update (..data_tmp, then ..data) are not reloaded twice.
OneRestartPerEdit == cur <= 1 + disk

\* Those that serve players: a killed one is as good as dead.
Serving == {p \in Servers : procs[p].st = "up" /\ ~procs[p].killed}

Promise == INSTANCE Rollout
    WITH content <- [p \in Servers |-> procs[p].loaded], serving <- Serving

\* The supervisor is a rollout of the edits, whatever reloads, crashes, kills
\* and edits come in between: two servers never serve at a time, and no server
\* goes back behind what players have already been served.
ImplementsRollout == Promise!Spec

\* Somebody still has to notice the present content: an event to receive, a
\* timer to expire, or a reload that has not read the file yet.
Pending ==
    \/ \E i \in 1..Len(events) : IsRelevantEvent(events[i])
    \/ timer = "armed"
    \/ mainPc = "read"
    \/ mainPc = "install" /\ data = disk

Lost == /\ configFile # "none" /\ mainPc \notin Stopped /\ ~ctxDone
        /\ installed # disk /\ ~Pending

\* The steps that may lose an edit: it is made while no watch covers the file,
\* the timer expires while a reload is past its read, or the reload fails.
LossWindow ==
    \/ disk' # disk /\ ~watched
    \/ /\ timer = "armed" /\ timer' = "off"
       /\ mainPc \in {"install", "kill", "assign", "start", "park"}
    \/ mainPc \in {"read", "install"} /\ mainPc' = "park"

\* An edit that nobody has noticed yet is lost in those windows and nowhere
\* else: not by an event that meets a running timer, nor by a restart.
LostOnlyInKnownWindows == [][~Lost /\ Lost' => LossWindow]_vars

\* If from some time on no edit is lost, the supervisor goes on and the file
\* is usable, then the current server ends up with the content of the file,
\* or dead.
Converges ==
    <>[](~Lost /\ mainPc \notin Stopped /\ ~ctxDone /\ disk \notin bad)
        => <>[](\/ procs[cur].st = "dead"
                \/ procs[cur].st = "up" /\ procs[cur].loaded = disk)

\* The death of the current server is noticed by its monitor, unless the
\* server is replaced or the program ends first.
DeadServerReaped ==
    \A p \in Servers :
        procs[p].st = "dead" /\ p = cur
            ~> procs[p].waited \/ cur # p \/ ~Running

\* Without a configuration file Start is the waiter of the server: it does not
\* return, and let the program end, while the server it started still runs.
StartOutlivesServer ==
    configFile = "none" /\ mainPc \in Stopped => procs[cur].st \notin Live

\* A supervisor that watches its file and is not cancelled ends by itself only if
\* the next server could not be started, or the one to be replaced had died
\* without being killed and was reaped before the reload, so that Kill failed:
\* no content and no failed reload ends it, and never while a server serves.
EndsForACause ==
    mainPc \in Stopped /\ watcher # "off" /\ ~ctxDone =>
        \/ procs[cur].st = "created"
        \/ procs[cur].waited /\ ~procs[cur].killed

\* With a configuration file, Start returns once the context is cancelled.
CancelStopsStart == ctxDone ~> mainPc \in Stopped
=============================================================================
