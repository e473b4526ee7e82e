-------------------------- MODULE SupervisorProofs --------------------------
(***************************************************************************)
(* Proofs about the supervisor, for every mode of the configuration file   *)
(* and every bound on edits and servers.                                   *)
(***************************************************************************)
EXTENDS Supervisor, SequenceTheorems, FiniteSetTheorems, FunctionTheorems, TLAPS

-----------------------------------------------------------------------------
(* Types.                                                                  *)

LEMMA ShortSeqs ==
    ASSUME NEW S, NEW a \in S, NEW b \in S, NEW c \in S
    PROVE  /\ <<a>> \in Seq(S)
           /\ <<a, b>> \in Seq(S)
           /\ <<a, b, c>> \in Seq(S)
  OBVIOUS

\* The events of one edit.
Announces(notice) ==
    notice \in WriteEvents \/ (configFile = "plain" /\ notice = ReplaceEvents)

LEMMA NoticeType ==
    ASSUME NEW notice, Announces(notice)
    PROVE  notice \in Seq(Event)
  <1> DEFINE Ev(n, o) == [name |-> n, op |-> o]
  <1>1. /\ Ev("dataTmp", "Create") \in Event /\ Ev("dataTmp", "Rename") \in Event
        /\ Ev("data", "Create") \in Event    /\ Ev("config", "Create") \in Event
        /\ Ev("config", "Write") \in Event   /\ Ev("config", "Chmod") \in Event
        /\ Ev("config", "Remove") \in Event
    BY DEF Event
  <1>2. \/ notice = <<Ev("dataTmp", "Create"), Ev("dataTmp", "Rename"), Ev("data", "Create")>>
        \/ notice = <<Ev("config", "Create")>>
        \/ notice = <<Ev("config", "Write")>>
        \/ notice = <<Ev("config", "Chmod"), Ev("config", "Remove")>>
    BY DEF Announces, WriteEvents, ReplaceEvents
  <1> HIDE DEF Ev
  <1> QED
    BY <1>1, <1>2, ShortSeqs

\* Every edit comes with such events.
LEMMA EditorNotice ==
    ASSUME Editor
    PROVE  \E good \in BOOLEAN : \E notice : Edit(good, notice) /\ Announces(notice)
  <1>1. PICK good \in BOOLEAN : WriteConfig(good) \/ ReplaceConfig(good)
    BY DEF Editor
  <1>2. CASE WriteConfig(good)
    <2>1. PICK notice \in WriteEvents : Edit(good, notice)
      BY <1>2 DEF WriteConfig
    <2> QED
      BY <2>1, Zenon DEF Announces
  <1>3. CASE ReplaceConfig(good)
    BY <1>3, Zenon DEF ReplaceConfig, Announces
  <1> QED
    BY <1>1, <1>2, <1>3

\* Every way to update the file makes one event that the watcher will not ignore.
LEMMA NoticeOnce ==
    ASSUME NEW notice, Announces(notice)
    PROVE  \E k \in 1..Len(notice) :
               \A i \in 1..Len(notice) : IsRelevantEvent(notice[i]) <=> i = k
  <1>1. CASE configFile = "symlink" /\ notice \in WriteEvents
    <2>1. CASE /\ Len(notice) = 3 /\ notice[3].name = "data"
               /\ notice[1].name = "dataTmp" /\ notice[2].name = "dataTmp"
      <3>1. 3 \in 1..Len(notice) /\ \A i \in 1..Len(notice) : i = 1 \/ i = 2 \/ i = 3
        BY <2>1
      <3>2. \A i \in 1..Len(notice) : IsRelevantEvent(notice[i]) <=> i = 3
        BY <1>1, <2>1, <3>1 DEF IsRelevantEvent
      <3> QED
        BY <3>1, <3>2
    <2>2. CASE Len(notice) = 1 /\ notice[1].name = "config"
      BY <1>1, <2>2 DEF IsRelevantEvent
    <2> QED
      BY <1>1, <2>1, <2>2 DEF WriteEvents
  <1>2. CASE configFile # "symlink" /\ notice \in WriteEvents
    <2>1. Len(notice) = 1 /\ notice[1].op = "Write"
      BY <1>2 DEF WriteEvents
    <2> QED
      BY <1>2, <2>1 DEF IsRelevantEvent
  <1>3. CASE configFile = "plain" /\ notice = ReplaceEvents
    <2>1. Len(notice) = 2 /\ notice[1].op = "Chmod" /\ notice[2].op = "Remove"
      BY <1>3 DEF ReplaceEvents
    <2> QED
      BY <1>3, <2>1 DEF IsRelevantEvent
  <1> QED
    BY <1>1, <1>2, <1>3 DEF Announces

LEMMA NewProcessType ==
    ASSUME NEW st \in {"none", "created"}
    PROVE  NewProcess(st) \in Process
  BY DEF NewProcess, Process, Content, None, Live

\* A command keeps its shape when one of its facts changes.
LEMMA ProcessUpdate ==
    ASSUME procs \in [Servers -> Process], NEW p
    PROVE  /\ \A st \in {"none", "created", "dead"} \cup Live :
                 [procs EXCEPT ![p].st = st] \in [Servers -> Process]
           /\ [procs EXCEPT ![p].killed = TRUE] \in [Servers -> Process]
           /\ [procs EXCEPT ![p].waited = TRUE] \in [Servers -> Process]
           /\ \A c \in Content : [procs EXCEPT ![p].st = "up", ![p].loaded = c]
                                     \in [Servers -> Process]
  BY DEF Process, Live

LEMMA InitTypeOK == Init => TypeOK
  <1> SUFFICES ASSUME Init PROVE TypeOK
    OBVIOUS
  <1> USE SupervisorAssumption DEF Init
  <1>1. procs \in [Servers -> Process]
    BY NewProcessType
  <1>2. monitors \in [Servers -> Monitor]
    BY DEF Monitor
  <1>3. 1 \in Servers
    BY DEF Servers
  <1>4. events \in Seq(Event)
    BY EmptySeq
  <1>5. data \in Content /\ installed \in Content
    BY DEF Content, None
  <1> QED
    BY <1>1, <1>2, <1>3, <1>4, <1>5 DEF TypeOK, MainPc, Stopped

LEMMA MainTypeOK == TypeOK /\ Main => TypeOK'
  <1> SUFFICES ASSUME TypeOK, Main PROVE TypeOK'
    OBVIOUS
  <1> USE SupervisorAssumption
  <1> USE DEF TypeOK, fileVars, watcherVars, procVars, MainPc, Stopped
  <1>1. CASE ReadConfig
    BY <1>1 DEF ReadConfig, Content
  <1>2. CASE InstallConfig
    BY <1>2 DEF InstallConfig, Content, None
  <1>3. CASE KillServer
    <2>1. procs' = procs \/ procs' = [procs EXCEPT ![cur].killed = TRUE]
      BY <1>3 DEF KillServer
    <2>2. [procs EXCEPT ![cur].killed = TRUE] \in [Servers -> Process]
      BY ProcessUpdate
    <2> QED
      BY <1>3, <2>1, <2>2 DEF KillServer
  <1>4. CASE ReplaceCommand
    <2>1. cur' \in Servers
      BY <1>4 DEF ReplaceCommand, Servers
    <2>2. procs' \in [Servers -> Process]
      BY <1>4, NewProcessType DEF ReplaceCommand
    <2> QED
      BY <1>4, <2>1, <2>2 DEF ReplaceCommand
  <1>5. CASE StartServer
    <2>1. procs' = procs \/ procs' = [procs EXCEPT ![cur].st = "starting"]
      BY <1>5 DEF StartServer
    <2>2. [procs EXCEPT ![cur].st = "starting"] \in [Servers -> Process]
      BY ProcessUpdate DEF Live
    <2>3. monitors' \in [Servers -> Monitor]
      BY <1>5 DEF StartServer, Monitor
    <2> QED
      BY <1>5, <2>1, <2>2, <2>3 DEF StartServer, AfterStart
  <1>6. CASE Watch
    BY <1>6 DEF Watch
  <1>7. CASE Park \/ SelectDone \/ CallWait \/ Exit
    BY <1>7 DEF Park, SelectDone, CallWait, Exit
  <1>8. CASE WaitReturns
    BY <1>8, ProcessUpdate DEF WaitReturns
  <1> QED
    BY <1>1, <1>2, <1>3, <1>4, <1>5, <1>6, <1>7, <1>8 DEF Main

LEMMA WatcherTypeOK == TypeOK /\ Watcher => TypeOK'
  <1> SUFFICES ASSUME TypeOK, Watcher PROVE TypeOK'
    OBVIOUS
  <1> USE DEF TypeOK, fileVars, mainVars, procVars, MainPc, Stopped
  <1>1. CASE WatcherEvent
    <2>1. events' \in Seq(Event)
      BY <1>1, HeadTailProperties DEF WatcherEvent
    <2> QED
      BY <1>1, <2>1 DEF WatcherEvent
  <1>2. CASE TimerFires
    BY <1>2 DEF TimerFires
  <1>3. CASE WatcherStops
    BY <1>3 DEF WatcherStops
  <1> QED
    BY <1>1, <1>2, <1>3 DEF Watcher

LEMMA ServersTypeOK ==
    ASSUME TypeOK, NEW p \in Servers,
           MonitorStep(p) \/ CtxKill(p) \/ LoadConfig(p) \/ Die(p)
    PROVE  TypeOK'
  <1> USE DEF TypeOK, fileVars, watcherVars, mainVars
  <1>1. CASE MonitorCallsWait(p)
    <2>1. /\ [pc |-> "done", on |-> 0] \in Monitor
          /\ [pc |-> "waiting", on |-> cur] \in Monitor
      BY SupervisorAssumption DEF Monitor, Servers
    <2>2. monitors' \in [Servers -> Monitor]
      BY <1>1, <2>1 DEF MonitorCallsWait
    <2> QED
      BY <1>1, <2>2 DEF MonitorCallsWait
  <1>2. CASE MonitorWaitReturns(p)
    <2>1. [pc |-> "done", on |-> 0] \in Monitor
      BY SupervisorAssumption DEF Monitor
    <2>2. monitors' \in [Servers -> Monitor]
      BY <1>2, <2>1 DEF MonitorWaitReturns
    <2>3. procs' \in [Servers -> Process]
      BY <1>2, ProcessUpdate DEF MonitorWaitReturns
    <2> QED
      BY <1>2, <2>2, <2>3 DEF MonitorWaitReturns
  <1>3. CASE CtxKill(p)
    BY <1>3, ProcessUpdate DEF CtxKill
  <1>4. CASE LoadConfig(p)
    BY <1>4, ProcessUpdate DEF LoadConfig
  <1>5. CASE Die(p)
    BY <1>5, ProcessUpdate DEF Die
  <1> QED
    BY <1>1, <1>2, <1>3, <1>4, <1>5 DEF MonitorStep

LEMMA EditorTypeOK == TypeOK /\ Editor => TypeOK'
  <1> SUFFICES ASSUME TypeOK,
                      NEW good \in BOOLEAN, NEW notice, Announces(notice),
                      Edit(good, notice), watched' \in BOOLEAN
               PROVE  TypeOK'
    BY DEF Editor, WriteConfig, ReplaceConfig, Announces, TypeOK
  <1>1. events' \in Seq(Event)
    BY NoticeType, ConcatProperties DEF Edit, TypeOK
  <1> QED
    BY <1>1 DEF Edit, TypeOK, watcherVars, mainVars, procVars

LEMMA NextTypeOK == TypeOK /\ [Next]_vars => TypeOK'
  <1> SUFFICES ASSUME TypeOK, [Next]_vars PROVE TypeOK'
    OBVIOUS
  <1>1. CASE Main
    BY <1>1, MainTypeOK
  <1>2. CASE Watcher
    BY <1>2, WatcherTypeOK
  <1>3. CASE \E p \in Servers : MonitorStep(p) \/ CtxKill(p) \/ LoadConfig(p) \/ Die(p)
    BY <1>3, ServersTypeOK
  <1>4. CASE Cancel
    BY <1>4 DEF Cancel, TypeOK, fileVars, watcherVars, mainVars, procVars
  <1>5. CASE Editor
    BY <1>5, EditorTypeOK
  <1>6. CASE UNCHANGED vars
    BY <1>6 DEF vars, TypeOK, fileVars, watcherVars, mainVars, procVars
  <1> QED
    BY <1>1, <1>2, <1>3, <1>4, <1>5, <1>6 DEF Next

\* Every variable keeps its type in every reachable state.
THEOREM TypeCorrect == Spec => []TypeOK
  BY InitTypeOK, NextTypeOK, PTL DEF Spec
-----------------------------------------------------------------------------
(* The inductive invariant.                                                *)

\* A command is replaced only after its process has been sent a kill.
KilledBeforeReplaced == mainPc = "assign" => procs[cur].killed

\* Except between a write of server.cfg and the start of the next command, a
\* running server has the content of server.cfg.
RunsInstalled ==
    mainPc \notin {"kill", "assign"} \cup Stopped /\ installed # None
        => (procs[cur].st = "up" => procs[cur].loaded = installed)

\* Contents travel from the file to reload to server.cfg, never back.
ContentsInOrder == installed <= data /\ data <= disk

\* The watcher runs only once the first command has been started, and from
\* then on reload finds a started command.
WatcherAfterBoot ==
    /\ mainPc = "watch" => procs[cur].st # "created"
    /\ watcher # "off" =>
           /\ mainPc \notin {"watch", "wait", "waiting"}
           /\ mainPc = "start" => cur > 1
           /\ mainPc \in {"read", "install", "park", "select"}
                  => procs[cur].st # "created"

SupervisorInv == /\ TypeOK
                 /\ ReplacedServersKilled
                 /\ KilledBeforeReplaced
                 /\ RunsInstalled
                 /\ ContentsInOrder
                 /\ WatcherAfterBoot

LEMMA InvInit == Init => SupervisorInv
  <1> SUFFICES ASSUME Init PROVE SupervisorInv
    OBVIOUS
  <1>1. TypeOK
    BY InitTypeOK
  <1>2. procs[1] = NewProcess("created") /\ cur = 1
    BY SupervisorAssumption DEF Init, Servers
  <1>3. procs[cur].st = "created"
    BY <1>2 DEF NewProcess
  <1> QED
    BY <1>1, <1>3 DEF Init, SupervisorInv, ReplacedServersKilled, KilledBeforeReplaced,
          RunsInstalled, ContentsInOrder, WatcherAfterBoot, None, Servers

LEMMA InvMain == SupervisorInv /\ Main => SupervisorInv'
  <1> SUFFICES ASSUME SupervisorInv, Main PROVE SupervisorInv'
    OBVIOUS
  <1>t. TypeOK /\ TypeOK'
    BY MainTypeOK DEF SupervisorInv
  <1> USE <1>t
  <1> USE DEF SupervisorInv, ReplacedServersKilled, KilledBeforeReplaced, RunsInstalled,
              ContentsInOrder, WatcherAfterBoot, fileVars, watcherVars, procVars, Stopped
  <1>1. CASE ReadConfig
    BY <1>1 DEF ReadConfig, Booting, TypeOK, Content, None
  <1>2. CASE InstallConfig
    BY <1>2 DEF InstallConfig, Booting, TypeOK, Content, None
  <1>3. CASE KillServer
    BY <1>3 DEF KillServer, TypeOK, Process
  <1>4. CASE ReplaceCommand
    <2>1. /\ cur + 1 \in Servers
          /\ procs'[cur + 1] = NewProcess("created")
          /\ \A p \in Servers : p # cur + 1 => procs'[p] = procs[p]
      BY <1>4 DEF ReplaceCommand, TypeOK, Servers
    <2>2. procs'[cur'].st = "created"
      BY <1>4, <2>1 DEF ReplaceCommand, NewProcess
    <2>3. ReplacedServersKilled'
      BY <1>4, <2>1 DEF ReplaceCommand, TypeOK, Servers
    <2> QED
      BY <1>4, <2>2, <2>3 DEF ReplaceCommand, TypeOK, Servers
  <1>5. CASE StartServer
    BY <1>5 DEF StartServer, AfterStart, TypeOK, Process, Servers
  <1>6. CASE Watch
    BY <1>6 DEF Watch
  <1>7. CASE Park \/ SelectDone \/ CallWait \/ Exit
    BY <1>7 DEF Park, SelectDone, CallWait, Exit
  <1>8. CASE WaitReturns
    BY <1>8 DEF WaitReturns, TypeOK, Process
  <1> QED
    BY <1>1, <1>2, <1>3, <1>4, <1>5, <1>6, <1>7, <1>8 DEF Main

LEMMA InvWatcher == SupervisorInv /\ Watcher => SupervisorInv'
  <1> SUFFICES ASSUME SupervisorInv, Watcher PROVE SupervisorInv'
    OBVIOUS
  <1>t. TypeOK /\ TypeOK'
    BY WatcherTypeOK DEF SupervisorInv
  <1> QED
    BY <1>t DEF Watcher, WatcherEvent, TimerFires, WatcherStops, SupervisorInv,
          ReplacedServersKilled, KilledBeforeReplaced, RunsInstalled, ContentsInOrder,
          WatcherAfterBoot, fileVars, mainVars, procVars, Stopped

LEMMA InvServers ==
    ASSUME SupervisorInv, NEW p \in Servers,
           MonitorStep(p) \/ CtxKill(p) \/ LoadConfig(p) \/ Die(p)
    PROVE  SupervisorInv'
  <1>t. TypeOK /\ TypeOK'
    BY ServersTypeOK DEF SupervisorInv
  <1> USE <1>t
  <1> USE DEF SupervisorInv, ReplacedServersKilled, KilledBeforeReplaced, RunsInstalled,
              ContentsInOrder, WatcherAfterBoot, fileVars, watcherVars, mainVars
  <1>1. CASE MonitorCallsWait(p)
    BY <1>1 DEF MonitorCallsWait
  <1>2. CASE MonitorWaitReturns(p)
    BY <1>2 DEF MonitorWaitReturns, TypeOK, Process
  <1>3. CASE CtxKill(p)
    BY <1>3 DEF CtxKill, TypeOK, Process
  <1>4. CASE LoadConfig(p)
    BY <1>4 DEF LoadConfig, TypeOK, Process, Live
  <1>5. CASE Die(p)
    BY <1>5 DEF Die, TypeOK, Process, Live
  <1> QED
    BY <1>1, <1>2, <1>3, <1>4, <1>5 DEF MonitorStep

LEMMA InvEditor == SupervisorInv /\ Editor => SupervisorInv'
  <1> SUFFICES ASSUME SupervisorInv, TypeOK',
                      NEW good \in BOOLEAN, NEW notice, Edit(good, notice)
               PROVE  SupervisorInv'
    BY EditorTypeOK DEF SupervisorInv, Editor, WriteConfig, ReplaceConfig
  <1> QED
    BY DEF Edit, SupervisorInv, ReplacedServersKilled, KilledBeforeReplaced,
       RunsInstalled, ContentsInOrder, WatcherAfterBoot, watcherVars, mainVars, procVars,
       TypeOK, Content, None

LEMMA InvNext == SupervisorInv /\ [Next]_vars => SupervisorInv'
  <1> SUFFICES ASSUME SupervisorInv, [Next]_vars PROVE SupervisorInv'
    OBVIOUS
  <1>t. TypeOK'
    BY NextTypeOK DEF SupervisorInv
  <1>1. CASE Cancel
    BY <1>1, <1>t DEF Cancel, SupervisorInv, ReplacedServersKilled, KilledBeforeReplaced,
       RunsInstalled, ContentsInOrder, WatcherAfterBoot, fileVars, watcherVars, mainVars, procVars
  <1>2. CASE UNCHANGED vars
    BY <1>2, <1>t DEF vars, SupervisorInv, ReplacedServersKilled, KilledBeforeReplaced,
       RunsInstalled, ContentsInOrder, WatcherAfterBoot, fileVars, watcherVars, mainVars, procVars
  <1> QED
    BY <1>1, <1>2, InvMain, InvWatcher, InvServers, InvEditor DEF Next

LEMMA InvAlways == Spec => []SupervisorInv
  BY InvInit, InvNext, PTL DEF Spec

\* No server that Restart replaced serves on, however reloads, crashes and
\* monitors interleave.
THEOREM ReplacedAreKilled == Spec => []ReplacedServersKilled
  <1>1. SupervisorInv => ReplacedServersKilled
    BY DEF SupervisorInv
  <1> QED
    BY <1>1, InvAlways, PTL

\* A supervisor at rest has a server of the content it installed last.
THEOREM IdleServerIsCurrent == Spec => []IdleRunsInstalled
  <1>1. SupervisorInv => IdleRunsInstalled
    BY DEF SupervisorInv, RunsInstalled, IdleRunsInstalled, Stopped
  <1> QED
    BY <1>1, InvAlways, PTL

-----------------------------------------------------------------------------
(* Where edits are lost.                                                   *)

RelevantQueued == \E i \in 1..Len(events) : IsRelevantEvent(events[i])

\* Receiving an event leaves the later ones in the queue.
LEMMA TailKeepsRelevant ==
    ASSUME TypeOK, WatcherEvent, RelevantQueued, ~IsRelevantEvent(Head(events))
    PROVE  RelevantQueued'
  <1> DEFINE n == Len(events)
  <1>0. configFile' = configFile
    BY DEF WatcherEvent
  <1>1. events \in Seq(Event) /\ events # <<>> /\ events' = Tail(events)
    BY DEF TypeOK, WatcherEvent
  <1>2. PICK i \in 1..n : IsRelevantEvent(events[i])
    BY DEF RelevantQueued
  <1>3. i # 1
    BY <1>1, <1>2, HeadTailProperties DEF IsRelevantEvent
  <1>4. i - 1 \in 1..Len(events') /\ events'[i - 1] = events[i]
    BY <1>1, <1>3, HeadTailProperties
  <1> QED
    BY <1>0, <1>2, <1>4 DEF RelevantQueued, IsRelevantEvent

\* An edit under a watch queues an event the watcher will not ignore.
LEMMA EditIsRelevant ==
    ASSUME TypeOK, watched, NEW good, NEW notice, Edit(good, notice), Announces(notice)
    PROVE  RelevantQueued'
  <1>0. configFile' = configFile
    BY DEF Edit
  <1>1. events \in Seq(Event) /\ notice \in Seq(Event) /\ events' = events \o notice
    BY NoticeType DEF TypeOK, Edit
  <1>2. PICK i \in 1..Len(notice) : IsRelevantEvent(notice[i])
    BY NoticeOnce
  <1>3. /\ Len(events) + i \in 1..Len(events')
        /\ events'[Len(events) + i] = notice[i]
    BY <1>1, ConcatProperties, LenProperties
  <1> QED
    BY <1>0, <1>2, <1>3 DEF RelevantQueued, IsRelevantEvent

LEMMA LossStep ==
    ASSUME SupervisorInv, [Next]_vars, ~Lost, Lost'
    PROVE  LossWindow
  <1>1. TypeOK /\ ContentsInOrder /\ WatcherAfterBoot
    BY DEF SupervisorInv
  <1>2. Lost <=> /\ configFile # "none" /\ mainPc \notin Stopped /\ ~ctxDone /\ installed # disk
                 /\ ~RelevantQueued /\ timer # "armed" /\ mainPc # "read"
                 /\ ~(mainPc = "install" /\ data = disk)
    BY DEF Lost, Pending, RelevantQueued
  <1>3. Lost' <=> /\ configFile' # "none" /\ mainPc' \notin Stopped /\ ~ctxDone' /\ installed' # disk'
                  /\ ~RelevantQueued' /\ timer' # "armed" /\ mainPc' # "read"
                  /\ ~(mainPc' = "install" /\ data' = disk')
    BY DEF Lost, Pending, RelevantQueued
  <1>0. configFile' = configFile
    BY DEF Next, vars, fileVars, Main, ReadConfig, InstallConfig, KillServer,
           ReplaceCommand, StartServer, Watch, Park, SelectDone, CallWait, WaitReturns,
           Exit, Watcher, WatcherEvent, TimerFires, WatcherStops, MonitorStep,
           MonitorCallsWait, MonitorWaitReturns, CtxKill, LoadConfig, Die, Cancel,
           Editor, WriteConfig, ReplaceConfig, Edit
  <1>4. events' = events => (RelevantQueued' <=> RelevantQueued)
    BY <1>0 DEF RelevantQueued, IsRelevantEvent
  <1>5. CASE Main
    BY <1>1, <1>2, <1>3, <1>4, <1>5
       DEF Main, ReadConfig, InstallConfig, KillServer, ReplaceCommand, StartServer,
           AfterStart, Watch, Park, SelectDone, CallWait, WaitReturns, Exit, Booting,
           fileVars, watcherVars, procVars, Stopped, LossWindow,
           TypeOK, Content, None, ContentsInOrder
  <1>6. CASE WatcherEvent
    <2>1. timer = "armed" => timer' = "armed"
      BY <1>6 DEF WatcherEvent
    <2>2. RelevantQueued => RelevantQueued' \/ timer' = "armed"
      BY <1>1, <1>6, TailKeepsRelevant DEF WatcherEvent
    <2> QED
      BY <1>2, <1>3, <1>6, <2>1, <2>2 DEF WatcherEvent, mainVars
  <1>7. CASE TimerFires
    BY <1>1, <1>2, <1>3, <1>4, <1>7
       DEF TimerFires, fileVars, LossWindow, WatcherAfterBoot, TypeOK, MainPc, Stopped
  <1>8. CASE WatcherStops
    BY <1>3, <1>8 DEF WatcherStops
  <1>9. CASE \E p \in Servers : MonitorStep(p) \/ CtxKill(p) \/ LoadConfig(p) \/ Die(p)
    BY <1>2, <1>3, <1>4, <1>9
       DEF MonitorStep, MonitorCallsWait, MonitorWaitReturns, CtxKill, LoadConfig, Die,
           fileVars, watcherVars, mainVars
  <1>10. CASE Cancel
    BY <1>3, <1>10 DEF Cancel
  <1>11. CASE Editor
    <2>1. PICK good \in BOOLEAN : \E notice : Edit(good, notice) /\ Announces(notice)
      BY <1>11, EditorNotice
    <2>2. PICK notice : Edit(good, notice) /\ Announces(notice)
      BY <2>1
    <2>3. CASE watched
      BY <1>1, <1>3, <2>2, <2>3, EditIsRelevant
    <2>4. CASE ~watched
      BY <1>1, <2>2, <2>4 DEF Edit, LossWindow, TypeOK
    <2> QED
      BY <2>3, <2>4
  <1>12. CASE UNCHANGED vars
    BY <1>2, <1>3, <1>4, <1>12 DEF vars, fileVars, watcherVars, mainVars, procVars
  <1> QED
    BY <1>5, <1>6, <1>7, <1>8, <1>9, <1>10, <1>11, <1>12 DEF Next, Watcher

\* An unnoticed edit is lost in the three windows of LossWindow and nowhere
\* else.
THEOREM LossesAreKnown == Spec => LostOnlyInKnownWindows
  <1>1. SupervisorInv /\ [Next]_vars => [~Lost /\ Lost' => LossWindow]_vars
    BY LossStep
  <1> QED
    BY <1>1, InvAlways, PTL DEF Spec, LostOnlyInKnownWindows
-----------------------------------------------------------------------------
(* Start without a configuration file.                                     *)

\* Only a process that has ended gives its result to a waiter, and only a new
\* command is started.
WaitedIsDead ==
    /\ \A p \in Servers : procs[p].waited => procs[p].st = "dead"
    /\ mainPc = "start" => procs[cur].st = "created"

\* Without a configuration file there is one command and no watcher: Start
\* starts it and waits for it.
StartsOnce ==
    configFile = "none" =>
        /\ watcher = "off" /\ cur = 1
        /\ mainPc \in {"install", "start", "wait", "waiting"} \cup Stopped
        /\ mainPc = "install" => procs[cur].st = "created"
        /\ mainPc \in Stopped => procs[cur].st \notin Live

StartInv == TypeOK /\ WaitedIsDead /\ StartsOnce

LEMMA StartInvInit == Init => StartInv
  <1> SUFFICES ASSUME Init PROVE StartInv
    OBVIOUS
  <1>1. TypeOK
    BY InitTypeOK
  <1>2. procs[cur].st = "created" /\ \A p \in Servers : ~procs[p].waited
    BY SupervisorAssumption DEF Init, Servers, NewProcess
  <1> QED
    BY <1>1, <1>2 DEF Init, StartInv, WaitedIsDead, StartsOnce, Stopped

LEMMA StartInvMain == StartInv /\ Main => StartInv'
  <1> SUFFICES ASSUME StartInv, Main PROVE StartInv'
    OBVIOUS
  <1>t. TypeOK /\ TypeOK'
    BY MainTypeOK DEF StartInv
  <1> USE <1>t
  <1> USE DEF StartInv, WaitedIsDead, StartsOnce, fileVars, watcherVars, procVars, Stopped, Live
  <1>1. CASE ReadConfig
    BY <1>1 DEF ReadConfig, Booting
  <1>2. CASE InstallConfig
    BY <1>2 DEF InstallConfig, Booting
  <1>3. CASE KillServer
    BY <1>3 DEF KillServer, TypeOK, Process
  <1>4. CASE ReplaceCommand
    <2>1. /\ cur + 1 \in Servers
          /\ procs'[cur + 1] = NewProcess("created")
          /\ \A p \in Servers : p # cur + 1 => procs'[p] = procs[p]
      BY <1>4 DEF ReplaceCommand, TypeOK, Servers
    <2> QED
      BY <1>4, <2>1 DEF ReplaceCommand, NewProcess
  <1>5. CASE StartServer
    BY <1>5 DEF StartServer, AfterStart, TypeOK, Process
  <1>6. CASE Watch
    BY <1>6 DEF Watch
  <1>7. CASE Park \/ SelectDone \/ CallWait \/ Exit
    BY <1>7 DEF Park, SelectDone, CallWait, Exit, TypeOK
  <1>8. CASE WaitReturns
    BY <1>8 DEF WaitReturns, TypeOK, Process
  <1> QED
    BY <1>1, <1>2, <1>3, <1>4, <1>5, <1>6, <1>7, <1>8 DEF Main

LEMMA StartInvNext == StartInv /\ [Next]_vars => StartInv'
  <1> SUFFICES ASSUME StartInv, [Next]_vars PROVE StartInv'
    OBVIOUS
  <1>t. TypeOK /\ TypeOK'
    BY NextTypeOK DEF StartInv
  <1> USE <1>t
  <1> USE DEF StartInv, WaitedIsDead, StartsOnce, Stopped, Live
  <1>1. CASE Watcher
    BY <1>1 DEF Watcher, WatcherEvent, TimerFires, WatcherStops, fileVars, mainVars, procVars
  <1>2. ASSUME NEW p \in Servers, MonitorStep(p)
        PROVE  StartInv'
    <2>1. CASE MonitorCallsWait(p)
      BY <2>1 DEF MonitorCallsWait, fileVars, watcherVars, mainVars
    <2>2. CASE MonitorWaitReturns(p)
      <3>1. PICK q : /\ procs[q].st = "dead" /\ procs' = [procs EXCEPT ![q].waited = TRUE]
                     /\ UNCHANGED <<fileVars, watcherVars, mainVars>>
        BY <2>2 DEF MonitorWaitReturns
      <3> QED
        BY <3>1 DEF TypeOK, Process, fileVars, watcherVars, mainVars
    <2> QED
      BY <1>2, <2>1, <2>2 DEF MonitorStep
  <1>3. ASSUME NEW p \in Servers, CtxKill(p) \/ LoadConfig(p) \/ Die(p)
        PROVE  StartInv'
    BY <1>3 DEF CtxKill, LoadConfig, Die, TypeOK, Process, fileVars, watcherVars, mainVars
  <1>4. CASE Cancel \/ Editor
    BY <1>4 DEF Cancel, Editor, WriteConfig, ReplaceConfig, Edit,
       fileVars, watcherVars, mainVars, procVars
  <1>5. CASE UNCHANGED vars
    BY <1>5 DEF vars, fileVars, watcherVars, mainVars, procVars
  <1> QED
    BY <1>1, <1>2, <1>3, <1>4, <1>5, StartInvMain DEF Next

\* Without a configuration file Start does not return before its server ends,
\* whichever of the two waiters gets the result.
THEOREM StartWaitsForServer == Spec => []StartOutlivesServer
  <1>1. StartInv => StartOutlivesServer
    BY DEF StartInv, StartsOnce, StartOutlivesServer
  <1> QED
    BY <1>1, StartInvInit, StartInvNext, PTL DEF Spec
-----------------------------------------------------------------------------
(* What ends a supervisor that nobody ends.                                *)

\* Without a cancellation only Restart kills, and then replaces the command.
KilledToBeReplaced == ~ctxDone /\ mainPc # "assign" => ~procs[cur].killed

EndInv == SupervisorInv /\ StartInv /\ KilledToBeReplaced /\ EndsForACause

LEMMA EndInvInit == Init => EndInv
  <1> SUFFICES ASSUME Init PROVE EndInv
    OBVIOUS
  <1>1. ~procs[cur].killed
    BY SupervisorAssumption DEF Init, Servers, NewProcess
  <1> QED
    BY <1>1, InvInit, StartInvInit DEF Init, EndInv, KilledToBeReplaced, EndsForACause

LEMMA EndInvMain ==
    ASSUME EndInv, Main, TypeOK'
    PROVE  KilledToBeReplaced' /\ EndsForACause'
  <1> USE DEF EndInv, SupervisorInv, StartInv, WaitedIsDead, WatcherAfterBoot, TypeOK,
              KilledToBeReplaced, EndsForACause, fileVars, watcherVars, procVars, Stopped
  <1>1. CASE ReadConfig
    BY <1>1 DEF ReadConfig, Booting
  <1>2. CASE InstallConfig
    BY <1>2 DEF InstallConfig, Booting
  <1>3. CASE KillServer
    BY <1>3 DEF KillServer, Process
  <1>4. CASE ReplaceCommand
    <2>1. cur' \in Servers /\ procs'[cur'] = NewProcess("created")
      BY <1>4 DEF ReplaceCommand, Servers
    <2> QED
      BY <1>4, <2>1 DEF ReplaceCommand, NewProcess
  <1>5. CASE StartServer
    BY <1>5 DEF StartServer, AfterStart, Process
  <1>6. CASE Watch
    BY <1>6 DEF Watch
  <1>7. CASE Park \/ SelectDone \/ CallWait \/ Exit
    BY <1>7 DEF Park, SelectDone, CallWait, Exit
  <1>8. CASE WaitReturns
    BY <1>8 DEF WaitReturns, Process
  <1> QED
    BY <1>1, <1>2, <1>3, <1>4, <1>5, <1>6, <1>7, <1>8 DEF Main

LEMMA EndInvNext == EndInv /\ [Next]_vars => EndInv'
  <1> SUFFICES ASSUME EndInv, [Next]_vars PROVE KilledToBeReplaced' /\ EndsForACause'
    BY InvNext, StartInvNext DEF EndInv
  <1>t. TypeOK /\ TypeOK'
    BY NextTypeOK DEF EndInv, StartInv
  <1> USE <1>t
  <1> USE DEF EndInv, StartInv, WaitedIsDead, KilledToBeReplaced, EndsForACause, Stopped
  <1>1. CASE Main
    BY <1>1, EndInvMain
  <1>2. CASE Watcher
    BY <1>2 DEF Watcher, WatcherEvent, TimerFires, WatcherStops, fileVars, mainVars, procVars
  <1>3. ASSUME NEW p \in Servers, MonitorStep(p)
        PROVE  KilledToBeReplaced' /\ EndsForACause'
    <2>1. CASE MonitorCallsWait(p)
      BY <2>1 DEF MonitorCallsWait, fileVars, watcherVars, mainVars
    <2>2. CASE MonitorWaitReturns(p)
      <3>1. PICK q : /\ procs[q].st = "dead" /\ procs' = [procs EXCEPT ![q].waited = TRUE]
                     /\ UNCHANGED <<fileVars, watcherVars, mainVars, ctxDone>>
        BY <2>2 DEF MonitorWaitReturns
      <3> QED
        BY <3>1 DEF TypeOK, Process, fileVars, watcherVars, mainVars
    <2> QED
      BY <1>3, <2>1, <2>2 DEF MonitorStep
  <1>4. ASSUME NEW p \in Servers, CtxKill(p) \/ LoadConfig(p) \/ Die(p)
        PROVE  KilledToBeReplaced' /\ EndsForACause'
    BY <1>4 DEF CtxKill, LoadConfig, Die, TypeOK, Process, Live, fileVars, watcherVars, mainVars
  <1>5. CASE Cancel \/ Editor
    BY <1>5 DEF Cancel, Editor, WriteConfig, ReplaceConfig, Edit,
       fileVars, watcherVars, mainVars, procVars
  <1>6. CASE UNCHANGED vars
    BY <1>6 DEF vars, fileVars, watcherVars, mainVars, procVars
  <1> QED
    BY <1>1, <1>2, <1>3, <1>4, <1>5, <1>6 DEF Next

\* A supervisor that watches its file ends, unless cancelled, only for a start
\* that failed or a server that crashed before its restart.
THEOREM EndsHaveACause == Spec => []EndsForACause
  <1>1. EndInv => EndsForACause
    BY DEF EndInv
  <1> QED
    BY <1>1, EndInvInit, EndInvNext, PTL DEF Spec
-----------------------------------------------------------------------------
(* One restart for each edit.                                              *)

\* The places of the events that the watcher will not ignore.
Relevant(s) == {i \in 1..Len(s) : IsRelevantEvent(s[i])}

\* A reload is under way that may replace the command, and has not yet.
Restarting ==
    \/ mainPc \in {"kill", "assign"}
    \/ mainPc \in {"read", "install"} /\ ~Booting

\* The restarts that may follow if nobody edits the file any more.
Owed == Cardinality(Relevant(events)) + (IF timer = "armed" THEN 1 ELSE 0)
                                      + (IF Restarting THEN 1 ELSE 0)

\* Each restart, made or owed, has its own edit.
EditsPayForRestarts == cur + Owed <= 1 + disk

RestartInv == TypeOK /\ EditsPayForRestarts

LEMMA RelevantCount ==
    ASSUME NEW s \in Seq(Event)
    PROVE  IsFiniteSet(Relevant(s)) /\ Cardinality(Relevant(s)) \in Nat
  <1>1. IsFiniteSet(1..Len(s))
    BY LenProperties, FS_Interval
  <1>2. Relevant(s) \in SUBSET (1..Len(s))
    BY DEF Relevant
  <1>3. IsFiniteSet(Relevant(s))
    BY <1>1, <1>2, FS_Subset
  <1> QED
    BY <1>3, FS_CardinalityType

\* The first event leaves the queue, and takes with it what it counted.
LEMMA TailCount ==
    ASSUME NEW s \in Seq(Event), s # <<>>
    PROVE  Cardinality(Relevant(s))
             = Cardinality(Relevant(Tail(s))) + (IF IsRelevantEvent(Head(s)) THEN 1 ELSE 0)
  <1> DEFINE rest == Relevant(s) \ {1}
             shift == [i \in rest |-> i - 1]
  <1>1. /\ Len(s) \in Nat \ {0} /\ Head(s) = s[1]
        /\ Tail(s) \in Seq(Event) /\ Len(Tail(s)) = Len(s) - 1
        /\ \A i \in 1..Len(Tail(s)) : Tail(s)[i] = s[i + 1]
    BY HeadTailProperties, EmptySeq
  <1>2. /\ IsFiniteSet(rest)
        /\ Cardinality(rest) = IF 1 \in Relevant(s) THEN Cardinality(Relevant(s)) - 1
                               ELSE Cardinality(Relevant(s))
    BY RelevantCount, FS_RemoveElement
  <1>3. 1 \in Relevant(s) <=> IsRelevantEvent(Head(s))
    BY <1>1 DEF Relevant
  <1>4. \A i \in rest : i \in Int /\ i - 1 \in Relevant(Tail(s))
    BY <1>1 DEF Relevant
  <1>5. \A j \in Relevant(Tail(s)) : j \in Int /\ j + 1 \in rest /\ (j + 1) - 1 = j
    BY <1>1 DEF Relevant
  <1>6. shift \in Bijection(rest, Relevant(Tail(s)))
    <2>1. shift \in [rest -> Relevant(Tail(s))]
      BY <1>4
    <2>2. \A a, b \in rest : shift[a] = shift[b] => a = b
      BY <1>4
    <2>3. \A j \in Relevant(Tail(s)) : \E i \in rest : shift[i] = j
      BY <1>5
    <2> QED
      BY <2>1, <2>2, <2>3, Fun_IsBij
  <1>7. Cardinality(Relevant(Tail(s))) = Cardinality(rest)
    BY <1>2, <1>6, FS_Bijection DEF ExistsBijection
  <1>8. Cardinality(Relevant(s)) \in Nat
    BY RelevantCount
  <1> QED
    BY <1>2, <1>3, <1>7, <1>8

LEMMA ConcatCount ==
    ASSUME NEW s \in Seq(Event), NEW notice \in Seq(Event), NEW k \in 1..Len(notice),
           \A i \in 1..Len(notice) : IsRelevantEvent(notice[i]) <=> i = k
    PROVE  Cardinality(Relevant(s \o notice)) = Cardinality(Relevant(s)) + 1
  <1>1. /\ Len(s) \in Nat /\ Len(notice) \in Nat
        /\ Len(s \o notice) = Len(s) + Len(notice)
        /\ \A i \in 1..(Len(s) + Len(notice)) :
               (s \o notice)[i] = IF i <= Len(s) THEN s[i] ELSE notice[i - Len(s)]
    BY ConcatProperties, LenProperties
  <1>2. Relevant(s \o notice) = Relevant(s) \cup {Len(s) + k}
    <2>1. ASSUME NEW i \in 1..(Len(s) + Len(notice))
          PROVE  IsRelevantEvent((s \o notice)[i]) <=> i \in Relevant(s) \/ i = Len(s) + k
      <3>1. CASE i <= Len(s)
        BY <1>1, <3>1 DEF Relevant
      <3>2. CASE i > Len(s)
        <4>1. i - Len(s) \in 1..Len(notice) /\ (s \o notice)[i] = notice[i - Len(s)]
          BY <1>1, <3>2
        <4>2. i \notin Relevant(s) /\ (i - Len(s) = k <=> i = Len(s) + k)
          BY <1>1, <3>2 DEF Relevant
        <4>3. IsRelevantEvent((s \o notice)[i]) <=> i - Len(s) = k
          BY <4>1
        <4> QED
          BY <4>2, <4>3
      <3> QED
        BY <1>1, <3>1, <3>2
    <2>2. Relevant(s) \cup {Len(s) + k} \subseteq 1..(Len(s) + Len(notice))
      BY <1>1 DEF Relevant
    <2> QED
      BY <1>1, <2>1, <2>2 DEF Relevant
  <1>3. Len(s) + k \notin Relevant(s)
    BY <1>1 DEF Relevant
  <1> QED
    BY <1>2, <1>3, RelevantCount, FS_AddElement

\* What a step leaves of the queue, the timer and the reload pays for the rest.
LEMMA Paid ==
    ASSUME RestartInv, TypeOK', UNCHANGED <<configFile, events>>,
           \/ UNCHANGED timer /\ (Restarting' => Restarting) /\ cur' = cur
           \/ timer' = "off" /\ (Restarting' => Restarting) /\ cur' = cur
           \/ timer = "armed" /\ timer' = "off" /\ cur' = cur
           \/ UNCHANGED timer /\ Restarting /\ ~Restarting' /\ cur' = cur + 1,
           disk' >= disk
    PROVE  EditsPayForRestarts'
  <1>1. Relevant(events)' = Relevant(events)
    BY DEF Relevant, IsRelevantEvent
  <1>2. PICK n \in Nat : n = Cardinality(Relevant(events)) /\ n = Cardinality(Relevant(events))'
    BY <1>1, RelevantCount DEF RestartInv, TypeOK
  <1>3. cur \in Int /\ cur' \in Int /\ disk \in Int /\ disk' \in Int
    BY DEF RestartInv, TypeOK, Servers
  <1> QED
    BY <1>2, <1>3 DEF RestartInv, EditsPayForRestarts, Owed

LEMMA PaidMain == RestartInv /\ Main => EditsPayForRestarts'
  <1> SUFFICES ASSUME RestartInv, Main PROVE EditsPayForRestarts'
    OBVIOUS
  <1>t. TypeOK /\ TypeOK'
    BY MainTypeOK DEF RestartInv
  <1>d. disk \in Int /\ disk >= disk
    BY <1>t DEF TypeOK
  <1> USE <1>t
  <1> USE DEF Restarting, Booting, Stopped, fileVars, watcherVars, procVars
  <1>1. CASE ReadConfig
    BY <1>1, <1>d, Paid DEF ReadConfig
  <1>2. CASE InstallConfig
    BY <1>2, <1>d, Paid DEF InstallConfig
  <1>3. CASE KillServer
    BY <1>3, <1>d, Paid DEF KillServer
  <1>4. CASE ReplaceCommand
    BY <1>4, <1>d, Paid DEF ReplaceCommand
  <1>5. CASE StartServer
    BY <1>5, <1>d, Paid DEF StartServer, AfterStart
  <1>6. CASE Watch
    BY <1>6, <1>d, Paid DEF Watch
  <1>7. CASE Park \/ SelectDone \/ CallWait \/ Exit
    BY <1>7, <1>d, Paid DEF Park, SelectDone, CallWait, Exit
  <1>8. CASE WaitReturns
    BY <1>8, <1>d, Paid DEF WaitReturns
  <1> QED
    BY <1>1, <1>2, <1>3, <1>4, <1>5, <1>6, <1>7, <1>8 DEF Main

LEMMA PaidWatcher == RestartInv /\ Watcher => EditsPayForRestarts'
  <1> SUFFICES ASSUME RestartInv, Watcher PROVE EditsPayForRestarts'
    OBVIOUS
  <1>t. TypeOK /\ TypeOK'
    BY WatcherTypeOK DEF RestartInv
  <1>d. disk \in Int /\ disk >= disk
    BY <1>t DEF TypeOK
  <1>1. CASE WatcherEvent
    <2>1. events \in Seq(Event) /\ events # <<>> /\ Tail(events) \in Seq(Event)
      BY <1>1, <1>t, HeadTailProperties DEF WatcherEvent, TypeOK
    <2>2. Relevant(events)' = Relevant(Tail(events)) /\ (Restarting' <=> Restarting)
      BY <1>1 DEF WatcherEvent, Relevant, IsRelevantEvent, Restarting, Booting, mainVars, procVars
    <2>3. PICK n \in Nat : n = Cardinality(Relevant(events))
      BY <2>1, RelevantCount
    <2>4. PICK k \in Nat : k = Cardinality(Relevant(events))' /\ k = Cardinality(Relevant(Tail(events)))
      BY <2>1, <2>2, RelevantCount
    <2>5. n = k + (IF IsRelevantEvent(Head(events)) THEN 1 ELSE 0)
      BY <2>1, <2>3, <2>4, TailCount
    <2>6. cur \in Int /\ disk \in Int /\ cur' = cur /\ disk' = disk
      BY <1>1, <1>t DEF WatcherEvent, TypeOK, Servers, mainVars
    <2>7. timer' = IF IsRelevantEvent(Head(events)) THEN "armed" ELSE timer
      BY <1>1 DEF WatcherEvent
    <2> QED
      BY <2>2, <2>3, <2>4, <2>5, <2>6, <2>7 DEF RestartInv, EditsPayForRestarts, Owed
  <1>2. CASE TimerFires
    BY <1>2, <1>d, <1>t, Paid DEF TimerFires, fileVars
  <1>3. CASE WatcherStops
    BY <1>3, <1>d, <1>t, Paid DEF WatcherStops, Restarting, Booting, mainVars, procVars
  <1> QED
    BY <1>1, <1>2, <1>3 DEF Watcher

LEMMA PaidEditor == RestartInv /\ Editor => EditsPayForRestarts'
  <1> SUFFICES ASSUME RestartInv, Editor PROVE EditsPayForRestarts'
    OBVIOUS
  <1>t. TypeOK /\ TypeOK'
    BY EditorTypeOK DEF RestartInv
  <1>1. PICK good \in BOOLEAN : \E notice : Edit(good, notice) /\ Announces(notice)
    BY EditorNotice
  <1>2. PICK notice : Edit(good, notice) /\ Announces(notice)
    BY <1>1
  <1>3. /\ configFile' = configFile /\ timer' = timer /\ (Restarting' <=> Restarting)
        /\ cur \in Int /\ disk \in Int /\ cur' = cur /\ disk' = disk + 1
    BY <1>2, <1>t DEF Edit, TypeOK, Servers, Restarting, Booting, watcherVars, mainVars, procVars
  <1>4. CASE ~watched
    BY <1>2, <1>3, <1>4, <1>t, Paid DEF Edit
  <1>5. CASE watched
    <2>1. events \in Seq(Event) /\ notice \in Seq(Event) /\ events' = events \o notice
      BY <1>2, <1>5, <1>t, NoticeType DEF Edit, TypeOK
    <2>2. PICK k \in 1..Len(notice) :
              \A i \in 1..Len(notice) : IsRelevantEvent(notice[i]) <=> i = k
      BY <1>2, NoticeOnce
    <2>3. Relevant(events)' = Relevant(events \o notice)
      BY <1>3, <2>1 DEF Relevant, IsRelevantEvent
    <2>4. Cardinality(Relevant(events \o notice)) = Cardinality(Relevant(events)) + 1
      BY <2>1, <2>2, ConcatCount
    <2>5. PICK n \in Nat : n = Cardinality(Relevant(events)) /\ n + 1 = Cardinality(Relevant(events))'
      BY <2>1, <2>3, <2>4, RelevantCount
    <2> QED
      BY <1>3, <2>5 DEF RestartInv, EditsPayForRestarts, Owed
  <1> QED
    BY <1>4, <1>5

LEMMA RestartInvInit == Init => RestartInv
  <1> SUFFICES ASSUME Init PROVE RestartInv
    OBVIOUS
  <1>1. TypeOK
    BY InitTypeOK
  <1>2. Relevant(events) = {}
    BY DEF Init, Relevant
  <1>3. procs[cur].st = "created"
    BY SupervisorAssumption DEF Init, Servers, NewProcess
  <1>4. Cardinality(Relevant(events)) = 0
    BY <1>2, FS_EmptySet
  <1> QED
    BY <1>1, <1>3, <1>4
       DEF Init, RestartInv, EditsPayForRestarts, Owed, Restarting, Booting

LEMMA RestartInvNext == RestartInv /\ [Next]_vars => RestartInv'
  <1> SUFFICES ASSUME RestartInv, [Next]_vars PROVE EditsPayForRestarts'
    BY NextTypeOK DEF RestartInv
  <1>t. TypeOK /\ TypeOK'
    BY NextTypeOK DEF RestartInv
  <1>d. disk \in Int /\ disk >= disk
    BY <1>t DEF TypeOK
  <1> USE <1>t
  <1> USE DEF Restarting, Booting, fileVars, watcherVars, mainVars, procVars
  <1>1. ASSUME NEW p \in Servers, MonitorStep(p)
        PROVE  EditsPayForRestarts'
    <2>1. procs'[cur].st = procs[cur].st
      BY <1>1 DEF MonitorStep, MonitorCallsWait, MonitorWaitReturns, TypeOK, Process
    <2> QED
      BY <1>1, <1>d, <2>1, Paid DEF MonitorStep, MonitorCallsWait, MonitorWaitReturns
  <1>2. ASSUME NEW p \in Servers, CtxKill(p) \/ LoadConfig(p) \/ Die(p)
        PROVE  EditsPayForRestarts'
    <2>1. procs'[cur].st = "created" <=> procs[cur].st = "created"
      BY <1>2 DEF CtxKill, LoadConfig, Die, TypeOK, Process, Live
    <2> QED
      BY <1>2, <1>d, <2>1, Paid DEF CtxKill, LoadConfig, Die
  <1>3. CASE Cancel
    BY <1>3, <1>d, Paid DEF Cancel
  <1>4. CASE UNCHANGED vars
    BY <1>4, <1>d, Paid DEF vars
  <1> QED
    BY <1>1, <1>2, <1>3, <1>4, PaidMain, PaidWatcher, PaidEditor DEF Next

\* However the events of an update are received, and whatever the timer and the
\* reloads do meanwhile, one edit restarts the server at most once.
THEOREM EditsRestartOnce == Spec => []OneRestartPerEdit
  <1>1. RestartInv => OneRestartPerEdit
    <2> SUFFICES ASSUME RestartInv PROVE OneRestartPerEdit
      OBVIOUS
    <2>1. Cardinality(Relevant(events)) \in Nat /\ cur \in Int /\ disk \in Int
      BY RelevantCount DEF RestartInv, TypeOK, Servers
    <2> QED
      BY <2>1 DEF RestartInv, EditsPayForRestarts, Owed, OneRestartPerEdit
  <1> QED
    BY <1>1, RestartInvInit, RestartInvNext, PTL DEF Spec
-----------------------------------------------------------------------------
(***************************************************************************)
(* The supervisor implements Rollout.  Only the current server can serve,  *)
(* since one that was replaced was killed first; it starts to serve when   *)
(* it loads server.cfg, whose content is at least as new as all that was   *)
(* loaded before, and every other step changes no content and at most ends *)
(* its service.                                                            *)
(***************************************************************************)

\* What reload took from the file can be used.
UsableContents == data \notin bad /\ installed \notin bad

\* What was served is not newer than what will be.
ServedInOrder ==
    \A p \in Servers : /\ procs[p].loaded <= data
                       /\ installed # None => procs[p].loaded <= installed

\* A server loads its content once, and commands are made one after the other.
LoadsOnce ==
    \A p \in Servers : /\ procs[p].st \in {"none", "created", "starting"}
                             => procs[p].loaded = None
                       /\ p > cur => procs[p].st = "none"

RolloutInv == /\ SupervisorInv /\ WaitedIsDead
              /\ UsableContents /\ ServedInOrder /\ LoadsOnce

Serves(pr) == pr.st = "up" /\ ~pr.killed

\* A step that is none of the promise, or the end of a service.
QuietStep ==
    /\ UNCHANGED <<disk, bad>>
    /\ \A p \in Servers : /\ procs'[p].loaded = procs[p].loaded
                          /\ Serves(procs'[p]) => Serves(procs[p])

LEMMA OnlyCurrentServes ==
    ASSUME RolloutInv
    PROVE  \A p \in Servers : Serves(procs[p]) => p = cur
  <1>1. \A p \in Servers : p < cur \/ p = cur \/ p > cur
    BY DEF RolloutInv, SupervisorInv, TypeOK, Servers
  <1> QED
    BY <1>1 DEF RolloutInv, SupervisorInv, ReplacedServersKilled, LoadsOnce, Live, Serves

LEMMA QuietStepStops ==
    ASSUME RolloutInv, QuietStep
    PROVE  [Promise!Next]_(Promise!vars)
  <1>1. Serving' \subseteq Serving /\ Serving \subseteq {cur}
    BY OnlyCurrentServes DEF QuietStep, Serving, Serves
  <1>2. [p \in Servers |-> procs'[p].loaded] = [p \in Servers |-> procs[p].loaded]
    BY DEF QuietStep
  <1>3. Serving' = Serving \/ (Serving # {} /\ Serving' = {})
    BY <1>1
  <1>4. CASE Serving' = Serving
    BY <1>2, <1>4 DEF QuietStep, Promise!vars
  <1>5. CASE Serving # {} /\ Serving' = {}
    BY <1>2, <1>5 DEF QuietStep, Promise!Stop, Promise!Next
  <1> QED
    BY <1>3, <1>4, <1>5

\* Steps that touch neither processes nor the file.
LEMMA NoProcessStep ==
    ASSUME UNCHANGED <<disk, bad, procs>>
    PROVE  QuietStep
  BY DEF QuietStep

\* A step that changes the process of one command, and loads nothing.
LEMMA OneProcessStep ==
    ASSUME RolloutInv, UNCHANGED <<disk, bad>>, NEW q \in Servers,
           \A p \in Servers \ {q} : procs'[p] = procs[p],
           procs'[q].loaded = procs[q].loaded, Serves(procs'[q]) => Serves(procs[q])
    PROVE  QuietStep
  BY DEF QuietStep

LEMMA RolloutMain ==
    ASSUME RolloutInv, Main
    PROVE  /\ UsableContents' /\ ServedInOrder' /\ LoadsOnce'
           /\ QuietStep
  <1>t. TypeOK /\ TypeOK' /\ ContentsInOrder
    BY MainTypeOK DEF RolloutInv, SupervisorInv
  <1>i. UsableContents /\ ServedInOrder /\ LoadsOnce /\ WaitedIsDead
    BY DEF RolloutInv
  <1>p. \A p \in Servers : procs[p] \in Process /\ procs[p].loaded \in Content
    BY <1>t DEF TypeOK, Process
  <1> USE DEF fileVars, watcherVars, procVars
  <1>1. CASE ReadConfig
    <2>1. /\ data' = data \/ (data' = disk /\ disk \notin bad)
          /\ UNCHANGED <<disk, bad, procs, cur, installed>>
      BY <1>1 DEF ReadConfig
    <2>2. data \in Content /\ disk \in Nat /\ data <= disk
      BY <1>t DEF TypeOK, ContentsInOrder
    <2>3. \A p \in Servers : procs[p].loaded <= data'
      BY <1>i, <1>p, <2>1, <2>2 DEF ServedInOrder, Content, None
    <2> QED
      BY <1>i, <2>1, <2>3, NoProcessStep DEF UsableContents, ServedInOrder, LoadsOnce
  <1>2. CASE InstallConfig
    <2>1. /\ installed' \in {data, installed, None}
          /\ UNCHANGED <<disk, bad, procs, cur, data>>
      BY <1>2 DEF InstallConfig
    <2>2. None \notin bad
      BY <1>t DEF TypeOK, None
    <2> QED
      BY <1>i, <2>1, <2>2, NoProcessStep DEF UsableContents, ServedInOrder, LoadsOnce
  <1>3. CASE KillServer
    <2>1. /\ UNCHANGED <<disk, bad, cur, data, installed>>
          /\ procs' = procs \/ procs' = [procs EXCEPT ![cur].killed = TRUE]
      BY <1>3 DEF KillServer
    <2>2. \A p \in Servers : /\ procs'[p].loaded = procs[p].loaded /\ procs'[p].st = procs[p].st
                             /\ procs'[p].killed = procs[p].killed \/ procs'[p].killed
      BY <1>t, <2>1 DEF TypeOK, Process
    <2> QED
      BY <1>i, <2>1, <2>2 DEF QuietStep, Serves, UsableContents, ServedInOrder, LoadsOnce
  <1>4. CASE ReplaceCommand
    <2>1. /\ cur + 1 \in Servers /\ cur' = cur + 1
          /\ procs'[cur + 1] = NewProcess("created")
          /\ \A p \in Servers \ {cur + 1} : procs'[p] = procs[p]
          /\ UNCHANGED <<disk, bad, data, installed>>
      BY <1>4, <1>t DEF ReplaceCommand, TypeOK, Servers
    <2>2. procs[cur + 1].st = "none" /\ procs[cur + 1].loaded = None
      BY <1>i, <1>t, <2>1 DEF LoadsOnce, TypeOK, Servers
    <2>3. procs'[cur + 1].st = "created" /\ procs'[cur + 1].loaded = None
      BY <2>1 DEF NewProcess
    <2>4. QuietStep
      BY <2>1, <2>2, <2>3, OneProcessStep DEF Serves
    <2>5. LoadsOnce'
      BY <1>i, <1>t, <2>1, <2>3 DEF LoadsOnce, TypeOK, Servers
    <2> QED
      BY <1>i, <2>1, <2>4, <2>5 DEF QuietStep, UsableContents, ServedInOrder
  <1>5. CASE StartServer
    <2>1. /\ UNCHANGED <<disk, bad, cur, data, installed>>
          /\ procs' = procs \/ procs' = [procs EXCEPT ![cur].st = "starting"]
          /\ procs[cur].st = "created" /\ cur \in Servers
      BY <1>5, <1>i, <1>t DEF StartServer, WaitedIsDead, TypeOK
    <2>2. \A p \in Servers : /\ procs'[p].loaded = procs[p].loaded
                             /\ procs'[p] = procs[p] \/ (p = cur /\ procs'[p].st = "starting")
      BY <1>t, <2>1 DEF TypeOK, Process
    <2>3. LoadsOnce'
      BY <1>i, <1>t, <2>1, <2>2 DEF LoadsOnce, TypeOK, Servers
    <2> QED
      BY <1>i, <2>1, <2>2, <2>3 DEF QuietStep, Serves, UsableContents, ServedInOrder
  <1>6. CASE Watch \/ Park \/ SelectDone \/ CallWait \/ Exit
    BY <1>6, <1>i, NoProcessStep
       DEF Watch, Park, SelectDone, CallWait, Exit, UsableContents, ServedInOrder, LoadsOnce
  <1>7. CASE WaitReturns
    <2>1. /\ UNCHANGED <<disk, bad, cur, data, installed>>
          /\ procs' = [procs EXCEPT ![cur].waited = TRUE]
      BY <1>7 DEF WaitReturns
    <2>2. \A p \in Servers : /\ procs'[p].loaded = procs[p].loaded /\ procs'[p].st = procs[p].st
                             /\ procs'[p].killed = procs[p].killed
      BY <1>t, <2>1 DEF TypeOK, Process
    <2> QED
      BY <1>i, <2>1, <2>2 DEF QuietStep, Serves, UsableContents, ServedInOrder, LoadsOnce
  <1> QED
    BY <1>1, <1>2, <1>3, <1>4, <1>5, <1>6, <1>7 DEF Main

\* The monitors and os/exec: results are taken and processes killed.
LEMMA RolloutServers ==
    ASSUME RolloutInv, NEW q \in Servers, MonitorStep(q) \/ CtxKill(q) \/ Die(q)
    PROVE  /\ UsableContents' /\ ServedInOrder' /\ LoadsOnce'
           /\ QuietStep
  <1>t. TypeOK /\ UsableContents /\ ServedInOrder /\ LoadsOnce
    BY DEF RolloutInv, SupervisorInv
  <1>1. UNCHANGED <<disk, bad, cur, data, installed>>
    BY DEF MonitorStep, MonitorCallsWait, MonitorWaitReturns, CtxKill, Die, fileVars, mainVars
  <1>2. \E p : \/ procs' = procs
               \/ procs' = [procs EXCEPT ![p].waited = TRUE]
               \/ procs' = [procs EXCEPT ![p].killed = TRUE]
               \/ procs[p].st \in Live /\ procs' = [procs EXCEPT ![p].st = "dead"]
    <2>1. CASE MonitorStep(q)
      BY <2>1 DEF MonitorStep, MonitorCallsWait, MonitorWaitReturns
    <2>2. CASE CtxKill(q) \/ Die(q)
      BY <2>2 DEF CtxKill, Die
    <2> QED
      BY <2>1, <2>2
  <1>3. \A p \in Servers :
            /\ procs'[p].loaded = procs[p].loaded
            /\ procs'[p].st = procs[p].st \/ (procs[p].st \in Live /\ procs'[p].st = "dead")
            /\ procs'[p].killed = procs[p].killed \/ procs'[p].killed
    BY <1>t, <1>2 DEF TypeOK, Process
  <1>4. LoadsOnce'
    BY <1>t, <1>1, <1>3 DEF LoadsOnce, Live
  <1> QED
    BY <1>t, <1>1, <1>3, <1>4 DEF QuietStep, Serves, UsableContents, ServedInOrder

\* A server that is started is the current one, and reads what is installed.
LEMMA RolloutLoad ==
    ASSUME RolloutInv, NEW q \in Servers, LoadConfig(q)
    PROVE  /\ UsableContents' /\ ServedInOrder' /\ LoadsOnce'
           /\ Promise!Serve(q)
  <1>t. TypeOK /\ UsableContents /\ ServedInOrder /\ LoadsOnce /\ ContentsInOrder
    BY DEF RolloutInv, SupervisorInv
  <1>1. /\ UNCHANGED <<disk, bad, cur, data, installed>>
        /\ procs[q].st = "starting" /\ ~procs[q].killed
        /\ procs' = [procs EXCEPT ![q].st = "up", ![q].loaded = installed]
    BY DEF LoadConfig, fileVars, mainVars
  <1>2. /\ \A p \in Servers \ {q} : procs'[p] = procs[p]
        /\ procs'[q].st = "up" /\ ~procs'[q].killed /\ procs'[q].loaded = installed
    BY <1>t, <1>1 DEF TypeOK, Process
  <1>3. q = cur
    <2>1. q < cur \/ q = cur \/ q > cur
      BY <1>t DEF TypeOK, Servers
    <2> QED
      BY <1>t, <1>1, <2>1 DEF RolloutInv, SupervisorInv, ReplacedServersKilled, LoadsOnce, Live
  <1>4. Serving = {} /\ Serving' = {q}
    <2>1. \A p \in Servers : ~Serves(procs[p])
      BY <1>1, <1>3, OnlyCurrentServes DEF Serves
    <2> QED
      BY <1>2, <2>1 DEF Serving, Serves
  <1>5. \A p \in Servers : p >= q => procs[p].loaded = None
    <2> TAKE p \in Servers
    <2>1. p >= q => p = q \/ p > cur
      BY <1>3 DEF Servers
    <2> QED
      BY <1>t, <1>1, <2>1 DEF LoadsOnce
  <1>6. /\ installed \in Promise!Usable \cup {None}
        /\ installed # None => \A p \in Servers : procs[p].loaded <= installed
    <2>1. installed = None \/ installed \in 0..disk
      BY <1>t DEF TypeOK, ContentsInOrder, Content, None
    <2> QED
      BY <1>t, <2>1 DEF UsableContents, ServedInOrder, Promise!Usable
  <1>7. [p \in Servers |-> procs'[p].loaded]
          = [[p \in Servers |-> procs[p].loaded] EXCEPT ![q] = installed]
    BY <1>2
  <1>8. Promise!Serve(q)
    BY <1>1, <1>4, <1>5, <1>6, <1>7 DEF Promise!Serve
  <1>9. UsableContents' /\ LoadsOnce'
    BY <1>t, <1>1, <1>2, <1>3 DEF UsableContents, LoadsOnce
  <1>10. ServedInOrder'
    <2>1. installed <= data /\ installed <= installed
      BY <1>t DEF TypeOK, ContentsInOrder, Content, None
    <2> QED
      BY <1>t, <1>1, <1>2, <2>1 DEF ServedInOrder
  <1> QED
    BY <1>8, <1>9, <1>10

\* An edit is published; what was read before it stays usable.
LEMMA RolloutEditor ==
    ASSUME RolloutInv, Editor
    PROVE  /\ UsableContents' /\ ServedInOrder' /\ LoadsOnce'
           /\ Promise!Publish
  <1>1. /\ disk' = disk + 1 /\ bad' \in {bad, bad \cup {disk + 1}}
        /\ UNCHANGED <<procs, cur, data, installed>>
    BY DEF Editor, WriteConfig, ReplaceConfig, Edit, mainVars, procVars
  <1>2. /\ data < disk + 1 /\ installed < disk + 1
    BY DEF RolloutInv, SupervisorInv, TypeOK, ContentsInOrder, Content, None
  <1>3. Serving' = Serving /\ [p \in Servers |-> procs'[p].loaded] = [p \in Servers |-> procs[p].loaded]
    BY <1>1 DEF Serving
  <1>4. Promise!Publish
    BY <1>1, <1>3 DEF Promise!Publish
  <1>5. UsableContents'
    BY <1>1, <1>2 DEF RolloutInv, UsableContents
  <1> QED
    BY <1>1, <1>4, <1>5 DEF RolloutInv, ServedInOrder, LoadsOnce

LEMMA RolloutInit == Init => RolloutInv /\ Promise!Init
  <1> SUFFICES ASSUME Init PROVE RolloutInv /\ Promise!Init
    OBVIOUS
  <1>1. /\ disk = 0 /\ bad = {} /\ data \in {0, None} /\ installed = None /\ cur = 1
        /\ procs = [p \in Servers |-> NewProcess(IF p = 1 THEN "created" ELSE "none")]
    BY DEF Init
  <1>2. \A p \in Servers : /\ procs[p].st = IF p = 1 THEN "created" ELSE "none"
                           /\ procs[p].loaded = None
    BY <1>1 DEF NewProcess
  <1>3. SupervisorInv /\ WaitedIsDead
    BY InvInit, StartInvInit DEF StartInv
  <1>4. UsableContents /\ ServedInOrder
    BY <1>1, <1>2 DEF UsableContents, ServedInOrder, None
  <1>5. LoadsOnce
    BY <1>1, <1>2 DEF LoadsOnce
  <1>6. Serving = {} /\ [p \in Servers |-> procs[p].loaded] = [p \in Servers |-> None]
    BY <1>2 DEF Serving
  <1>7. Promise!Init
    BY <1>1, <1>6 DEF Promise!Init
  <1> QED
    BY <1>3, <1>4, <1>5, <1>7 DEF RolloutInv

LEMMA RolloutNext ==
    RolloutInv /\ StartInv /\ [Next]_vars => RolloutInv' /\ [Promise!Next]_(Promise!vars)
  <1> SUFFICES ASSUME RolloutInv, StartInv, [Next]_vars
               PROVE  RolloutInv' /\ [Promise!Next]_(Promise!vars)
    OBVIOUS
  <1> DEFINE Kept == UsableContents' /\ ServedInOrder' /\ LoadsOnce'
  <1>i. SupervisorInv' /\ WaitedIsDead'
    BY InvNext, StartInvNext DEF RolloutInv, StartInv
  <1>1. CASE Main
    BY <1>1, <1>i, RolloutMain, QuietStepStops DEF RolloutInv
  <1>2. ASSUME NEW q \in Servers, MonitorStep(q) \/ CtxKill(q) \/ Die(q)
        PROVE  RolloutInv' /\ [Promise!Next]_(Promise!vars)
    BY <1>2, <1>i, RolloutServers, QuietStepStops DEF RolloutInv
  <1>3. ASSUME NEW q \in Servers, LoadConfig(q)
        PROVE  RolloutInv' /\ [Promise!Next]_(Promise!vars)
    BY <1>3, <1>i, RolloutLoad DEF RolloutInv, Promise!Next
  <1>4. CASE Editor
    BY <1>4, <1>i, RolloutEditor DEF RolloutInv, Promise!Next
  <1>5. CASE Watcher \/ Cancel \/ UNCHANGED vars
    <2>1. UNCHANGED <<disk, bad, procs, cur, data, installed>>
      BY <1>5 DEF Watcher, WatcherEvent, TimerFires, WatcherStops, Cancel,
         vars, fileVars, mainVars, procVars
    <2>2. Kept
      BY <2>1 DEF RolloutInv, UsableContents, ServedInOrder, LoadsOnce
    <2> QED
      BY <1>i, <2>1, <2>2, NoProcessStep, QuietStepStops DEF RolloutInv
  <1> QED
    BY <1>1, <1>2, <1>3, <1>4, <1>5 DEF Next

\* Whatever reloads, crashes and edits come in between, players see a rollout:
\* one server at a time, with usable contents of the file in their order.
THEOREM EditsRollOut == Spec => ImplementsRollout
  BY RolloutInit, RolloutNext, StartInvInit, StartInvNext, PTL
     DEF Spec, ImplementsRollout, Promise!Spec

-----------------------------------------------------------------------------
(* Somebody waits for the current command.                                 *)

\* The monitor launched for the current command has not yet looked for what to
\* wait for, or waits for that very command: what monitors of earlier commands
\* do, which may have found it too, does not matter.
CurrentIsMonitored ==
    procs[cur].st \in Live \cup {"dead"} /\ ~procs[cur].waited =>
        \/ monitors[cur].pc = "launched"
        \/ monitors[cur].pc = "waiting" /\ monitors[cur].on = cur

MonitorInv == TypeOK /\ CurrentIsMonitored

LEMMA MonitorInvMain == MonitorInv /\ Main => CurrentIsMonitored'
  <1> SUFFICES ASSUME MonitorInv, Main PROVE CurrentIsMonitored'
    OBVIOUS
  <1> USE DEF MonitorInv, CurrentIsMonitored, fileVars, watcherVars, procVars, Live
  <1>1. CASE ReadConfig \/ InstallConfig \/ Watch \/ Park \/ SelectDone \/ CallWait \/ Exit
    BY <1>1 DEF ReadConfig, InstallConfig, Watch, Park, SelectDone, CallWait, Exit
  <1>2. CASE KillServer
    BY <1>2 DEF KillServer, TypeOK, Process
  <1>3. CASE ReplaceCommand
    <2>1. /\ cur' = cur + 1
          /\ procs' = [procs EXCEPT ![cur + 1] = NewProcess("created")]
      BY <1>3 DEF ReplaceCommand
    <2>2. cur + 1 \in Servers /\ procs \in [Servers -> Process]
      BY <1>3, SupervisorAssumption DEF ReplaceCommand, TypeOK, Servers
    <2>3. procs'[cur'].st = "created"
      BY <2>1, <2>2 DEF NewProcess
    <2> QED
      BY <2>3
  <1>4. CASE StartServer
    <2>1. \/ UNCHANGED <<procVars, cur>>
          \/ cur' = cur /\ monitors'[cur].pc = "launched"
      BY <1>4 DEF StartServer, TypeOK, Monitor
    <2> QED
      BY <2>1
  <1>5. CASE WaitReturns
    BY <1>5 DEF WaitReturns, TypeOK, Process
  <1> QED
    BY <1>1, <1>2, <1>3, <1>4, <1>5 DEF Main

LEMMA MonitorInvNext == MonitorInv /\ [Next]_vars => MonitorInv'
  <1> SUFFICES ASSUME MonitorInv, [Next]_vars PROVE CurrentIsMonitored'
    BY NextTypeOK DEF MonitorInv
  <1> USE DEF MonitorInv, CurrentIsMonitored, Live
  <1>1. CASE Watcher
    BY <1>1 DEF Watcher, WatcherEvent, TimerFires, WatcherStops, mainVars, procVars
  <1>2. ASSUME NEW m \in Servers, MonitorCallsWait(m)
        PROVE  CurrentIsMonitored'
    <2>1. UNCHANGED <<procs, cur>>
      BY <1>2 DEF MonitorCallsWait, mainVars
    <2>2. CASE m # cur
      BY <1>2, <2>1, <2>2 DEF MonitorCallsWait, TypeOK
    <2>3. CASE m = cur
      BY <1>2, <2>1, <2>3 DEF MonitorCallsWait, TypeOK
    <2> QED
      BY <2>2, <2>3
  <1>3. ASSUME NEW m \in Servers, MonitorWaitReturns(m)
        PROVE  CurrentIsMonitored'
    <2> DEFINE p == monitors[m].on
    <2>1. /\ cur' = cur /\ procs' = [procs EXCEPT ![p].waited = TRUE]
          /\ monitors[m].pc = "waiting"
          /\ monitors' = [monitors EXCEPT ![m] = [pc |-> "done", on |-> 0]]
      BY <1>3 DEF MonitorWaitReturns, mainVars
    <2>2. CASE p = cur
      BY <2>1, <2>2 DEF TypeOK, Process
    <2>3. CASE p # cur
      <3>1. procs'[cur] = procs[cur]
        BY <2>1, <2>3 DEF TypeOK
      <3>2. m # cur => monitors'[cur] = monitors[cur]
        BY <2>1 DEF TypeOK
      <3> QED
        BY <2>1, <2>3, <3>1, <3>2
    <2> QED
      BY <2>2, <2>3
  <1>4. ASSUME NEW p \in Servers, CtxKill(p) \/ LoadConfig(p) \/ Die(p)
        PROVE  CurrentIsMonitored'
    BY <1>4 DEF CtxKill, LoadConfig, Die, TypeOK, Process, mainVars
  <1>5. CASE Cancel \/ Editor
    BY <1>5 DEF Cancel, Editor, WriteConfig, ReplaceConfig, Edit, mainVars, procVars
  <1>6. CASE UNCHANGED vars
    BY <1>6 DEF vars, mainVars, procVars
  <1> QED
    BY <1>1, <1>2, <1>3, <1>4, <1>5, <1>6, MonitorInvMain DEF Next, MonitorStep

\* No death of the current server is without somebody to notice it, although a
\* monitor waits for whichever command is current when it runs and a command
\* gives its result to one waiter only. (That the one who waits gets to run is
\* fairness, see DeadServerReaped.)
THEOREM DeathsAreNoticed == Spec => []CurrentIsMonitored
  <1>1. Init => MonitorInv
    <2> SUFFICES ASSUME Init PROVE CurrentIsMonitored
      BY InitTypeOK DEF MonitorInv
    <2>1. procs[cur].st = "created"
      BY SupervisorAssumption DEF Init, Servers, NewProcess
    <2> QED
      BY <2>1 DEF CurrentIsMonitored, Live
  <1>2. MonitorInv => CurrentIsMonitored
    BY DEF MonitorInv
  <1> QED
    BY <1>1, <1>2, MonitorInvNext, PTL DEF Spec
=============================================================================
