--------------------------- MODULE ServiceControl ---------------------------
(***************************************************************************)
(* service.py and the commands of cli.py that use it: installing,          *)
(* starting, stopping, restarting and updating the service under systemd,  *)
(* launchd or Task Scheduler.  Three parties share the state: the manager, *)
(* which launches the sidecar again whenever it is gone; the sidecar,      *)
(* which writes its pid to status.json and paints the deck; and one        *)
(* command at a time, whose steps are the calls it makes to the manager    *)
(* and its looks at status.json.                                           *)
(***************************************************************************)
EXTENDS Integers

CONSTANTS
  Platforms,    \* the managers to look at
  MaxLaunches,  \* bound on the processes a manager launches
  MaxCommands,  \* bound on commands
  MaxFaults     \* bound on crashes, failed calls, interrupts and edits

Managers == {"systemd", "launchd", "windows"}

ASSUME ServiceAssumption ==
  /\ Platforms \subseteq Managers
  /\ MaxLaunches \in Nat \ {0} /\ MaxCommands \in Nat /\ MaxFaults \in Nat

VARIABLES
  platform,
  unit,       \* the unit file, plist or task XML is on disk
  job,        \* what the manager knows of the service
  counted,    \* Task Scheduler counts an instance as running
  proc,       \* pid of the sidecar, 0 for none
  ready,      \* it got past load_config
  doomed,     \* it has been told to go, or is being terminated
  newest,     \* the last pid launched
  painted,    \* the deck shows sessions
  status,     \* the pid in status.json, 0 when there is no file
  valid,      \* load_config accepts config.json
  verb,       \* the command typed
  op,         \* the service_* function it is in
  pc,         \* the step of it that is next
  was,        \* update's was_active
  gone,       \* what the last wait found: "seen" gone, "assumed" gone, or "no"
  baseline,   \* baseline_pid
  seen,       \* a pid that was read and not yet compared
  since,      \* history: the last pid launched when a process was last told to go
  told,       \* history: the pid the command presents as the service's
  evidence,   \* history: what it inferred that from
  clearing,   \* history: how resetting the deck went since then, "no" if not tried
  commands, faults

managerVars == <<unit, job, counted>>
procVars == <<proc, ready, doomed, newest, painted>>
localVars == <<was, gone, baseline, seen>>
toldVars == <<told, evidence, clearing>>
cmdVars == <<verb, op, pc, localVars, since, toldVars>>
worldVars == <<platform, managerVars, procVars, status, valid>>
vars == <<worldVars, cmdVars, commands, faults>>

Pid == 0 .. MaxLaunches
Ops == {"install", "uninstall", "start", "stop", "restart"}
Verbs == Ops \cup {"update", "status"}

\* "gone" is the blocking systemctl, "wait" and "again" are the bounded polls
\* of the other two; "pid" and "compare" are the halves of a look for a fresh
\* status.
Steps ==
  {"idle", "look", "data", "speak", "package", "write", "enable", "unlink",
   "end", "reset", "run", "compare"}
StepsOf(m) ==
  Steps \cup (IF m = "systemd" THEN {"gone", "pid"}
              ELSE IF m = "launchd" THEN {"wait", "again", "pid"}
              ELSE {"wait", "again", "baseline"})

ServiceTypeOK ==
  /\ platform \in Platforms
  /\ unit \in BOOLEAN /\ job \in {"absent", "idle", "wanted"} /\ counted \in BOOLEAN
  /\ newest \in Pid /\ proc \in {0, newest} /\ status \in 0 .. newest
  /\ ready \in BOOLEAN /\ doomed \in BOOLEAN /\ painted \in BOOLEAN /\ valid \in BOOLEAN
  /\ verb \in Verbs /\ op \in Verbs /\ pc \in StepsOf(platform)
  /\ was \in BOOLEAN /\ gone \in {"no", "seen", "assumed"}
  /\ baseline \in 0 .. newest /\ seen \in 0 .. newest
  /\ since \in 0 .. newest /\ told \in 0 .. newest
  /\ evidence \in {"none", "pid", "baseline", "age"} /\ clearing \in {"no", "done", "failed"}
  /\ commands \in 0 .. MaxCommands /\ faults \in 0 .. MaxFaults

-----------------------------------------------------------------------------
\* service_is_active.  A launchd job is loaded until its process has gone;
\* Task Scheduler's count of instances lags behind the process.
Active ==
  CASE platform = "systemd" -> proc # 0 /\ ~doomed
    [] platform = "launchd" -> job = "wanted" \/ doomed
    [] platform = "windows" -> counted /\ job # "absent"

\* service_main_pid; EnginePID is not the sidecar's.
MainPid == IF platform = "windows" THEN 0 ELSE proc

\* The service_* functions: what the call that a step stands for is followed
\* by, unless the step itself ends the command.
SystemdInstall == [first |-> "write", write |-> "enable", enable |-> "return"]
SystemdUninstall == [first |-> "end", end |-> "gone", gone |-> "unlink", unlink |-> "return"]
SystemdStart == [first |-> "run", run |-> "return"]
SystemdStop == [first |-> "end", end |-> "gone", gone |-> "reset", reset |-> "return"]
SystemdRestart ==
  [first |-> "end", end |-> "gone", gone |-> "pid", pid |-> "compare", compare |-> "return"]

LaunchdInstall == [first |-> "write", write |-> "enable", enable |-> "return"]
LaunchdUninstall == [first |-> "end", end |-> "unlink", unlink |-> "return"]
LaunchdStart == [first |-> "run", run |-> "return"]
LaunchdStop == [first |-> "end", end |-> "wait", wait |-> "reset", reset |-> "return"]
LaunchdRestart ==
  [first |-> "end", end |-> "wait", wait |-> "reset", reset |-> "again", again |-> "run",
   run |-> "pid", pid |-> "compare", compare |-> "return"]

WinInstall == [first |-> "write", write |-> "enable", enable |-> "return"]
WinUninstall == [first |-> "end", end |-> "unlink", unlink |-> "return"]
WinStart == [first |-> "run", run |-> "return"]
WinStop == [first |-> "end", end |-> "wait", wait |-> "reset", reset |-> "return"]

\* Defect: Windows waits for a status of the service's own pid, too.
WinRestart_ByPid ==
  [first |-> "baseline", baseline |-> "end", end |-> "wait", wait |-> "reset",
   reset |-> "again", again |-> "run", run |-> "pid", pid |-> "compare", compare |-> "return"]

WinRestart ==
  [first |-> "baseline", baseline |-> "end", end |-> "wait", wait |-> "reset",
   reset |-> "again", again |-> "run", run |-> "compare", compare |-> "return"]

Program(o) ==
  CASE o = "install" -> (CASE platform = "systemd" -> SystemdInstall
                           [] platform = "launchd" -> LaunchdInstall
                           [] platform = "windows" -> WinInstall)
    [] o = "uninstall" -> (CASE platform = "systemd" -> SystemdUninstall
                             [] platform = "launchd" -> LaunchdUninstall
                             [] platform = "windows" -> WinUninstall)
    [] o = "start" -> (CASE platform = "systemd" -> SystemdStart
                         [] platform = "launchd" -> LaunchdStart
                         [] platform = "windows" -> WinStart)
    [] o = "stop" -> (CASE platform = "systemd" -> SystemdStop
                        [] platform = "launchd" -> LaunchdStop
                        [] platform = "windows" -> WinStop)
    [] o = "restart" -> (CASE platform = "systemd" -> SystemdRestart
                           [] platform = "launchd" -> LaunchdRestart
                           [] platform = "windows" -> WinRestart)

First(v) == IF v \in Ops THEN Program(v)["first"] ELSE "look"

\* Continue with the service_* function o of the same command, or with a step
\* of the function in progress.
Enter(o) == op' = o /\ pc' = First(o) /\ UNCHANGED verb
Goto(step) == pc' = step /\ UNCHANGED <<verb, op>>

\* The function in progress returns; update then goes on.
Return ==
  CASE verb = "update" /\ op = "stop" -> Goto("package")
    [] verb = "update" /\ op = "install" -> Enter("restart")
    [] OTHER -> Goto("idle")

Advance ==
  LET next == Program(op)[pc] IN IF next = "return" THEN Return ELSE Goto(next)

Init ==
  /\ platform \in Platforms
  /\ \/ unit = FALSE /\ job = "absent" /\ newest = 0 /\ status = 0
     \/ unit = TRUE /\ job = "wanted" /\ newest = 1 /\ status \in {0, 1}
  /\ counted = FALSE /\ proc = 0 /\ ready = FALSE /\ doomed = FALSE
  /\ painted = FALSE /\ valid \in BOOLEAN
  /\ verb = "status" /\ op = "status" /\ pc = "idle"
  /\ was = FALSE /\ gone = "no" /\ baseline = 0 /\ seen = 0
  /\ since = newest /\ told = 0 /\ evidence = "none" /\ clearing = "no"
  /\ commands = 0 /\ faults = 0

-----------------------------------------------------------------------------
\* The manager and the sidecar.

\* Restart=always, KeepAlive, the repetition of the task; a task has one
\* instance at a time.
Launch ==
  /\ job = "wanted" /\ proc = 0 /\ ~counted /\ newest < MaxLaunches
  /\ newest' = newest + 1 /\ proc' = newest' /\ ready' = FALSE
  /\ counted' = (platform = "windows")
  /\ UNCHANGED <<platform, unit, job, doomed, painted, status, valid, cmdVars, commands, faults>>

\* The task's trigger starts it again every minute, stopped on purpose or not,
\* from the first logon after its registration on.
TriggerFires ==
  /\ platform = "windows" /\ job = "idle" /\ ~counted
  /\ job' = "wanted"
  /\ UNCHANGED <<platform, unit, counted, procVars, status, valid, cmdVars, commands, faults>>

Leave == proc' = 0 /\ ready' = FALSE /\ doomed' = FALSE /\ UNCHANGED newest

\* A process without a valid configuration exits at once.
LoadConfig ==
  /\ proc # 0 /\ ~ready
  /\ \/ valid /\ ready' = TRUE /\ UNCHANGED <<proc, doomed, newest>>
     \/ ~valid /\ Leave
  /\ UNCHANGED <<platform, managerVars, painted, status, valid, cmdVars, commands, faults>>

Publish ==
  /\ ready /\ status # proc /\ status' = proc
  /\ UNCHANGED <<platform, managerVars, procVars, valid, cmdVars, commands, faults>>

Paint ==
  /\ ready /\ ~painted /\ painted' = TRUE
  /\ UNCHANGED <<platform, managerVars, proc, ready, doomed, newest, status, valid, cmdVars,
                 commands, faults>>

\* SIGTERM lets _run blank the deck, SIGKILL and TerminateProcess do not.
Exit ==
  /\ doomed /\ Leave
  /\ \/ UNCHANGED painted
     \/ platform # "windows" /\ painted' = FALSE
  /\ UNCHANGED <<platform, managerVars, status, valid, cmdVars, commands, faults>>

\* Task Scheduler notices that an instance has ended.
Notice ==
  /\ counted /\ proc = 0 /\ counted' = FALSE
  /\ UNCHANGED <<platform, unit, job, procVars, status, valid, cmdVars, commands, faults>>

Fault == faults < MaxFaults /\ faults' = faults + 1

Crash ==
  /\ Fault /\ proc # 0 /\ ~doomed /\ Leave
  /\ UNCHANGED <<platform, managerVars, painted, status, valid, cmdVars, commands>>

EditConfig ==
  /\ Fault /\ valid' = ~valid
  /\ UNCHANGED <<platform, managerVars, procVars, status, cmdVars, commands>>

-----------------------------------------------------------------------------
\* Commands.

Begin(v) ==
  /\ pc = "idle" /\ commands < MaxCommands
  /\ commands' = commands + 1
  /\ verb' = v /\ op' = v /\ pc' = First(v)
  /\ was' = FALSE /\ gone' = "no" /\ baseline' = 0 /\ seen' = 0
  /\ told' = 0 /\ evidence' = "none" /\ clearing' = "no"
  /\ UNCHANGED <<worldVars, since, faults>>

At(step) == pc = step /\ UNCHANGED <<platform, newest, status, valid, commands>>
KeepsLocals == UNCHANGED <<localVars, since, toldVars>>
KeepsWorld == UNCHANGED <<managerVars, procVars>>

\* status looks whether the service is active, and else probes the deck itself;
\* update may find nothing to do, or remembers the answer and stops the service.
Look ==
  /\ At("look")
  /\ \/ /\ verb = "status" /\ UNCHANGED was
        /\ IF Active THEN Goto("data") ELSE Goto("idle")
     \/ verb = "update" /\ Goto("idle") /\ UNCHANGED was
     \/ /\ verb = "update" /\ was' = Active
        /\ IF Active THEN Enter("stop") ELSE Goto("package")
  /\ KeepsWorld
  /\ UNCHANGED <<gone, baseline, seen, since, toldVars, faults>>

ReadData ==
  /\ At("data")
  /\ IF status = 0 THEN Goto("idle") ELSE Goto("speak")
  /\ seen' = status
  /\ KeepsWorld
  /\ UNCHANGED <<was, gone, baseline, since, toldVars, faults>>

Told(pid, why) == told' = pid /\ evidence' = why /\ UNCHANGED clearing

\* Defect: a recent status file is taken for the running process's.
Speak_ByAge ==
  /\ At("speak") /\ Goto("idle")
  /\ Told(seen, "pid") \/ UNCHANGED toldVars
  /\ KeepsWorld
  /\ UNCHANGED <<localVars, since, faults>>

\* Its pid tells whether the data is the running process's; without one its
\* age does.
Speak ==
  /\ At("speak") /\ Goto("idle")
  /\ \/ MainPid # 0 /\ seen = MainPid /\ Told(seen, "pid")
     \/ MainPid # 0 /\ seen # MainPid /\ UNCHANGED toldVars
     \/ MainPid = 0 /\ (Told(seen, "age") \/ UNCHANGED toldVars)
  /\ KeepsWorld
  /\ UNCHANGED <<localVars, since, faults>>

\* Defect: update ends when the new version cannot be installed.
Package_NoFinally ==
  /\ At("package")
  /\ \/ was /\ Enter("install") /\ UNCHANGED faults
     \/ ~was /\ Goto("idle") /\ UNCHANGED faults
     \/ Fault /\ Goto("idle")
  /\ KeepsWorld /\ KeepsLocals

\* uv or pip; a failure leaves out service_install, not the restart.
Package ==
  /\ At("package")
  /\ \/ was /\ Enter("install") /\ UNCHANGED faults
     \/ was /\ Fault /\ Enter("restart")
     \/ ~was /\ Goto("idle") /\ UNCHANGED faults
  /\ KeepsWorld /\ KeepsLocals

\* Ctrl-C; update's finally restarts what it stopped.
Interrupt ==
  /\ Fault /\ pc # "idle"
  /\ IF verb = "update" /\ was /\ (pc = "package" \/ op = "install")
     THEN Enter("restart") ELSE Goto("idle")
  /\ gone' = "no"
  /\ UNCHANGED <<worldVars, was, baseline, seen, since, toldVars, commands>>

-----------------------------------------------------------------------------
\* install: _systemd_install, _launchd_install, _win_install.

WriteUnit ==
  /\ At("write") /\ Advance
  /\ unit' = TRUE
  /\ job' = IF platform = "systemd" /\ job = "absent" THEN "idle" ELSE job
  /\ UNCHANGED <<counted, procVars, faults>> /\ KeepsLocals

\* systemctl daemon-reload fails after the unit file was written or removed: the
\* manager knows what it knew, and the function ends there.
DaemonReloadFails ==
  /\ platform = "systemd" /\ Fault /\ Return
  /\ \/ At("write") /\ unit' = TRUE
     \/ At("unlink") /\ unit' = FALSE
  /\ UNCHANGED <<job, counted, procVars>> /\ KeepsLocals

\* The manager is asked to run the job.  launchd refuses while the old one is
\* loaded; Task Scheduler ignores the request while it counts an instance.
Request ==
  job' = IF (platform = "launchd" /\ doomed) \/ counted THEN job ELSE "wanted"

\* Nothing is started whose configuration is known to be bad.
ConfigReady == valid

Enable ==
  /\ At("enable")
  /\ IF ConfigReady THEN Request ELSE UNCHANGED job
  /\ Advance
  /\ UNCHANGED <<unit, counted, procVars, faults>> /\ KeepsLocals

\* systemctl enable, launchctl bootstrap, schtasks /Create or /Run fails.  An
\* exception or sys.exit ends install, and update's finally outlives both.
EnableFails ==
  /\ At("enable") /\ ConfigReady /\ Fault
  /\ Advance
  /\ job' \in IF platform = "windows" /\ job = "absent" THEN {"absent", "idle"} ELSE {job}
  /\ UNCHANGED <<unit, counted, procVars>> /\ KeepsLocals

-----------------------------------------------------------------------------
\* stop, uninstall and the first half of restart.

ReadBaseline ==
  /\ At("baseline") /\ Advance
  /\ baseline' = status
  /\ KeepsWorld
  /\ UNCHANGED <<was, gone, seen, since, toldVars, faults>>

\* systemctl stop or restart, launchctl bootout, schtasks /End.
End ==
  /\ At("end")
  /\ job' = IF job = "absent" \/ platform = "launchd" THEN "absent"
            ELSE IF platform = "systemd" /\ op = "restart" THEN "wanted" ELSE "idle"
  /\ doomed' = (proc # 0)
  /\ since' = newest /\ gone' = "no" /\ clearing' = "no"
  /\ Advance
  /\ UNCHANGED <<unit, counted, proc, ready, painted, faults>>
  /\ UNCHANGED <<was, baseline, seen, told, evidence>>

\* systemctl returns when the old process is gone; restart of an unknown unit
\* fails and ends the command.
SystemctlReturns ==
  /\ At("gone") /\ ~doomed
  /\ gone' = "seen"
  /\ IF op = "restart" /\ job = "absent" THEN Goto("idle") ELSE Advance
  /\ KeepsWorld
  /\ UNCHANGED <<was, baseline, seen, since, toldVars, faults>>

Waiting == (At("wait") \/ At("again")) /\ Advance /\ KeepsWorld

\* Defect: the job is taken to be gone once the manager was asked to end it.
WaitSees_AtOnce ==
  /\ Waiting /\ gone' = "seen"
  /\ UNCHANGED <<was, baseline, seen, since, toldVars, faults>>

\* _wait_for_launchd_unload, _win_wait_for_task_stopped
WaitSees ==
  /\ Waiting /\ ~Active /\ gone' = "seen"
  /\ UNCHANGED <<was, baseline, seen, since, toldVars, faults>>

WaitTimesOut ==
  /\ Waiting /\ Active /\ gone' = "no"
  /\ UNCHANGED <<was, baseline, seen, since, toldVars, faults>>

\* A query that fails or takes too long reads as "not running".
QueryFails ==
  /\ Waiting /\ platform = "windows" /\ Fault /\ gone' = "assumed"
  /\ UNCHANGED <<was, baseline, seen, since, toldVars>>

\* The deck is reset only when the service is taken to be gone.
Resets == gone # "no" /\ (platform = "systemd" => ~Active)

\* Defect: stop leaves the screen to the process it stopped.
Reset_None ==
  /\ At("reset") /\ Advance
  /\ UNCHANGED <<managerVars, procVars, faults>> /\ KeepsLocals

\* _reset_deck_best_effort.  It fails without hidapi, a deck or an answer to the
\* reset, and may fail because a sidecar holds the deck.
Reset ==
  /\ At("reset") /\ Advance
  /\ \/ Resets /\ painted' = FALSE /\ clearing' = "done" /\ UNCHANGED faults
     \/ /\ Resets /\ clearing' = "failed" /\ UNCHANGED painted
        /\ Fault \/ (ready /\ UNCHANGED faults)
     \/ ~Resets /\ UNCHANGED <<painted, clearing, faults>>
  /\ UNCHANGED <<managerVars, proc, ready, doomed, localVars, since, told, evidence>>

Unlink ==
  /\ At("unlink") /\ Advance
  /\ unit' = FALSE
  /\ job' = IF platform = "launchd" THEN job ELSE "absent"
  /\ UNCHANGED <<counted, procVars, faults>> /\ KeepsLocals

-----------------------------------------------------------------------------
\* start and the second half of restart.

CanRun == IF platform = "launchd" THEN unit \/ Active ELSE job # "absent"

Run ==
  /\ At("run") /\ CanRun
  /\ Request
  /\ Advance
  /\ UNCHANGED <<unit, counted, procVars, faults>> /\ KeepsLocals

\* sys.exit(1): the end of the command, of update too.
RunFails ==
  /\ At("run") /\ ~CanRun /\ Goto("idle")
  /\ KeepsWorld /\ KeepsLocals /\ UNCHANGED faults

\* _wait_for_fresh_status
ReadMainPid ==
  /\ At("pid") /\ MainPid # 0
  /\ seen' = MainPid /\ Advance
  /\ KeepsWorld
  /\ UNCHANGED <<was, gone, baseline, since, toldVars, faults>>

ComparePid ==
  /\ At("compare") /\ platform # "windows"
  /\ IF status = seen THEN Told(seen, "pid") /\ Advance
     ELSE UNCHANGED toldVars /\ Goto("pid")
  /\ KeepsWorld
  /\ UNCHANGED <<localVars, since, faults>>

\* _win_wait_for_fresh_status
CompareBaseline ==
  /\ At("compare") /\ platform = "windows"
  /\ status # 0 /\ status # baseline
  /\ Told(status, "baseline") /\ Advance
  /\ KeepsWorld
  /\ UNCHANGED <<localVars, since, faults>>

\* Defect: a restart waits for a fresh status as long as it takes.
StatusTimesOut_Never ==
  /\ At("compare") /\ status = seen /\ Return
  /\ KeepsWorld /\ KeepsLocals /\ UNCHANGED faults

StatusTimesOut ==
  /\ (At("pid") \/ At("compare")) /\ Return
  /\ KeepsWorld /\ KeepsLocals /\ UNCHANGED faults

-----------------------------------------------------------------------------
CommandStep ==
  \/ Look \/ ReadData \/ Speak \/ Package
  \/ WriteUnit \/ DaemonReloadFails \/ Enable \/ EnableFails
  \/ ReadBaseline \/ End \/ SystemctlReturns
  \/ WaitSees \/ WaitTimesOut \/ QueryFails \/ Reset \/ Unlink
  \/ Run \/ RunFails \/ ReadMainPid \/ ComparePid \/ CompareBaseline \/ StatusTimesOut

SidecarStep == LoadConfig \/ Publish \/ Paint \/ Exit \/ Crash
ManagerStep == Launch \/ TriggerFires \/ Notice

Next ==
  \/ CommandStep \/ SidecarStep \/ ManagerStep
  \/ EditConfig \/ Interrupt
  \/ \E v \in Verbs : Begin(v)

\* A manager relaunches and reaps, a process works and exits when told, and a
\* command's calls return.
Fairness ==
  /\ WF_vars(CommandStep) /\ WF_vars(StatusTimesOut)
  /\ WF_vars(Launch) /\ WF_vars(Notice)
  /\ WF_vars(LoadConfig) /\ WF_vars(Publish) /\ WF_vars(Exit)

Spec == Init /\ [][Next]_vars /\ Fairness

-----------------------------------------------------------------------------
\* Properties

\* What the user may rely on as the service's pid under a manager that knows the
\* sidecar's (systemd, launchd): status's answer, and a restart's report when the
\* old process was seen to be gone.  After a wait that timed out launchd's restart
\* says that the service is running, not that it was restarted.
Claim == IF evidence = "pid" /\ (verb = "status" \/ gone = "seen") THEN told ELSE 0

Contract == INSTANCE Supervised WITH
  alive <- proc, newest <- newest, since <- since, told <- Claim

\* One sidecar at a time under each manager; and where pids are compared, nobody
\* is told of one that has had its day: neither status nor a restart takes the
\* last status of the old process for the new one's (service.py,
\* _wait_for_fresh_status; cli.py's status).
Supervises == Contract!SupervisedSpec

\* Once the old task was seen to have stopped, what _win_wait_for_fresh_status
\* accepts is the new process's write: "any pid the new process reports afterward
\* is necessarily a NEW process's write, never the terminated one's"
\* (service.py:893-897).
FreshIsNew == evidence = "baseline" /\ gone = "seen" => told > since

\* A reset of the deck is tried only when no sidecar runs: stop must not race a
\* process that is still shutting down for the device (service.py,
\* _reset_deck_best_effort).  Under Task Scheduler the trigger may start one in
\* between.
ResetAlone ==
  [][(clearing = "no" /\ clearing' # "no" /\ platform # "windows") => proc = 0]_vars

\* A stop that was seen to end the sidecar has tried to blank the screen, and a
\* blanking that worked lasts: the process that was stopped, killed or not, is
\* gone and paints no more.  Only a process that the task's trigger started since
\* does (_systemd_stop, _launchd_stop, _win_stop).  A task that is no longer
\* registered is taken to be stopped whatever its process does.
StoppedBlank ==
  verb = "stop" /\ pc = "idle" /\ gone = "seen" =>
    /\ clearing # "no"
    /\ clearing = "done" /\ painted =>
         newest > since \/ (platform = "windows" /\ job = "absent")
    /\ platform # "windows" => proc = 0

\* An update that found the service running ends with a service that is to run,
\* whatever of it failed in between, if the old process was seen to go and the
\* unit is still there (cli.py, the finally of update).
UpdateBringsBack ==
  [][(verb = "update" /\ was /\ gone = "seen" /\ unit /\ pc # "idle" /\ pc' = "idle" /\ gone' = gone)
       => job' = "wanted"]_vars

\* Every command ends: each wait for a manager or a process is bounded.
CommandsEnd == pc # "idle" ~> pc = "idle"

\* A restart that saw the old process go is followed by a new one that publishes
\* its status, unless its configuration is bad or a later command intervenes;
\* the manager must not drop the request as one for a job it still has.
RestartServes ==
  (verb = "restart" /\ pc \in {"pid", "compare"} /\ gone = "seen")
    ~> \/ proc # 0 /\ ~doomed /\ status = proc
       \/ gone # "seen" \/ ~valid \/ newest = MaxLaunches
=============================================================================
