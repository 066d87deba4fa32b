------------------------ MODULE ServiceControlProofs ------------------------
(***************************************************************************)
(* What service control guarantees for any number of launches, commands   *)
(* and faults: one sidecar at a time; under systemd and launchd nobody is  *)
(* told of a process that has had its day, and a reset of the deck meets   *)
(* no sidecar; and what a stop has blanked only a later process paints.    *)
(* The inductive invariant says where a command may be in its function,    *)
(* and what it knows there of the process it asked to go.                  *)
(***************************************************************************)
EXTENDS ServiceControl, TLAPS

\* The steps of a service_* function, and those between asking the sidecar to
\* go and asking for a new one.
Prog(o) == DOMAIN Program(o) \ {"first"}
OwnSteps == {"idle", "look", "data", "speak", "package"}
AfterEnd == {"gone", "wait", "reset", "again", "unlink"}

\* What the functions have in common.
ProgramOK(o) ==
  /\ First(o) \in Prog(o) \cap {"write", "end", "baseline", "run"}
  /\ o = "restart" => First(o) # "run"
  /\ Prog(o) \subseteq StepsOf(platform) \ OwnSteps
  /\ \A s \in Prog(o) : LET next == Program(o)[s] IN
       /\ next \in Prog(o) \cup {"return"}
       /\ next \in AfterEnd => s = "end" \/ s \in AfterEnd
       /\ next = "compare" /\ platform # "windows" => s = "pid"
       /\ s = "pid" => next = "compare"
       /\ s = "compare" => next = "return"
       /\ s = "compare" /\ platform # "windows" => "pid" \in Prog(o)
       /\ s = "reset" /\ platform = "systemd" => o # "restart"
       /\ s = "unlink" => o = "uninstall"
       /\ s = "write" => o = "install"
       /\ s = "run" => o = "start" \/ (o = "restart" /\ platform # "systemd")
       /\ o = "restart" /\ next = "return" => s = "compare"
       /\ next = "gone" => s = "end"
       /\ next \in {"pid", "compare"} => s \in {"gone", "run", "pid"} /\ o = "restart"
       /\ next \in {"pid", "compare"} /\ s = "gone" => platform = "systemd"
       /\ o = "restart" /\ next \in {"reset", "again", "run"} => s \in {"wait", "reset", "again"}
       /\ s \in {"pid", "compare"} => o = "restart"
       /\ o = "stop" => s \in {"end"} \cup AfterEnd /\ (next = "return" <=> s = "reset")

-----------------------------------------------------------------------------
LEMMA SystemdPrograms ==
  ASSUME platform = "systemd", NEW o \in Ops
  PROVE  ProgramOK(o)
<1> USE DEF ProgramOK, First, Prog, Program, StepsOf, Steps, OwnSteps, AfterEnd, Ops
<1>1. CASE o = "install"
  BY <1>1 DEF SystemdInstall
<1>2. CASE o = "uninstall"
  BY <1>2 DEF SystemdUninstall
<1>3. CASE o = "start"
  BY <1>3 DEF SystemdStart
<1>4. CASE o = "stop"
  BY <1>4 DEF SystemdStop
<1>5. CASE o = "restart"
  BY <1>5 DEF SystemdRestart
<1>6. QED
  BY <1>1, <1>2, <1>3, <1>4, <1>5

LEMMA LaunchdPrograms ==
  ASSUME platform = "launchd", NEW o \in Ops
  PROVE  ProgramOK(o)
<1> USE DEF ProgramOK, First, Prog, Program, StepsOf, Steps, OwnSteps, AfterEnd, Ops
<1>1. CASE o = "install"
  BY <1>1 DEF LaunchdInstall
<1>2. CASE o = "uninstall"
  BY <1>2 DEF LaunchdUninstall
<1>3. CASE o = "start"
  BY <1>3 DEF LaunchdStart
<1>4. CASE o = "stop"
  BY <1>4 DEF LaunchdStop
<1>5. CASE o = "restart"
  BY <1>5 DEF LaunchdRestart
<1>6. QED
  BY <1>1, <1>2, <1>3, <1>4, <1>5

LEMMA WinPrograms ==
  ASSUME platform = "windows", NEW o \in Ops
  PROVE  ProgramOK(o)
<1> USE DEF ProgramOK, First, Prog, Program, StepsOf, Steps, OwnSteps, AfterEnd, Ops
<1>1. CASE o = "install"
  BY <1>1 DEF WinInstall
<1>2. CASE o = "uninstall"
  BY <1>2 DEF WinUninstall
<1>3. CASE o = "start"
  BY <1>3 DEF WinStart
<1>4. CASE o = "stop"
  BY <1>4 DEF WinStop
<1>5. CASE o = "restart"
  BY <1>5 DEF WinRestart
<1>6. QED
  BY <1>1, <1>2, <1>3, <1>4, <1>5

LEMMA Programs ==
  ASSUME platform \in Managers
  PROVE  \A o \in Ops : ProgramOK(o)
BY SystemdPrograms, LaunchdPrograms, WinPrograms DEF Managers

\* The manager does not change, and so the functions do not.
LEMMA ProgramsKept ==
  ASSUME platform' = platform
  PROVE  \A o : Program(o)' = Program(o) /\ Prog(o)' = Prog(o)
BY DEF Prog, Program

\* Where a command may be.
Shape ==
  \/ pc = "idle"
  \/ verb = "status" /\ op = verb /\ pc \in {"look", "data", "speak"}
  \/ verb = "update" /\ op = verb /\ pc = "look"
  \/ verb = "update" /\ pc = "package"
  \/ op \in Ops /\ verb \in {op, "update"} /\ pc \in Prog(op)

LEMMA InFunction ==
  ASSUME platform \in Managers, Shape, pc \notin OwnSteps
  PROVE  op \in Ops /\ verb \in {op, "update"} /\ pc \in Prog(op) /\ ProgramOK(op)
BY Programs DEF Shape, OwnSteps

\* What a function's step leads to.
LEMMA Entered ==
  ASSUME platform \in Managers, platform' = platform, verb = "update",
         NEW o \in Ops, Enter(o)
  PROVE  /\ Shape' /\ verb' = verb /\ op' = o
         /\ pc' \in StepsOf(platform) \ (OwnSteps \cup AfterEnd \cup {"compare"})
<1>1. ProgramOK(o) /\ verb' = verb /\ op' = o /\ pc' = First(o)
  BY Programs DEF Enter
<1>2. pc' \in Prog(o)'
  BY <1>1, ProgramsKept DEF ProgramOK
<1>3. pc' \in Prog(o) /\ pc' \in {"write", "end", "baseline", "run"}
  BY <1>1 DEF ProgramOK
<1>4. pc' \in StepsOf(platform) \ (OwnSteps \cup AfterEnd \cup {"compare"})
  BY <1>1, <1>3 DEF ProgramOK, AfterEnd
<1>5. Shape'
  BY <1>1, <1>2 DEF Shape
<1>6. QED
  BY <1>1, <1>4, <1>5

Control ==
  /\ Shape' /\ verb' = verb /\ op' \in Verbs /\ pc' \in StepsOf(platform)
  /\ pc' \in AfterEnd => op' = op /\ (pc = "end" \/ pc \in AfterEnd)
  /\ pc' = "compare" /\ platform # "windows" => pc = "pid"
  /\ pc = "pid" => pc' \in {"compare", "idle"}
  /\ pc = "compare" => pc' \in {"idle", "pid"}
  /\ pc' = "idle" /\ verb = "stop" => pc = "reset"

LEMMA Returned ==
  ASSUME platform \in Managers, platform' = platform, op \in Ops, verb \in {op, "update"},
         Return
  PROVE  /\ Shape' /\ verb' = verb /\ op' \in Verbs
         /\ pc' \in StepsOf(platform) \ (AfterEnd \cup {"compare"})
         /\ (op = "restart" => pc' = "idle")
<1>1. CASE verb = "update" /\ op = "stop"
  BY <1>1 DEF Return, Goto, Shape, Verbs, StepsOf, Steps, AfterEnd
<1>2. CASE verb = "update" /\ op = "install"
  <2>1. Enter("restart")
    BY <1>2 DEF Return
  <2>2. "restart" \in Ops /\ "restart" \in Verbs
    BY DEF Ops, Verbs
  <2>3. QED
    BY <1>2, <2>1, <2>2, Entered
<1>3. CASE ~(verb = "update" /\ op = "stop") /\ ~(verb = "update" /\ op = "install")
  BY <1>3 DEF Return, Goto, Shape, Verbs, StepsOf, Steps, AfterEnd
<1>4. QED
  BY <1>1, <1>2, <1>3

LEMMA Advanced ==
  ASSUME platform \in Managers, platform' = platform, Shape, pc \notin OwnSteps, Advance
  PROVE  Control /\ (pc = "compare" => pc' = "idle")
<1>1. op \in Ops /\ verb \in {op, "update"} /\ pc \in Prog(op) /\ ProgramOK(op)
  BY InFunction
<1>2. CASE Program(op)[pc] = "return"
  <2>1. Return
    BY <1>2 DEF Advance
  <2>2. pc = "compare" \/ pc = "pid" => op = "restart"
    BY <1>1 DEF ProgramOK
  <2>3. verb = "stop" => op = "stop"
    BY <1>1
  <2>4. op = "stop" => pc = "reset"
    BY <1>1, <1>2 DEF ProgramOK
  <2>5. QED
    BY <1>1, <2>1, <2>2, <2>3, <2>4, Returned DEF Control
<1>3. CASE Program(op)[pc] # "return"
  <2>1. pc' = Program(op)[pc] /\ verb' = verb /\ op' = op /\ pc' \in Prog(op)
    BY <1>1, <1>3 DEF Advance, Goto, ProgramOK
  <2>2. Shape'
    BY <1>1, <2>1, ProgramsKept DEF Shape
  <2>3. pc' \in StepsOf(platform) \ OwnSteps
    BY <1>1, <2>1 DEF ProgramOK
  <2>4. pc' \in AfterEnd => pc = "end" \/ pc \in AfterEnd
    BY <1>1, <2>1 DEF ProgramOK
  <2>5. /\ pc' = "compare" /\ platform # "windows" => pc = "pid"
        /\ pc = "pid" => pc' = "compare"
        /\ pc # "compare"
    BY <1>1, <1>3, <2>1 DEF ProgramOK
  <2>6. op' \in Verbs /\ pc' # "idle"
    BY <1>1, <2>1, <2>3 DEF Verbs, OwnSteps
  <2>7. QED
    BY <2>1, <2>2, <2>3, <2>4, <2>5, <2>6 DEF Control
<1>4. QED
  BY <1>2, <1>3

\* The rest of status and update is theirs alone.
LEMMA InOwn ==
  ASSUME platform \in Managers, Shape, pc \in OwnSteps, pc # "idle"
  PROVE  /\ verb \in {"status", "update"}
         /\ pc = "package" \/ op = verb
         /\ verb = "status" => pc \in {"look", "data", "speak"}
         /\ verb = "update" => pc \in {"look", "package"}
BY Programs DEF Shape, ProgramOK

\* A step ends its command early.
LEMMA Ends ==
  ASSUME ServiceTypeOK, Goto("idle"), pc # "idle", verb # "stop", pc # "pid"
  PROVE  Control
BY DEF Goto, Control, Shape, ServiceTypeOK, StepsOf, Steps, AfterEnd

\* Where a step of a command leads.
LEMMA Controlled ==
  ASSUME ServiceTypeOK, Shape, CommandStep, platform \in Managers, platform' = platform
  PROVE  Control /\ pc # "idle"
<1> USE DEF At
<1>1. ASSUME pc \notin OwnSteps, pc # "idle", Advance PROVE Control /\ pc # "idle"
  BY <1>1, Advanced
<1>2. ASSUME Look PROVE Control /\ pc # "idle"
  <2>1. pc = "look" /\ verb \in {"status", "update"} /\ op = verb
    BY <1>2, InOwn DEF Look, OwnSteps
  <2>2. ASSUME Goto("idle") PROVE Control
    BY <2>1, <2>2, Ends
  <2>3. ASSUME Goto("data"), verb = "status" PROVE Control
    BY <2>1, <2>3 DEF Goto, Control, Shape, ServiceTypeOK, StepsOf, Steps, AfterEnd
  <2>4. ASSUME Goto("package"), verb = "update" PROVE Control
    BY <2>1, <2>4 DEF Goto, Control, Shape, ServiceTypeOK, StepsOf, Steps, AfterEnd
  <2>5. ASSUME Enter("stop"), verb = "update" PROVE Control
    BY <2>1, <2>5, Entered DEF Control, Ops, Verbs
  <2>6. QED
    BY <1>2, <2>1, <2>2, <2>3, <2>4, <2>5 DEF Look
<1>3. ASSUME ReadData PROVE Control /\ pc # "idle"
  <2>1. pc = "data" /\ verb = "status" /\ op = verb
    BY <1>3, InOwn DEF ReadData, OwnSteps
  <2>2. ASSUME Goto("idle") PROVE Control
    BY <2>1, <2>2, Ends
  <2>3. ASSUME Goto("speak") PROVE Control
    BY <2>1, <2>3 DEF Goto, Control, Shape, ServiceTypeOK, StepsOf, Steps, AfterEnd
  <2>4. QED
    BY <1>3, <2>1, <2>2, <2>3 DEF ReadData
<1>4. ASSUME Speak PROVE Control /\ pc # "idle"
  <2>1. pc = "speak" /\ verb = "status" /\ Goto("idle")
    BY <1>4, InOwn DEF Speak, OwnSteps
  <2>2. QED
    BY <2>1, Ends
<1>5. ASSUME Package PROVE Control /\ pc # "idle"
  <2>1. pc = "package" /\ verb = "update"
    BY <1>5, InOwn DEF Package, OwnSteps
  <2>2. ASSUME Goto("idle") PROVE Control
    BY <2>1, <2>2, Ends
  <2>3. ASSUME NEW o \in {"install", "restart"}, Enter(o) PROVE Control
    BY <2>1, <2>3, Entered DEF Control, Ops, Verbs
  <2>4. QED
    BY <1>5, <2>1, <2>2, <2>3 DEF Package
<1>6. ASSUME SystemctlReturns PROVE Control /\ pc # "idle"
  <2>1. ASSUME op = "restart", Goto("idle") PROVE Control
    BY <1>6, <2>1, InFunction, Ends DEF SystemctlReturns, OwnSteps
  <2>2. QED
    BY <1>1, <1>6, <2>1 DEF SystemctlReturns, OwnSteps
<1>7. ASSUME RunFails PROVE Control /\ pc # "idle"
  <2>1. verb # "stop"
    BY <1>7, InFunction DEF RunFails, OwnSteps, ProgramOK, AfterEnd
  <2>2. QED
    BY <1>7, <2>1, Ends DEF RunFails
<1>8. ASSUME ComparePid PROVE Control /\ pc # "idle"
  <2>1. ASSUME Goto("pid") PROVE Control
    <3>1. op \in Ops /\ verb \in {op, "update"} /\ "pid" \in Prog(op) /\ op = "restart"
      BY <1>8, InFunction DEF ComparePid, OwnSteps, ProgramOK
    <3>2. "pid" \in StepsOf(platform)
      BY <1>8 DEF ComparePid, StepsOf, Managers
    <3>3. Shape' /\ verb' = verb /\ op' = op /\ pc' = "pid"
      BY <2>1, <3>1, ProgramsKept DEF Goto, Shape
    <3>4. QED
      BY <1>8, <3>1, <3>2, <3>3 DEF ComparePid, Control, Verbs, AfterEnd
  <2>2. QED
    BY <1>1, <1>8, <2>1 DEF ComparePid, OwnSteps
<1>9. ASSUME StatusTimesOut PROVE Control /\ pc # "idle"
  <2>1. pc \in {"pid", "compare"} /\ Return /\ op = "restart" /\ op \in Ops /\ verb \in {op, "update"}
    BY <1>9, InFunction DEF StatusTimesOut, OwnSteps, ProgramOK
  <2>2. QED
    BY <2>1, Returned DEF Control
<1>10. ASSUME DaemonReloadFails PROVE Control /\ pc # "idle"
  <2>1. pc \in {"write", "unlink"} /\ Return /\ op \in Ops /\ verb \in {op, "update"} /\ op # "stop"
    BY <1>10, InFunction DEF DaemonReloadFails, OwnSteps, ProgramOK, AfterEnd
  <2>2. QED
    BY <2>1, Returned DEF Control, Ops
<1>11. QED
  BY <1>1, <1>2, <1>3, <1>4, <1>5, <1>6, <1>7, <1>8, <1>9, <1>10
     DEF CommandStep, WriteUnit, Enable, EnableFails, ReadBaseline, End, WaitSees, WaitTimesOut,
         QueryFails, Waiting, Reset, Unlink, Run, ReadMainPid, CompareBaseline, OwnSteps

-----------------------------------------------------------------------------
\* What is known of the process, for as long as it is the newest.
ProcessKnown ==
  /\ proc = 0 => ~ready /\ ~doomed
  /\ proc # 0 /\ ~doomed => proc > since
  /\ baseline <= status

ToldAtEnd == told # 0 => pc = "idle"

\* What a command knows of the process it asked to go; Task Scheduler's trigger
\* and lagging count leave less to know.
EndKnown ==
  platform # "windows" =>
    /\ gone # "assumed"
    /\ gone = "seen" => ~doomed
    /\ job # "wanted" => proc = 0 \/ doomed
    /\ pc \in AfterEnd /\ ~(platform = "systemd" /\ op = "restart") => job # "wanted"
    /\ pc = "compare" /\ gone = "seen" => seen > since
    /\ verb = "stop" /\ pc = "idle" /\ gone = "seen" => job # "wanted"

\* What a stop knows, under every manager: that the process it saw go is not
\* dying still, so that whoever paints the deck again was started since.
ScreenKnown ==
  /\ proc # 0 /\ platform = "windows" => counted
  /\ verb = "stop" /\ pc \in {"gone", "wait", "again"} => clearing = "no"
  /\ verb = "stop" /\ gone = "seen" =>
       /\ (platform = "windows" => job # "absent") =>
            ~doomed /\ (clearing = "done" /\ painted => newest > since)
       /\ pc = "idle" => clearing # "no"

ServiceInv ==
  ServiceTypeOK /\ Shape /\ ProcessKnown /\ ToldAtEnd /\ EndKnown /\ ScreenKnown

LEMMA ServiceInit == Init => ServiceInv
<1> SUFFICES ASSUME Init PROVE ServiceInv
  OBVIOUS
<1>1. ServiceTypeOK
  <2>1. /\ newest \in {0, 1} /\ proc = 0 /\ status \in 0 .. newest /\ since = newest
        /\ 0 \in 0 .. newest /\ newest \in 0 .. MaxLaunches
    BY ServiceAssumption DEF Init
  <2>2. "status" \in Verbs /\ "idle" \in StepsOf(platform)
    BY DEF Verbs, StepsOf, Steps
  <2>3. /\ unit \in BOOLEAN /\ counted \in BOOLEAN /\ ready \in BOOLEAN /\ doomed \in BOOLEAN
        /\ painted \in BOOLEAN /\ valid \in BOOLEAN /\ was \in BOOLEAN
    BY Zenon DEF Init
  <2>4. commands \in 0 .. MaxCommands /\ faults \in 0 .. MaxFaults /\ platform \in Platforms
        /\ job \in {"absent", "idle", "wanted"} /\ gone = "no" /\ evidence = "none"
    BY ServiceAssumption DEF Init
  <2>5. QED
    BY <2>1, <2>2, <2>3, <2>4 DEF Init, ServiceTypeOK, Pid
<1>2. Shape /\ ProcessKnown /\ ToldAtEnd /\ EndKnown /\ ScreenKnown
  BY ServiceAssumption DEF Init, Shape, ProcessKnown, ToldAtEnd, EndKnown, ScreenKnown, AfterEnd
<1>3. QED
  BY <1>1, <1>2 DEF ServiceInv

\* Steps outside a command leave it where it is.
Outside == SidecarStep \/ ManagerStep \/ EditConfig

LEMMA OutsideKeeps ==
  ASSUME Outside
  PROVE  UNCHANGED <<cmdVars, platform, commands>>
BY DEF Outside, SidecarStep, ManagerStep, LoadConfig, Publish, Paint, Exit, Crash, Launch,
       TriggerFires, Notice, EditConfig, Fault

LEMMA CommandKeeps ==
  ASSUME CommandStep
  PROVE  UNCHANGED <<platform, newest, status, valid, commands>>
BY DEF CommandStep, Look, ReadData, Speak, Package, WriteUnit, DaemonReloadFails, Enable,
       EnableFails, ReadBaseline, End, SystemctlReturns, WaitSees, WaitTimesOut, QueryFails, Waiting, Reset, Unlink, Run,
       RunFails, ReadMainPid, ComparePid, CompareBaseline, StatusTimesOut, At

\* Types and places.
LEMMA ShapeStep ==
  ASSUME ServiceInv, [Next]_vars
  PROVE  Shape' /\ platform' = platform
<1>1. platform \in Managers
  BY ServiceAssumption DEF ServiceInv, ServiceTypeOK
<1>2. ASSUME UNCHANGED <<platform, pc, verb, op>> PROVE Shape'
  BY <1>2, ProgramsKept DEF ServiceInv, Shape
<1>3. CASE Outside \/ UNCHANGED vars
  <2>1. UNCHANGED <<platform, pc, verb, op>>
    BY <1>3, OutsideKeeps DEF vars, worldVars, cmdVars
  <2>2. QED
    BY <1>2, <2>1
<1>4. CASE CommandStep
  BY <1>1, <1>4, CommandKeeps, Controlled DEF ServiceInv, Control
<1>5. ASSUME NEW v \in Verbs, Begin(v) PROVE Shape' /\ platform' = platform
  <2>1. platform' = platform /\ verb' = v /\ op' = v /\ pc' = First(v)
    BY <1>5 DEF Begin, worldVars
  <2>2. v \in Ops => pc' \in Prog(v)'
    BY <1>1, <2>1, Programs, ProgramsKept DEF ProgramOK
  <2>3. QED
    BY <2>1, <2>2 DEF Shape, First, Verbs
<1>6. CASE Interrupt
  <2>1. platform' = platform
    BY <1>6 DEF Interrupt, worldVars
  <2>2. ASSUME Goto("idle") PROVE Shape'
    BY <2>2 DEF Goto, Shape
  <2>3. ASSUME verb = "update", Enter("restart") PROVE Shape'
    BY <1>1, <2>1, <2>3, Entered DEF Ops
  <2>4. QED
    BY <1>6, <2>1, <2>2, <2>3 DEF Interrupt
<1>7. QED
  BY <1>3, <1>4, <1>5, <1>6 DEF Next, Outside

LEMMA TypeStep ==
  ASSUME ServiceInv, [Next]_vars
  PROVE  ServiceTypeOK'
<1> USE ServiceAssumption
<1>1. ServiceTypeOK /\ Shape /\ platform \in Managers
  BY DEF ServiceInv, ServiceTypeOK
<1>2. CASE UNCHANGED vars
  BY <1>1, <1>2 DEF vars, worldVars, managerVars, procVars, cmdVars, localVars, toldVars,
                    ServiceTypeOK, StepsOf
<1>3. CASE Outside
  <2>1. UNCHANGED <<cmdVars, platform, commands>>
    BY <1>3, OutsideKeeps
  <2>2. /\ newest' \in Pid /\ newest <= newest' /\ proc' \in {0, newest'} /\ status' \in 0 .. newest'
        /\ job' \in {"absent", "idle", "wanted"} /\ faults' \in 0 .. MaxFaults
    <3> USE DEF ServiceTypeOK, Pid, managerVars, procVars, Leave, Fault
    <3>1. CASE LoadConfig \/ Publish \/ Paint \/ Exit \/ Crash \/ EditConfig
      BY <1>1, <3>1 DEF LoadConfig, Publish, Paint, Exit, Crash, EditConfig
    <3>2. CASE Launch \/ TriggerFires \/ Notice
      BY <1>1, <3>2 DEF Launch, TriggerFires, Notice
    <3>3. QED
      BY <1>3, <3>1, <3>2 DEF Outside, SidecarStep, ManagerStep
  <2>3. /\ unit' \in BOOLEAN /\ counted' \in BOOLEAN /\ ready' \in BOOLEAN /\ doomed' \in BOOLEAN
        /\ painted' \in BOOLEAN /\ valid' \in BOOLEAN
    BY <1>1, <1>3, Zenon DEF Outside, SidecarStep, ManagerStep, LoadConfig, Publish, Paint, Exit,
       Crash, EditConfig, Launch, TriggerFires, Notice, ServiceTypeOK, managerVars, procVars, Leave
  <2>4. QED
    BY <1>1, <2>1, <2>2, <2>3 DEF ServiceTypeOK, cmdVars, localVars, toldVars, StepsOf, Pid
<1>4. CASE CommandStep
  <2>1. UNCHANGED <<platform, newest, status, valid, commands>>
    BY <1>4, CommandKeeps
  <2>2. verb' \in Verbs /\ op' \in Verbs /\ pc' \in StepsOf(platform)
    BY <1>1, <1>4, <2>1, Controlled DEF Control, ServiceTypeOK
  <2>3. /\ unit' \in BOOLEAN /\ counted' \in BOOLEAN /\ ready' \in BOOLEAN /\ doomed' \in BOOLEAN
        /\ painted' \in BOOLEAN /\ was' \in BOOLEAN
    <3> USE Zenon DEF ServiceTypeOK, managerVars, procVars, localVars, KeepsWorld, KeepsLocals
    <3>1. Active \in BOOLEAN
      BY <1>1 DEF Active, Managers
    <3>2. CASE Look \/ ReadData \/ Speak \/ Package
      BY <1>1, <3>1, <3>2 DEF Look, ReadData, Speak, Package
    <3>3. CASE WriteUnit \/ DaemonReloadFails \/ Enable \/ EnableFails \/ ReadBaseline \/ End
      BY <1>1, <3>3 DEF WriteUnit, DaemonReloadFails, Enable, EnableFails, ReadBaseline, End
    <3>4. CASE SystemctlReturns \/ WaitSees \/ WaitTimesOut \/ QueryFails \/ Reset \/ Unlink
      BY <1>1, <3>4 DEF SystemctlReturns, WaitSees, WaitTimesOut, QueryFails, Waiting, Reset, Unlink
    <3>5. CASE Run \/ RunFails \/ ReadMainPid \/ ComparePid \/ CompareBaseline \/ StatusTimesOut
      BY <1>1, <3>5 DEF Run, RunFails, ReadMainPid, ComparePid, CompareBaseline, StatusTimesOut
    <3>6. QED
      BY <1>4, <3>2, <3>3, <3>4, <3>5 DEF CommandStep
  <2>4. proc' = proc /\ since' \in {since, newest} /\ gone' \in {"no", "seen", "assumed"}
    BY <1>1, <1>4 DEF CommandStep, Look, ReadData, Speak, Package, WriteUnit, DaemonReloadFails, Enable,
       EnableFails, ReadBaseline, End, SystemctlReturns, WaitSees, WaitTimesOut, QueryFails,
       Waiting, Reset, Unlink, Run, RunFails, ReadMainPid, ComparePid, CompareBaseline,
       StatusTimesOut, ServiceTypeOK, managerVars, procVars, localVars, KeepsWorld, KeepsLocals
  <2>5. /\ baseline' \in {baseline, status} /\ seen' \in {seen, status, proc}
        /\ told' \in {told, seen, status} /\ evidence' \in {"none", "pid", "baseline", "age"}
        /\ clearing' \in {"no", "done", "failed"}
    BY <1>1, <1>4 DEF CommandStep, Look, ReadData, Speak, Package, WriteUnit, DaemonReloadFails, Enable,
       EnableFails, ReadBaseline, End, SystemctlReturns, WaitSees, WaitTimesOut, QueryFails,
       Waiting, Reset, Unlink, Run, RunFails, ReadMainPid, ComparePid, CompareBaseline,
       StatusTimesOut, ServiceTypeOK, localVars, toldVars, KeepsLocals, Told, MainPid
  <2>6. faults' \in 0 .. MaxFaults /\ job' \in {"absent", "idle", "wanted"}
    BY <1>1, <1>4 DEF CommandStep, Look, ReadData, Speak, Package, WriteUnit, DaemonReloadFails, Enable,
       EnableFails, ReadBaseline, End, SystemctlReturns, WaitSees, WaitTimesOut, QueryFails,
       Waiting, Reset, Unlink, Run, RunFails, ReadMainPid, ComparePid, CompareBaseline,
       StatusTimesOut, ServiceTypeOK, managerVars, KeepsWorld, Fault, Request
  <2>7. QED
    BY <1>1, <2>1, <2>2, <2>3, <2>4, <2>5, <2>6 DEF ServiceTypeOK, Pid, StepsOf
<1>5. ASSUME NEW v \in Verbs, Begin(v) PROVE ServiceTypeOK'
  <2>1. First(v) \in StepsOf(platform)
    BY <1>1, Programs DEF First, ProgramOK, StepsOf, Steps
  <2>2. was' \in BOOLEAN
    BY <1>5, Zenon DEF Begin
  <2>3. commands' \in 0 .. MaxCommands
    BY <1>1, <1>5 DEF Begin, ServiceTypeOK
  <2>4. QED
    BY <1>1, <1>5, <2>1, <2>2, <2>3 DEF Begin, ServiceTypeOK, worldVars, managerVars, procVars, Pid, StepsOf
<1>6. CASE Interrupt
  <2>1. verb' \in Verbs /\ op' \in Verbs /\ pc' \in StepsOf(platform)
    <3>1. ASSUME Goto("idle") PROVE verb' = verb /\ op' = op /\ pc' \in StepsOf(platform)
      BY <3>1 DEF Goto, StepsOf, Steps
    <3>2. ASSUME Enter("restart") PROVE verb' = verb /\ op' \in Verbs /\ pc' \in StepsOf(platform)
      BY <1>1, <3>2, Programs DEF Enter, ProgramOK, Ops, Verbs
    <3>3. QED
      BY <1>1, <1>6, <3>1, <3>2 DEF Interrupt, ServiceTypeOK
  <2>2. faults' \in 0 .. MaxFaults
    BY <1>1, <1>6 DEF Interrupt, Fault, ServiceTypeOK
  <2>3. QED
    BY <1>1, <1>6, <2>1, <2>2 DEF Interrupt, ServiceTypeOK, worldVars, managerVars, procVars, toldVars,
       Pid, StepsOf
<1>7. QED
  BY <1>2, <1>3, <1>4, <1>5, <1>6 DEF Next, Outside

\* What the steps of a command other than End leave alone.
LEMMA OthersKeep ==
  ASSUME CommandStep, ~End
  PROVE  UNCHANGED <<proc, ready, doomed, since>>
BY DEF CommandStep, Look, ReadData, Speak, Package, WriteUnit, DaemonReloadFails, Enable,
       EnableFails, ReadBaseline, SystemctlReturns, WaitSees, WaitTimesOut, QueryFails, Waiting, Reset, Unlink, Run,
       RunFails, ReadMainPid, ComparePid, CompareBaseline, StatusTimesOut, procVars,
       KeepsWorld, KeepsLocals

LEMMA BaselineSteps ==
  ASSUME CommandStep
  PROVE  baseline' \in {baseline, status}
BY DEF CommandStep, Look, ReadData, Speak, Package, WriteUnit, DaemonReloadFails, Enable,
       EnableFails, ReadBaseline, End, SystemctlReturns, WaitSees, WaitTimesOut, QueryFails, Waiting, Reset, Unlink, Run,
       RunFails, ReadMainPid, ComparePid, CompareBaseline, StatusTimesOut, localVars, KeepsLocals

LEMMA ProcessStep ==
  ASSUME ServiceInv, [Next]_vars
  PROVE  ProcessKnown'
<1> USE ServiceAssumption DEF ServiceInv, ServiceTypeOK, ProcessKnown
<1>1. CASE UNCHANGED vars
  BY <1>1 DEF vars, worldVars, procVars, cmdVars, localVars
<1>2. CASE Outside
  <2>1. since' = since /\ baseline' = baseline
    BY <1>2, OutsideKeeps DEF cmdVars, localVars
  <2> USE DEF Pid, procVars, Leave
  <2>2. CASE LoadConfig \/ Publish \/ Paint \/ Exit \/ Crash \/ EditConfig
    BY <2>1, <2>2 DEF LoadConfig, Publish, Paint, Exit, Crash, EditConfig
  <2>3. CASE Launch \/ TriggerFires \/ Notice
    BY <2>1, <2>3 DEF Launch, TriggerFires, Notice
  <2>4. QED
    BY <1>2, <2>2, <2>3 DEF Outside, SidecarStep, ManagerStep
<1>3. CASE CommandStep /\ ~End
  BY <1>3, OthersKeep, CommandKeeps, BaselineSteps
<1>4. CASE End
  BY <1>4 DEF End, At
<1>5. ASSUME NEW v \in Verbs, Begin(v) PROVE ProcessKnown'
  BY <1>5 DEF Begin, worldVars, procVars
<1>6. CASE Interrupt
  BY <1>6 DEF Interrupt, worldVars, procVars
<1>7. QED
  BY <1>1, <1>2, <1>3, <1>4, <1>5, <1>6 DEF Next, Outside

\* Only the last step of a command tells anything.
LEMMA ToldSteps ==
  ASSUME CommandStep, told' # told \/ evidence' # evidence
  PROVE  Speak \/ ComparePid \/ CompareBaseline
BY DEF CommandStep, Look, ReadData, Package, WriteUnit, DaemonReloadFails, Enable,
       EnableFails, ReadBaseline, End, SystemctlReturns, WaitSees, WaitTimesOut, QueryFails, Waiting, Reset, Unlink, Run,
       RunFails, ReadMainPid, StatusTimesOut, toldVars, KeepsLocals

LEMMA TellsLast ==
  ASSUME ServiceInv, CommandStep, told' # told \/ evidence' # evidence, platform' = platform
  PROVE  pc' = "idle"
<1>1. CASE Speak
  BY <1>1 DEF Speak, Goto
<1>2. CASE ComparePid \/ CompareBaseline
  <2>1. platform \in Managers /\ Shape
    BY ServiceAssumption DEF ServiceInv, ServiceTypeOK
  <2>2. pc = "compare" /\ Advance
    BY <1>2 DEF ComparePid, CompareBaseline, At, toldVars
  <2>3. QED
    BY <2>1, <2>2, Advanced DEF OwnSteps
<1>3. QED
  BY <1>1, <1>2, ToldSteps

LEMMA ToldStep ==
  ASSUME ServiceInv, [Next]_vars
  PROVE  ToldAtEnd'
<1> USE DEF ServiceInv, ToldAtEnd
<1>1. CASE Outside \/ UNCHANGED vars
  BY <1>1, OutsideKeeps DEF vars, cmdVars, toldVars
<1>2. CASE CommandStep
  <2>1. pc # "idle" /\ platform' = platform
    BY <1>2, Controlled, CommandKeeps, ServiceAssumption DEF ServiceTypeOK
  <2>2. QED
    BY <1>2, <2>1, TellsLast
<1>3. ASSUME NEW v \in Verbs, Begin(v) PROVE ToldAtEnd'
  BY <1>3 DEF Begin
<1>4. CASE Interrupt
  BY <1>4 DEF Interrupt, toldVars
<1>5. QED
  BY <1>1, <1>2, <1>3, <1>4 DEF Next, Outside

\* A command's step that neither ends the sidecar nor follows such a step.
LEMMA ElsewhereKnown ==
  ASSUME ServiceInv, platform # "windows", platform' = platform, Control, pc # "idle",
         pc \notin AfterEnd \cup {"end", "pid"},
         UNCHANGED <<gone, doomed, proc>>, job' # "wanted" => job # "wanted"
  PROVE  EndKnown'
BY DEF ServiceInv, EndKnown, Control, AfterEnd

LEMMA CommandEnds ==
  ASSUME ServiceInv, CommandStep, platform # "windows"
  PROVE  EndKnown'
<1> USE ServiceAssumption DEF At
<1>1. platform' = platform /\ platform \in Managers /\ Control /\ pc # "idle"
  BY CommandKeeps, Controlled DEF ServiceInv, ServiceTypeOK
<1>2. ServiceTypeOK /\ Shape /\ ProcessKnown /\ EndKnown
  BY DEF ServiceInv
<1>3. CASE Look \/ ReadData \/ Speak \/ Package
  <2>1. pc \in OwnSteps /\ UNCHANGED <<gone, doomed, proc, job>>
    BY <1>3 DEF Look, ReadData, Speak, Package, KeepsWorld, KeepsLocals, localVars, managerVars,
                procVars, OwnSteps
  <2>2. QED
    BY <1>1, <2>1, ElsewhereKnown DEF OwnSteps, AfterEnd
<1>4. CASE WriteUnit \/ (DaemonReloadFails /\ pc = "write") \/ Enable \/ EnableFails \/ ReadBaseline
           \/ Run \/ RunFails
  <2>1. /\ pc \in {"write", "enable", "baseline", "run"} /\ UNCHANGED <<gone, doomed, proc>>
        /\ job' # "wanted" => job # "wanted"
    BY <1>4 DEF WriteUnit, DaemonReloadFails, Enable, EnableFails, ReadBaseline, Run, RunFails, Request,
                KeepsWorld, KeepsLocals, localVars, managerVars, procVars
  <2>2. QED
    BY <1>1, <2>1, ElsewhereKnown DEF AfterEnd
<1>5. CASE ComparePid \/ CompareBaseline \/ (StatusTimesOut /\ pc = "compare")
  <2>1. pc = "compare" /\ UNCHANGED <<gone, doomed, proc, job>>
    BY <1>5 DEF ComparePid, CompareBaseline, StatusTimesOut, KeepsWorld, KeepsLocals, localVars,
                managerVars, procVars
  <2>2. QED
    BY <1>1, <2>1, ElsewhereKnown DEF AfterEnd
<1>6. CASE End
  <2>1. /\ gone' = "no" /\ proc' = proc /\ doomed' = (proc # 0)
        /\ ~(platform = "systemd" /\ op = "restart") => job' # "wanted"
    BY <1>6 DEF End
  <2>2. QED
    BY <1>1, <2>1 DEF EndKnown, Control
<1>7. CASE SystemctlReturns \/ WaitSees \/ WaitTimesOut \/ QueryFails
  <2>1. /\ pc \in {"gone", "wait", "again"} /\ UNCHANGED <<proc, doomed, job>>
        /\ gone' = "no" \/ (gone' = "seen" /\ ~doomed)
    BY <1>1, <1>2, <1>7 DEF SystemctlReturns, WaitSees, WaitTimesOut, QueryFails, Waiting, Active,
       KeepsWorld, managerVars, procVars, ServiceTypeOK, StepsOf, Steps, Managers
  <2>2. QED
    BY <1>1, <1>2, <2>1 DEF EndKnown, Control, AfterEnd
<1>8. CASE Reset
  <2>1. pc = "reset" /\ UNCHANGED <<gone, doomed, proc, job>>
    BY <1>8 DEF Reset, KeepsLocals, localVars, managerVars
  <2>2. verb = "stop" => op = "stop"
    BY <1>1, <1>2, <2>1, InFunction DEF OwnSteps
  <2>3. verb = "stop" => job # "wanted"
    BY <1>2, <2>1, <2>2 DEF EndKnown, AfterEnd
  <2>4. QED
    BY <1>1, <1>2, <2>1, <2>3 DEF EndKnown, Control, AfterEnd
<1>9. CASE Unlink \/ (DaemonReloadFails /\ pc = "unlink")
  <2>1. pc = "unlink" /\ UNCHANGED <<gone, doomed, proc>> /\ job' \in {job, "absent"}
    BY <1>9 DEF Unlink, DaemonReloadFails, KeepsLocals, localVars, procVars
  <2>2. op = "uninstall"
    BY <1>1, <1>2, <2>1, InFunction DEF OwnSteps, ProgramOK
  <2>3. QED
    BY <1>1, <1>2, <2>1, <2>2 DEF EndKnown, Control, AfterEnd, Ops
<1>10. CASE ReadMainPid
  <2>1. pc = "pid" /\ UNCHANGED <<gone, doomed, proc, job, since>> /\ seen' = proc /\ proc # 0
    BY <1>1, <1>10 DEF ReadMainPid, MainPid, KeepsWorld, managerVars, procVars
  <2>2. gone = "seen" => seen' > since
    BY <1>2, <2>1 DEF EndKnown, ProcessKnown
  <2>3. QED
    BY <1>1, <1>2, <2>1, <2>2 DEF EndKnown, Control, AfterEnd
<1>11. CASE StatusTimesOut /\ pc = "pid"
  <2>1. op = "restart" /\ op \in Ops /\ verb \in {op, "update"}
    BY <1>1, <1>2, <1>11, InFunction DEF OwnSteps, ProgramOK
  <2>2. pc' = "idle" /\ verb' = verb /\ UNCHANGED <<gone, doomed, proc, job>>
    BY <1>1, <1>11, <2>1, Returned DEF StatusTimesOut, KeepsWorld, KeepsLocals, localVars, managerVars,
                                   procVars
  <2>3. QED
    BY <1>1, <1>2, <2>1, <2>2 DEF EndKnown, AfterEnd
<1>12. QED
  BY <1>3, <1>4, <1>5, <1>6, <1>7, <1>8, <1>9, <1>10, <1>11
     DEF CommandStep, StatusTimesOut, DaemonReloadFails

LEMMA EndStep ==
  ASSUME ServiceInv, [Next]_vars
  PROVE  EndKnown'
<1>1. platform' = platform /\ platform \in Managers
  BY ShapeStep, ServiceAssumption DEF ServiceInv, ServiceTypeOK
<1>2. CASE platform = "windows"
  BY <1>1, <1>2 DEF EndKnown
<1>3. CASE platform # "windows"
  <2>1. ServiceTypeOK /\ ProcessKnown /\ EndKnown
    BY DEF ServiceInv
  <2>2. CASE UNCHANGED vars
    BY <1>3, <2>1, <2>2 DEF vars, worldVars, managerVars, procVars, cmdVars, localVars, EndKnown
  <2>3. CASE Outside
    <3>1. UNCHANGED <<pc, op, verb, gone, seen, since>>
      BY <2>3, OutsideKeeps DEF cmdVars, localVars
    <3> USE DEF managerVars, procVars, Leave
    <3>2. CASE Publish \/ EditConfig \/ TriggerFires \/ Notice
      BY <1>1, <1>3, <2>1, <3>1, <3>2 DEF Publish, EditConfig, TriggerFires, Notice, EndKnown
    <3>3. CASE LoadConfig \/ Exit \/ Crash
      BY <1>1, <1>3, <2>1, <3>1, <3>3 DEF LoadConfig, Exit, Crash, EndKnown
    <3>4. CASE Launch
      BY <1>1, <1>3, <2>1, <3>1, <3>4 DEF Launch, EndKnown
    <3>5. CASE Paint
      BY <1>1, <1>3, <2>1, <3>1, <3>5 DEF Paint, EndKnown, ProcessKnown
    <3>6. QED
      BY <2>3, <3>2, <3>3, <3>4, <3>5 DEF Outside, SidecarStep, ManagerStep
  <2>4. CASE CommandStep
    BY <1>3, <2>4, CommandEnds
  <2>5. ASSUME NEW v \in Verbs, Begin(v) PROVE EndKnown'
    <3>1. pc' \notin AfterEnd
      BY <1>1, <2>5, Programs DEF Begin, First, ProgramOK, AfterEnd
    <3>2. QED
      BY <1>1, <2>1, <2>5, <3>1 DEF Begin, EndKnown, worldVars, managerVars, procVars
  <2>6. CASE Interrupt
    <3>1. ASSUME Goto("idle") PROVE pc' \notin AfterEnd
      BY <3>1 DEF Goto, AfterEnd
    <3>2. ASSUME verb = "update", Enter("restart") PROVE pc' \notin AfterEnd
      BY <1>1, <3>2, Entered DEF Ops
    <3>3. pc' \notin AfterEnd
      BY <2>6, <3>1, <3>2 DEF Interrupt
    <3>4. QED
      BY <1>1, <2>1, <2>6, <3>3 DEF Interrupt, EndKnown, worldVars, managerVars, procVars
  <2>7. QED
    BY <2>2, <2>3, <2>4, <2>5, <2>6 DEF Next, Outside
<1>4. QED
  BY <1>2, <1>3

\* The steps of a stop.
LEMMA StopSteps ==
  ASSUME ServiceInv, CommandStep, verb' = "stop"
  PROVE  /\ End \/ SystemctlReturns \/ WaitSees \/ WaitTimesOut \/ QueryFails \/ Reset
         /\ verb = "stop" /\ op = "stop" /\ (pc' = "idle" => pc = "reset")
<1>1. platform \in Managers /\ platform' = platform /\ ServiceTypeOK /\ Shape
  BY CommandKeeps, ServiceAssumption DEF ServiceInv, ServiceTypeOK
<1>2. Control /\ pc # "idle"
  BY <1>1, Controlled
<1>3. verb = "stop" /\ op = "stop" /\ pc \in Prog(op) /\ (pc' = "idle" => pc = "reset")
  BY <1>1, <1>2 DEF Control, Shape
<1>4. pc \in {"end", "gone", "wait", "reset", "again"}
  BY <1>1, <1>3, Programs DEF ProgramOK, AfterEnd, Ops
<1>5. QED
  BY <1>3, <1>4 DEF CommandStep, Look, ReadData, Speak, Package, WriteUnit, DaemonReloadFails, Enable,
     EnableFails, ReadBaseline, Unlink, Run, RunFails, ReadMainPid, ComparePid, CompareBaseline,
     StatusTimesOut, At

LEMMA StopScreen ==
  ASSUME ServiceInv, CommandStep, verb' = "stop", gone' = "seen"
  PROVE  /\ (platform = "windows" => job' # "absent") =>
              ~doomed' /\ (clearing' = "done" /\ painted' => newest' > since')
         /\ pc' = "idle" => clearing' # "no"
<1> USE ServiceAssumption DEF At
<1>1. /\ platform \in Managers /\ ServiceTypeOK /\ Shape /\ ProcessKnown /\ EndKnown /\ ScreenKnown
      /\ ~End /\ UNCHANGED <<proc, doomed, since, newest>>
  <2>1. ~End
    BY DEF End
  <2>2. QED
    BY <2>1, OthersKeep, CommandKeeps DEF ServiceInv, ServiceTypeOK
<1>2. verb = "stop" /\ op = "stop" /\ (pc' = "idle" => pc = "reset")
  BY StopSteps
<1>3. CASE SystemctlReturns \/ WaitSees
  <2>1. /\ pc \in {"gone", "wait", "again"} /\ UNCHANGED <<job, clearing, painted>>
        /\ (~Active /\ platform # "systemd") \/ (~doomed /\ platform = "systemd")
    BY <1>1, <1>3 DEF SystemctlReturns, WaitSees, Waiting, KeepsWorld, managerVars, procVars, toldVars,
       ServiceTypeOK, StepsOf, Steps, Managers
  <2>2. clearing = "no"
    BY <1>1, <1>2, <2>1 DEF ScreenKnown
  <2>3. (platform = "windows" => job # "absent") => ~doomed
    BY <1>1, <2>1 DEF Active, ProcessKnown, ScreenKnown, ServiceTypeOK, StepsOf, Steps, Managers
  <2>4. QED
    BY <1>1, <1>2, <2>1, <2>2, <2>3
<1>4. CASE Reset
  <2>1. pc = "reset" /\ UNCHANGED <<job, gone>>
    BY <1>4 DEF Reset, managerVars, localVars
  <2>2. Resets
    <3>1. platform = "systemd" => proc = 0
      BY <1>1, <1>2, <2>1 DEF EndKnown, AfterEnd
    <3>2. QED
      BY <2>1, <3>1 DEF Resets, Active
  <2>3. clearing' = "failed" \/ (clearing' = "done" /\ ~painted')
    BY <1>4, <2>2 DEF Reset
  <2>4. QED
    BY <1>1, <1>2, <2>1, <2>3 DEF ScreenKnown
<1>5. QED
  BY <1>1, <1>3, <1>4, StopSteps DEF WaitTimesOut, QueryFails

\* A stop resets the deck last.
LEMMA StopWaits ==
  ASSUME ServiceInv, CommandStep, verb' = "stop", pc' \in {"gone", "wait", "again"}
  PROVE  clearing' = "no"
<1>1. verb = "stop" /\ op = "stop" /\ ScreenKnown /\ platform \in Managers /\ Shape
  BY StopSteps, ServiceAssumption DEF ServiceInv, ServiceTypeOK
<1>2. CASE End
  BY <1>2 DEF End
<1>3. CASE Reset
  <2>1. pc = "reset" /\ ProgramOK(op) /\ pc \in Prog(op)
    BY <1>1, <1>3, InFunction DEF Reset, At, OwnSteps
  <2>2. Return
    BY <1>1, <1>3, <2>1 DEF Reset, Advance, ProgramOK
  <2>3. QED
    BY <1>1, <2>2 DEF Return, Goto
<1>4. CASE SystemctlReturns \/ WaitSees \/ WaitTimesOut \/ QueryFails
  BY <1>1, <1>4 DEF SystemctlReturns, WaitSees, WaitTimesOut, QueryFails, Waiting, At, toldVars,
     ScreenKnown
<1>5. QED
  BY <1>2, <1>3, <1>4, StopSteps

\* Whoever paints a deck that a stop has blanked was started since.
LEMMA ScreenStep ==
  ASSUME ServiceInv, [Next]_vars
  PROVE  ScreenKnown'
<1> USE ServiceAssumption
<1>1. ServiceTypeOK /\ ProcessKnown /\ ScreenKnown /\ platform' = platform
  BY ShapeStep DEF ServiceInv
<1>2. CASE UNCHANGED vars
  BY <1>1, <1>2 DEF vars, worldVars, managerVars, procVars, cmdVars, localVars, toldVars, ScreenKnown
<1>3. CASE Outside
  <2>1. UNCHANGED <<verb, gone, pc, since, clearing>>
    BY <1>3, OutsideKeeps DEF cmdVars, localVars, toldVars
  <2> USE DEF ScreenKnown, ProcessKnown, ServiceTypeOK, Pid, managerVars, procVars, Leave
  <2>2. CASE LoadConfig \/ Exit \/ Crash
    BY <1>1, <2>1, <2>2 DEF LoadConfig, Exit, Crash
  <2>3. CASE Paint
    BY <1>1, <2>1, <2>3 DEF Paint
  <2>4. CASE Publish \/ EditConfig \/ TriggerFires
    BY <1>1, <2>1, <2>4 DEF Publish, EditConfig, TriggerFires
  <2>5. CASE Notice
    BY <1>1, <2>1, <2>5 DEF Notice
  <2>6. CASE Launch
    <3>1. platform = "windows" => counted'
      BY <2>6, Zenon DEF Launch
    <3>2. UNCHANGED <<job, doomed, painted>> /\ newest' = newest + 1
      BY <2>6 DEF Launch
    <3>3. QED
      BY <1>1, <2>1, <3>1, <3>2
  <2>7. QED
    BY <1>3, <2>2, <2>3, <2>4, <2>5, <2>6 DEF Outside, SidecarStep, ManagerStep
<1>4. CASE CommandStep
  <2>1. proc' = proc /\ counted' = counted
    BY <1>4 DEF CommandStep, Look, ReadData, Speak, Package, WriteUnit, DaemonReloadFails, Enable,
       EnableFails, ReadBaseline, End, SystemctlReturns, WaitSees, WaitTimesOut, QueryFails, Waiting,
       Reset, Unlink, Run, RunFails, ReadMainPid, ComparePid, CompareBaseline, StatusTimesOut,
       managerVars, procVars, KeepsWorld
  <2>2. verb' = "stop" /\ pc' \in {"gone", "wait", "again"} => clearing' = "no"
    BY <1>1, <1>4, StopWaits
  <2>3. QED
    BY <1>1, <1>4, <2>1, <2>2, StopScreen DEF ScreenKnown
<1>5. ASSUME NEW v \in Verbs, Begin(v) PROVE ScreenKnown'
  BY <1>1, <1>5 DEF Begin, ScreenKnown, worldVars, managerVars, procVars
<1>6. CASE Interrupt
  BY <1>1, <1>6 DEF Interrupt, Goto, Enter, ScreenKnown, worldVars, managerVars, procVars
<1>7. QED
  BY <1>2, <1>3, <1>4, <1>5, <1>6 DEF Next, Outside

-----------------------------------------------------------------------------
LEMMA ServiceStep == ServiceInv /\ [Next]_vars => ServiceInv'
<1> SUFFICES ASSUME ServiceInv, [Next]_vars PROVE ServiceInv'
  OBVIOUS
<1>1. QED
  BY ShapeStep, TypeStep, ProcessStep, ToldStep, EndStep, ScreenStep DEF ServiceInv

LEMMA ServiceAlways == Spec => []ServiceInv
<1>1. QED
  BY ServiceInit, ServiceStep, PTL DEF Spec

\* Every state of a command, a manager and a sidecar has the types it is
\* declared with (service.py).
THEOREM ServiceTypeCorrect == Spec => []ServiceTypeOK
<1>1. ServiceInv => ServiceTypeOK
  BY DEF ServiceInv
<1>2. QED
  BY <1>1, ServiceAlways, PTL

\* A stop that was seen to end the sidecar has tried to blank the screen, and
\* where that worked only a process started since paints it again (_systemd_stop,
\* _launchd_stop, _win_stop).
THEOREM StopLeavesBlank == Spec => []StoppedBlank
<1>1. ServiceInv => StoppedBlank
  BY ServiceAssumption DEF ServiceInv, ServiceTypeOK, EndKnown, ScreenKnown, StoppedBlank
<1>2. QED
  BY <1>1, ServiceAlways, PTL

\* No reset of the deck races a sidecar for it (_reset_deck_best_effort).
THEOREM ResetsAlone == Spec => ResetAlone
<1> DEFINE Alone == (clearing = "no" /\ clearing' # "no" /\ platform # "windows") => proc = 0
<1>1. ASSUME ServiceInv, [Next]_vars PROVE Alone
  <2> SUFFICES ASSUME clearing = "no", clearing' # "no", platform # "windows"
               PROVE  proc = 0
    OBVIOUS
  <2>1. Reset
    <3>1. CASE Outside \/ UNCHANGED vars
      BY <3>1, OutsideKeeps DEF vars, cmdVars, toldVars
    <3>2. CASE CommandStep /\ ~Reset
      BY <3>2 DEF CommandStep, Look, ReadData, Speak, Package, WriteUnit, DaemonReloadFails, Enable,
         EnableFails, ReadBaseline, End, SystemctlReturns, WaitSees, WaitTimesOut, QueryFails, Waiting,
         Unlink, Run, RunFails, ReadMainPid, ComparePid, CompareBaseline, StatusTimesOut, KeepsLocals,
         Told, toldVars
    <3>3. CASE Interrupt \/ \E v \in Verbs : Begin(v)
      BY <3>3 DEF Interrupt, Begin, toldVars
    <3>4. QED
      BY <1>1, <3>1, <3>2, <3>3 DEF Next, Outside
  <2>2. gone # "no" /\ pc = "reset"
    BY <2>1 DEF Reset, Resets, At
  <2>3. platform \in Managers /\ Shape /\ EndKnown /\ ServiceTypeOK
    BY <1>1, ServiceAssumption DEF ServiceInv, ServiceTypeOK
  <2>4. ~doomed /\ ~(platform = "systemd" /\ op = "restart")
    <3>1. gone = "seen"
      BY <2>2, <2>3 DEF EndKnown, ServiceTypeOK
    <3>2. ~(platform = "systemd" /\ op = "restart")
      BY <2>2, <2>3, InFunction DEF OwnSteps, ProgramOK
    <3>3. QED
      BY <2>3, <3>1, <3>2 DEF EndKnown
  <2>5. QED
    BY <2>2, <2>3, <2>4 DEF EndKnown, AfterEnd
<1>2. QED
  BY <1>1, ServiceAlways, PTL DEF Spec, ResetAlone

-----------------------------------------------------------------------------
\* Which steps lead to the ones that an update's end depends on.
Route ==
  /\ pc' # "look"
  /\ pc' = "gone" => pc = "end"
  /\ pc' \in {"pid", "compare"} =>
       pc \in {"gone", "run", "pid", "compare"} /\ op = "restart" /\ (pc = "gone" => platform = "systemd")
  /\ op' = "restart" /\ pc' \in {"reset", "again", "run"} => op = "restart" /\ pc \in {"wait", "reset", "again"}
  /\ verb = "update" => op' \in {op, "stop", "install", "restart"}

LEMMA RoutedInto ==
  ASSUME platform \in Managers,
         \/ \E step \in OwnSteps \ {"look"} : Goto(step)
         \/ \E o \in {"stop", "install", "restart"} : Enter(o)
  PROVE  Route
<1>1. ASSUME NEW step \in OwnSteps \ {"look"}, Goto(step) PROVE Route
  BY <1>1 DEF Goto, Route, OwnSteps
<1>2. ASSUME NEW o \in {"stop", "install", "restart"}, Enter(o) PROVE Route
  <2>1. ProgramOK(o) /\ op' = o /\ pc' = First(o)
    BY <1>2, Programs DEF Enter, Ops
  <2>2. pc' \in {"write", "end", "baseline", "run"} /\ (o = "restart" => pc' # "run")
    BY <2>1 DEF ProgramOK
  <2>3. QED
    BY <2>1, <2>2 DEF Route
<1>3. QED
  BY <1>1, <1>2

LEMMA Routed ==
  ASSUME ServiceTypeOK, Shape, CommandStep, platform \in Managers, platform' = platform
  PROVE  Route
<1> USE DEF At
<1>1. ASSUME Return PROVE Route
  BY <1>1, RoutedInto DEF Return, OwnSteps
<1>2. ASSUME pc \notin OwnSteps, Advance PROVE Route
  <2>1. op \in Ops /\ pc \in Prog(op) /\ ProgramOK(op)
    BY <1>2, InFunction
  <2>2. CASE Program(op)[pc] = "return"
    BY <1>1, <1>2, <2>2 DEF Advance
  <2>3. CASE Program(op)[pc] # "return"
    <3>1. pc' = Program(op)[pc] /\ op' = op /\ pc' \in Prog(op) /\ Prog(op) \cap OwnSteps = {}
      BY <1>2, <2>1, <2>3 DEF Advance, Goto, ProgramOK
    <3>2. pc' # "look"
      BY <3>1 DEF OwnSteps
    <3>3. /\ pc' = "gone" => pc = "end"
          /\ pc' \in {"pid", "compare"} => pc \in {"gone", "run", "pid"} /\ op = "restart"
          /\ pc' \in {"pid", "compare"} /\ pc = "gone" => platform = "systemd"
          /\ op = "restart" /\ pc' \in {"reset", "again", "run"} => pc \in {"wait", "reset", "again"}
      BY <2>1, <3>1 DEF ProgramOK
    <3>4. QED
      BY <3>1, <3>2, <3>3 DEF Route
  <2>4. QED
    BY <2>2, <2>3
<1>3. CASE Look \/ ReadData \/ Speak \/ Package
  BY <1>3, RoutedInto DEF Look, ReadData, Speak, Package, OwnSteps
<1>4. CASE SystemctlReturns \/ RunFails
  BY <1>2, <1>4, RoutedInto DEF SystemctlReturns, RunFails, OwnSteps
<1>5. CASE StatusTimesOut \/ DaemonReloadFails
  BY <1>1, <1>5 DEF StatusTimesOut, DaemonReloadFails
<1>6. CASE ComparePid
  <2>1. ASSUME Goto("pid") PROVE Route
    <3>1. op = "restart" /\ pc = "compare"
      BY <1>6, InFunction DEF ComparePid, OwnSteps, ProgramOK
    <3>2. QED
      BY <2>1, <3>1 DEF Goto, Route
  <2>2. QED
    BY <1>2, <1>6, <2>1 DEF ComparePid, OwnSteps
<1>7. QED
  BY <1>2, <1>3, <1>4, <1>5, <1>6
     DEF CommandStep, WriteUnit, Enable, EnableFails, ReadBaseline, End, WaitSees, WaitTimesOut,
         QueryFails, Waiting, Reset, Unlink, Run, ReadMainPid, CompareBaseline, OwnSteps

\* What an update knows of the job.
UpdateKnown ==
  /\ counted => platform = "windows"
  /\ verb = "update" => op \in {"update", "stop", "install", "restart"}
  /\ pc = "look" => ~was
  /\ pc = "gone" => gone = "no"
  /\ verb = "update" /\ was /\ pc # "idle" /\ platform = "windows" => job # "absent"
  /\ platform = "systemd" /\ op = "restart" /\ pc = "gone" => job # "idle"
  /\ platform = "windows" /\ op = "restart" /\ pc \in {"reset", "again", "run"} /\ gone = "seen" /\ counted
       => job # "idle"
  /\ pc \in {"pid", "compare"} /\ gone = "seen" => job = "wanted"

LEMMA UpdateInit == Init => UpdateKnown
BY DEF Init, UpdateKnown

\* A step of a command that neither looks nor changes what is known of the job.
LEMMA UpdateElsewhere ==
  ASSUME ServiceInv, UpdateKnown, platform' = platform, Route, Control, pc # "idle",
         UNCHANGED <<counted, was, gone, job>>, pc \notin {"end", "gone", "run", "wait"}
  PROVE  UpdateKnown'
<1>1. /\ counted' => platform' = "windows"
      /\ verb' = "update" => op' \in {"update", "stop", "install", "restart"}
      /\ pc' # "look" /\ pc' # "gone"
  BY DEF UpdateKnown, Route, Control
<1>2. verb' = "update" /\ was' /\ pc' # "idle" /\ platform' = "windows" => job' # "absent"
  BY DEF UpdateKnown, Control
<1>3. platform' = "windows" /\ op' = "restart" /\ pc' \in {"reset", "again", "run"} /\ gone' = "seen" /\ counted'
       => job' # "idle"
  BY DEF UpdateKnown, Route
<1>4. pc' \in {"pid", "compare"} /\ gone' = "seen" => job' = "wanted"
  BY DEF UpdateKnown, Route
<1>5. QED
  BY <1>1, <1>2, <1>3, <1>4 DEF UpdateKnown

LEMMA UpdateCommand ==
  ASSUME ServiceInv, UpdateKnown, CommandStep
  PROVE  UpdateKnown'
<1> USE ServiceAssumption DEF At
<1>1. platform' = platform /\ platform \in Managers /\ Control /\ Route /\ pc # "idle"
  BY CommandKeeps, Controlled, Routed DEF ServiceInv, ServiceTypeOK
<1>2. ServiceTypeOK /\ Shape /\ EndKnown
  BY DEF ServiceInv
<1>3. CASE Look
  <2>1. pc = "look" /\ verb \in {"status", "update"} /\ UNCHANGED <<counted, gone, job>>
        /\ (was' = was \/ was' = Active)
    BY <1>1, <1>2, <1>3, InOwn DEF Look, OwnSteps, KeepsWorld, managerVars
  <2>2. was' /\ platform = "windows" => job # "absent"
    BY <1>2, <2>1 DEF UpdateKnown, Active, ServiceInv, Shape, Managers
  <2>3. /\ counted' => platform' = "windows"
        /\ verb' = "update" => op' \in {"update", "stop", "install", "restart"}
        /\ pc' # "look" /\ pc' # "gone" /\ pc' \notin {"pid", "compare"}
        /\ ~(op' = "restart" /\ pc' \in {"reset", "again", "run"})
    BY <1>1, <2>1 DEF UpdateKnown, Control, Route
  <2>4. QED
    BY <1>1, <2>1, <2>2, <2>3 DEF UpdateKnown
<1>4. CASE ReadData \/ Speak \/ Package \/ ReadBaseline \/ Reset
  BY <1>1, <1>4, UpdateElsewhere DEF ReadData, Speak, Package, ReadBaseline, Reset, KeepsWorld,
     KeepsLocals, managerVars, localVars
<1>5. CASE ReadMainPid \/ ComparePid \/ CompareBaseline \/ StatusTimesOut
  BY <1>1, <1>5, UpdateElsewhere DEF ReadMainPid, ComparePid, CompareBaseline, StatusTimesOut,
     KeepsWorld, KeepsLocals, managerVars, localVars
<1>6. CASE WriteUnit \/ DaemonReloadFails \/ Enable \/ EnableFails \/ Unlink
  <2>1. /\ pc \in {"write", "enable", "unlink"} /\ UNCHANGED <<counted, was, gone>>
        /\ verb = "update" /\ platform = "windows" /\ job # "absent" => job' # "absent"
    <3>1. CASE Unlink
      <4>1. op = "uninstall"
        BY <1>1, <1>2, <3>1, InFunction DEF Unlink, OwnSteps, ProgramOK
      <4>2. QED
        BY <3>1, <4>1 DEF Unlink, KeepsLocals, localVars, UpdateKnown
    <3>2. CASE WriteUnit \/ DaemonReloadFails \/ Enable \/ EnableFails
      BY <3>2 DEF WriteUnit, DaemonReloadFails, Enable, EnableFails, Request, KeepsLocals, localVars
    <3>3. QED
      BY <1>6, <3>1, <3>2
  <2>2. /\ verb' = "update" => op' \in {"update", "stop", "install", "restart"}
        /\ pc' # "look" /\ pc' # "gone" /\ pc' \notin {"pid", "compare"}
        /\ ~(op' = "restart" /\ pc' \in {"reset", "again", "run"})
    BY <1>1, <2>1 DEF UpdateKnown, Control, Route
  <2>3. verb' = verb
    BY <1>1 DEF Control
  <2>4. QED
    BY <1>1, <2>1, <2>2, <2>3 DEF UpdateKnown
<1>7. CASE End
  <2>1. /\ pc = "end" /\ UNCHANGED <<counted, was>> /\ gone' = "no"
        /\ job' = "absent" => job = "absent" \/ platform = "launchd"
        /\ platform = "systemd" /\ op = "restart" => job' # "idle"
    BY <1>7 DEF End
  <2>2. /\ verb' = verb /\ pc' # "look" /\ (pc' = "gone" => op' = op)
        /\ verb' = "update" => op' \in {"update", "stop", "install", "restart"}
    BY <1>1 DEF UpdateKnown, Control, Route, AfterEnd
  <2>3. QED
    BY <1>1, <2>1, <2>2 DEF UpdateKnown
<1>8. CASE SystemctlReturns
  <2>1. /\ pc = "gone" /\ UNCHANGED <<counted, was, job>> /\ gone' = "seen"
        /\ op = "restart" /\ job = "absent" => pc' = "idle"
    BY <1>8 DEF SystemctlReturns, KeepsWorld, managerVars, Goto
  <2>2. pc' \in {"pid", "compare"} => job' = "wanted"
    BY <1>1, <1>2, <2>1 DEF UpdateKnown, Route, ServiceTypeOK
  <2>3. /\ verb' = verb /\ pc' # "look" /\ pc' # "gone"
        /\ verb' = "update" => op' \in {"update", "stop", "install", "restart"}
        /\ ~(op' = "restart" /\ pc' \in {"reset", "again", "run"})
    BY <1>1, <2>1 DEF UpdateKnown, Control, Route
  <2>4. QED
    BY <1>1, <2>1, <2>2, <2>3 DEF UpdateKnown
<1>9. CASE WaitSees \/ WaitTimesOut \/ QueryFails
  <2>1. /\ pc \in {"wait", "again"} /\ UNCHANGED <<counted, was, job>>
        /\ gone' = "seen" => ~Active
    BY <1>9 DEF WaitSees, WaitTimesOut, QueryFails, Waiting, KeepsWorld, managerVars
  <2>2. platform = "windows" /\ gone' = "seen" /\ counted => job = "absent"
    BY <2>1 DEF Active
  <2>3. /\ verb' = verb /\ pc' # "look" /\ pc' # "gone" /\ pc' \notin {"pid", "compare"}
        /\ verb' = "update" => op' \in {"update", "stop", "install", "restart"}
    BY <1>1, <2>1 DEF UpdateKnown, Control, Route
  <2>4. QED
    BY <1>1, <2>1, <2>2, <2>3 DEF UpdateKnown
<1>10. CASE Run
  <2>1. pc = "run" /\ UNCHANGED <<counted, was, gone>> /\ CanRun /\ Request
    BY <1>10 DEF Run, KeepsLocals, localVars
  <2>2. job' \in {job, "wanted"}
    BY <2>1 DEF Request
  <2>3. op = "restart" /\ gone = "seen" => job' = "wanted"
    <3>1. CASE platform = "windows"
      BY <1>2, <2>1, <3>1 DEF UpdateKnown, Request, CanRun, ServiceTypeOK
    <3>2. CASE platform # "windows"
      BY <1>2, <2>1, <3>2 DEF UpdateKnown, EndKnown, Request
    <3>3. QED
      BY <3>1, <3>2
  <2>4. /\ verb' = verb /\ pc' # "look" /\ pc' # "gone" /\ (pc' \in {"pid", "compare"} => op = "restart")
        /\ verb' = "update" => op' \in {"update", "stop", "install", "restart"}
        /\ ~(op' = "restart" /\ pc' \in {"reset", "again", "run"})
    BY <1>1, <2>1 DEF UpdateKnown, Control, Route
  <2>5. QED
    BY <1>1, <2>1, <2>2, <2>3, <2>4 DEF UpdateKnown
<1>11. CASE RunFails
  <2>1. pc = "run" /\ UNCHANGED <<counted, was, gone, job>> /\ pc' = "idle" /\ op' = op /\ verb' = verb
    BY <1>11 DEF RunFails, KeepsLocals, KeepsWorld, localVars, managerVars, Goto
  <2>2. QED
    BY <1>1, <2>1 DEF UpdateKnown
<1>12. QED
  BY <1>3, <1>4, <1>5, <1>6, <1>7, <1>8, <1>9, <1>10, <1>11 DEF CommandStep

LEMMA UpdateStep == ServiceInv /\ UpdateKnown /\ [Next]_vars => UpdateKnown'
<1> SUFFICES ASSUME ServiceInv, UpdateKnown, [Next]_vars PROVE UpdateKnown'
  OBVIOUS
<1>1. platform' = platform /\ platform \in Managers
  BY ShapeStep, ServiceAssumption DEF ServiceInv, ServiceTypeOK
<1>2. CASE UNCHANGED vars
  BY <1>2 DEF vars, worldVars, managerVars, cmdVars, localVars, UpdateKnown
<1>3. CASE Outside
  <2>1. UNCHANGED <<pc, op, verb, gone, was>>
    BY <1>3, OutsideKeeps DEF cmdVars, localVars
  <2>2. CASE LoadConfig \/ Publish \/ Paint \/ Exit \/ Crash \/ EditConfig
    BY <1>1, <2>1, <2>2 DEF LoadConfig, Publish, Paint, Exit, Crash, EditConfig, managerVars, UpdateKnown
  <2>3. CASE Launch
    BY <1>1, <2>1, <2>3, Zenon DEF Launch, UpdateKnown
  <2>4. CASE TriggerFires
    BY <1>1, <2>1, <2>4 DEF TriggerFires, UpdateKnown
  <2>5. CASE Notice
    BY <1>1, <2>1, <2>5 DEF Notice, UpdateKnown
  <2>6. QED
    BY <1>3, <2>2, <2>3, <2>4, <2>5 DEF Outside, SidecarStep, ManagerStep
<1>4. CASE CommandStep
  BY <1>4, UpdateCommand
<1>5. ASSUME NEW v \in Verbs, Begin(v) PROVE UpdateKnown'
  <2>1. verb' = v /\ op' = v /\ ~was' /\ gone' = "no" /\ UNCHANGED <<counted, job>>
    BY <1>5 DEF Begin, worldVars, managerVars
  <2>2. pc' # "gone"
    BY <1>1, <1>5, Programs DEF Begin, First, ProgramOK
  <2>3. QED
    BY <1>1, <2>1, <2>2 DEF UpdateKnown
<1>6. CASE Interrupt
  <2>1. gone' = "no" /\ UNCHANGED <<platform, counted, job, was>> /\ pc # "idle"
    BY <1>6 DEF Interrupt, worldVars, managerVars
  <2>2. Goto("idle") \/ Enter("restart")
    BY <1>6 DEF Interrupt
  <2>3. Route /\ verb' = verb
    BY <1>1, <2>2, RoutedInto DEF OwnSteps, Goto, Enter
  <2>4. pc' # "gone"
    BY <1>1, <2>2, Programs DEF Goto, Enter, ProgramOK, Ops
  <2>5. QED
    BY <1>1, <2>1, <2>3, <2>4 DEF UpdateKnown, Route
<1>7. QED
  BY <1>2, <1>3, <1>4, <1>5, <1>6 DEF Next, Outside

\* An update ends after its restart.
LEMMA UpdateEnds ==
  ASSUME ServiceInv, UpdateKnown, verb = "update", pc \notin OwnSteps, Advance, pc' = "idle"
  PROVE  pc = "compare"
<1>1. op \in Ops /\ pc \in Prog(op) /\ ProgramOK(op)
  BY InFunction, ServiceAssumption DEF ServiceInv, ServiceTypeOK
<1>2. Program(op)[pc] = "return"
  <2>1. Prog(op) \cap OwnSteps = {} /\ "idle" \in OwnSteps
    BY <1>1 DEF ProgramOK, OwnSteps
  <2>2. QED
    BY <1>1, <2>1 DEF Advance, Goto, ProgramOK
<1>3. Return /\ op \in {"stop", "install", "restart"}
  BY <1>1, <1>2 DEF Advance, UpdateKnown, Ops
<1>4. op # "stop"
  BY <1>3 DEF Return, Goto
<1>5. op # "install"
  <2>1. First("restart") # "idle"
    BY Programs, ServiceAssumption DEF ProgramOK, ServiceInv, ServiceTypeOK, Ops
  <2>2. QED
    BY <1>3, <2>1 DEF Return, Enter
<1>6. QED
  BY <1>1, <1>2, <1>3, <1>4, <1>5 DEF ProgramOK

\* An update that found the service running and saw the old process go ends with
\* a service that is to run, whatever failed in between (cli.py, the finally of
\* update).
THEOREM UpdatesBringBack == Spec => UpdateBringsBack
<1>1. ASSUME ServiceInv, UpdateKnown, [Next]_vars,
             verb = "update", was, gone = "seen", unit, pc # "idle", pc' = "idle", gone' = gone
      PROVE  job' = "wanted"
  <2> USE ServiceAssumption DEF At
  <2>1. CommandStep
    <3>1. ~Outside /\ ~UNCHANGED vars
      BY <1>1, OutsideKeeps DEF vars, cmdVars
    <3>2. ~Interrupt /\ ~\E v \in Verbs : Begin(v)
      BY <1>1 DEF Interrupt, Begin
    <3>3. QED
      BY <1>1, <3>1, <3>2 DEF Next, Outside
  <2>2. ServiceTypeOK /\ Shape /\ platform \in Managers
    BY <1>1 DEF ServiceInv, ServiceTypeOK
  <2>3. ~Look /\ ~SystemctlReturns
    BY <1>1 DEF Look, SystemctlReturns, UpdateKnown
  <2>4. ~ReadData /\ ~Speak
    BY <1>1, <2>2, InOwn DEF ReadData, Speak, OwnSteps
  <2>5. ~Package
    <3>1. \A o \in {"install", "restart"} : First(o) # "idle"
      BY <2>2, Programs DEF ProgramOK, Ops
    <3>2. QED
      BY <1>1, <3>1 DEF Package, Enter
  <2>6. ~RunFails
    <3>1. ASSUME RunFails PROVE FALSE
      <4>1. pc = "run" /\ ~CanRun
        BY <3>1 DEF RunFails
      <4>2. op = "restart" /\ platform # "systemd"
        BY <1>1, <2>2, <4>1, InFunction DEF OwnSteps, ProgramOK, UpdateKnown
      <4>3. QED
        BY <1>1, <2>2, <4>1, <4>2 DEF CanRun, UpdateKnown, Managers
    <3>2. QED
      BY <3>1
  <2>7. ~(pc \notin OwnSteps \cup {"compare"} /\ Advance)
    BY <1>1, UpdateEnds
  <2>8. ~DaemonReloadFails
    <3>1. ASSUME DaemonReloadFails PROVE FALSE
      <4>1. pc \in {"write", "unlink"} /\ Return
        BY <3>1 DEF DaemonReloadFails
      <4>2. op \in {"install", "stop", "restart"}
        BY <1>1, <2>2, <4>1, InFunction DEF UpdateKnown, OwnSteps, Ops
      <4>3. op = "install"
        BY <1>1, <2>2, <4>1, <4>2, InFunction DEF OwnSteps, ProgramOK, AfterEnd
      <4>4. First("restart") # "idle"
        BY <2>2, Programs DEF ProgramOK, Ops
      <4>5. QED
        BY <1>1, <4>1, <4>3, <4>4 DEF Return, Enter
    <3>2. QED
      BY <3>1
  <2>9. CompareBaseline \/ ComparePid \/ StatusTimesOut
    BY <2>1, <2>3, <2>4, <2>5, <2>6, <2>7, <2>8
       DEF CommandStep, WriteUnit, Enable, EnableFails, ReadBaseline, End, WaitSees, WaitTimesOut,
           QueryFails, Waiting, Reset, Unlink, Run, ReadMainPid, OwnSteps
  <2>10. pc \in {"pid", "compare"} /\ job' = job
    BY <2>9 DEF CompareBaseline, ComparePid, StatusTimesOut, KeepsWorld, managerVars
  <2>11. QED
    BY <1>1, <2>10 DEF UpdateKnown
<1>2. Spec => []UpdateKnown
  BY UpdateInit, UpdateStep, ServiceAlways, PTL DEF Spec
<1>3. QED
  BY <1>1, <1>2, ServiceAlways, PTL DEF Spec, UpdateBringsBack

-----------------------------------------------------------------------------
\* The contract.
Reported == {0, proc} \cup (since + 1 .. newest)

\* What a command reports is true.
LEMMA ClaimTrue ==
  ASSUME ServiceInv, CommandStep, ~End
  PROVE  Claim' \in Reported
<1> USE ServiceAssumption DEF At
<1>1. ServiceTypeOK /\ Shape /\ ProcessKnown /\ EndKnown /\ platform \in Managers
      /\ platform' = platform /\ Control /\ pc # "idle" /\ told = 0
  BY CommandKeeps, Controlled DEF ServiceInv, ServiceTypeOK, ToldAtEnd
<1>2. CASE told' = told
  BY <1>1, <1>2 DEF Claim, Reported
<1>3. CASE Speak
  <2>1. verb' = "status"
    BY <1>1, <1>3, InOwn DEF Speak, OwnSteps, Goto
  <2>2. told' = 0 \/ evidence' = "age" \/ (evidence' = "pid" /\ told' = proc)
    BY <1>1, <1>3 DEF Speak, Told, MainPid, toldVars
  <2>3. QED
    BY <2>1, <2>2 DEF Claim, Reported
<1>4. CASE ComparePid /\ told' # told
  <2>1. pc = "compare" /\ platform # "windows" /\ evidence' = "pid" /\ told' = seen /\ gone' = gone
    BY <1>4 DEF ComparePid, Told, toldVars, localVars
  <2>2. verb' = verb /\ verb # "status"
    BY <1>1, <2>1, InFunction DEF OwnSteps, Control, Ops
  <2>3. gone = "seen" => seen \in since + 1 .. newest
    BY <1>1, <2>1 DEF EndKnown, ServiceTypeOK, Pid
  <2>4. QED
    BY <2>1, <2>2, <2>3 DEF Claim, Reported
<1>5. CASE CompareBaseline
  BY <1>5 DEF CompareBaseline, Told, Claim, Reported
<1>6. QED
  BY <1>2, <1>3, <1>4, <1>5, ToldSteps

\* What a step of the manager or the sidecar is under the contract.
LEMMA OutsideImplements ==
  ASSUME ServiceInv, Outside
  PROVE  Contract!Start \/ Contract!Stop \/ UNCHANGED Contract!contract
<1> USE ServiceAssumption
<1>1. Claim' = Claim /\ since' = since
  BY OutsideKeeps DEF cmdVars, toldVars, localVars, Claim
<1> USE <1>1 DEF ServiceInv, ServiceTypeOK, procVars, Leave, Contract!contract
<1>2. CASE LoadConfig \/ Exit \/ Crash
  BY <1>2 DEF LoadConfig, Exit, Crash, Contract!Stop, ProcessKnown
<1>3. CASE Publish \/ Paint \/ EditConfig \/ TriggerFires \/ Notice
  BY <1>3 DEF Publish, Paint, EditConfig, TriggerFires, Notice
<1>4. CASE Launch
  BY <1>4 DEF Launch, Contract!Start
<1>5. QED
  BY <1>2, <1>3, <1>4 DEF Outside, SidecarStep, ManagerStep

\* Service control implements its contract: one sidecar at a time, each with a
\* new pid, under all three managers; and under systemd and launchd nobody is told
\* of a process that has had its day, by status or by a restart that saw the old
\* process go (_wait_for_fresh_status, cli.py's status).
THEOREM ServiceImplementsContract == Spec => Supervises
<1> USE ServiceAssumption
<1> DEFINE ContractNext == Contract!Start \/ Contract!Stop \/ Contract!Ask \/ Contract!Tell
<1>1. Init => Contract!SupervisedInit
  BY DEF Init, Contract!SupervisedInit, Claim
<1>2. ASSUME ServiceInv, [Next]_vars
      PROVE  ContractNext \/ UNCHANGED Contract!contract
  <2> USE <1>2
  <2>1. CASE UNCHANGED vars
    BY <2>1 DEF vars, worldVars, procVars, cmdVars, localVars, toldVars, Claim, Contract!contract
  <2>2. CASE Outside
    BY <2>2, OutsideImplements
  <2>3. CASE CommandStep
    <3>1. proc' = proc /\ newest' = newest /\ Claim = 0
      <4>1. pc # "idle"
        BY <2>3, CommandKeeps, Controlled DEF ServiceInv, ServiceTypeOK
      <4>2. Claim = 0
        BY <4>1 DEF ServiceInv, ToldAtEnd, Claim
      <4>3. proc' = proc
        BY <2>3, OthersKeep DEF End
      <4>4. QED
        BY <2>3, <4>2, <4>3, CommandKeeps
    <3>2. CASE End
      <4>1. told' = told /\ since' = newest
        BY <3>2 DEF End, toldVars
      <4>2. told = 0
        BY <2>3, CommandKeeps, Controlled DEF ServiceInv, ServiceTypeOK, ToldAtEnd
      <4>3. Claim' = 0
        BY <4>1, <4>2 DEF Claim
      <4>4. QED
        BY <3>1, <4>1, <4>3 DEF Contract!Ask
    <3>3. CASE ~End
      <4>1. since' = since /\ Claim' \in Reported
        BY <2>3, <3>3, OthersKeep, ClaimTrue
      <4>2. QED
        BY <3>1, <4>1 DEF Reported, Contract!Tell, Contract!contract
    <3>4. QED
      BY <3>2, <3>3
  <2>4. ASSUME NEW v \in Verbs, Begin(v) PROVE ContractNext
    BY <2>4 DEF Begin, worldVars, procVars, Claim, Contract!Ask
  <2>5. CASE Interrupt
    <3>1. told = 0 /\ UNCHANGED <<proc, newest, since, told>>
      BY <2>5 DEF Interrupt, ServiceInv, ToldAtEnd, worldVars, procVars, toldVars
    <3>2. QED
      BY <3>1 DEF Claim, Contract!contract
  <2>6. QED
    BY <2>1, <2>2, <2>3, <2>4, <2>5 DEF Next, Outside
<1>3. QED
  BY <1>1, <1>2, ServiceAlways, PTL DEF Spec, Supervises, Contract!SupervisedSpec
=============================================================================
