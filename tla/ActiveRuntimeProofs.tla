------------------------ MODULE ActiveRuntimeProofs ------------------------
(***************************************************************************)
(* What the runtime guarantees for any number of threads, views, sessions, *)
(* devices and failed calls: its calls never overlap, and it drives the    *)
(* dial only as ViewCycler allows.  The inductive invariant says who holds *)
(* client_lock: exactly the thread whose place in the code is between the  *)
(* `with` and its end.                                                     *)
(***************************************************************************)
EXTENDS ActiveRuntime, ViewCyclerProofs

LockHeldInCalls == \A p \in Procs : InCall(p) <=> clientLock = p

\* RuntimeTypeOK without the cycler's part.
ServerAndThreadsTypeOK ==
  /\ serverView \in View /\ serverActive \in SessionOrNone
  /\ serverGroup \in Devices \cup {Shared}
  /\ followable \subseteq Devices
  /\ clientLock \in Procs \cup {NoProc}
  /\ activeView \in View /\ viewPin \in Pins
  /\ activeSession \in SessionOrNone /\ previousSession \in SessionOrNone
  /\ targetSelection \in Targets \cup {NoTarget} /\ targetPicker \in BOOLEAN
  /\ configPin \in Pins /\ configEdited \in BOOLEAN
  /\ pc \in [Procs -> PC] /\ loc \in [Procs -> Locals]
  /\ budget \in [events : 0 .. MaxEvents, external : 0 .. MaxExternal,
                 faults : 0 .. MaxFaults]

\* A timer's thread runs the runtime's code only inside on_commit.
TimersInCommit == \A t \in Timers : pc[t] # "idle" => tstate[t] = "calling"

RuntimeInv == CyclerInv /\ ServerAndThreadsTypeOK /\ LockHeldInCalls /\ TimersInCommit

LEMMA TypesTogether == RuntimeInv => RuntimeTypeOK
BY DEF RuntimeInv, RuntimeTypeOK, ServerAndThreadsTypeOK, CyclerInv

LEMMA NoLocalsType == NoLocals \in Locals
BY DEF NoLocals, Locals, View, SessionOrNone

\* Where a thread goes, and that the others stay.
LEMMA Moves ==
  ASSUME pc \in [Procs -> PC], loc \in [Procs -> Locals],
         NEW p \in Procs, NEW l \in PC, NEW locals \in Locals, GotoWith(p, l, locals)
  PROVE  /\ pc' \in [Procs -> PC] /\ loc' \in [Procs -> Locals]
         /\ pc' = [pc EXCEPT ![p] = l]
BY DEF GotoWith

LEMMA MovesKeepingLocals ==
  ASSUME pc \in [Procs -> PC], loc \in [Procs -> Locals],
         NEW p \in Procs, NEW l \in PC, Goto(p, l)
  PROVE  /\ pc' \in [Procs -> PC] /\ loc' \in [Procs -> Locals]
         /\ pc' = [pc EXCEPT ![p] = l]
BY DEF Goto

LEMMA Finishes ==
  ASSUME pc \in [Procs -> PC], loc \in [Procs -> Locals], NEW p \in Procs, Finish(p)
  PROVE  /\ pc' \in [Procs -> PC] /\ loc' \in [Procs -> Locals]
         /\ pc' = [pc EXCEPT ![p] = "idle"]
BY NoLocalsType, Moves DEF Finish, PC

LEMMA Spends ==
  ASSUME NEW kind \in {"events", "external", "faults"}, ServerAndThreadsTypeOK, Spend(kind)
  PROVE  budget' \in [events : 0 .. MaxEvents, external : 0 .. MaxExternal,
                      faults : 0 .. MaxFaults]
BY RuntimeAssumption DEF Spend, ServerAndThreadsTypeOK

CallPlaces == {"beat", "rebeat", "fetch", "patch", "connect"}

\* Moving between two places inside a call, or two outside, with the lock as it
\* was, keeps the lock where it should be.
LEMMA LockStays ==
  ASSUME LockHeldInCalls, pc \in [Procs -> PC], NEW p \in Procs, NEW l \in PC,
         pc' = [pc EXCEPT ![p] = l], UNCHANGED clientLock,
         pc[p] \in CallPlaces <=> l \in CallPlaces
  PROVE  LockHeldInCalls'
BY DEF LockHeldInCalls, InCall, CallPlaces

LEMMA LockReleased ==
  ASSUME LockHeldInCalls, pc \in [Procs -> PC], NEW p \in Procs, NEW l \in PC \ CallPlaces,
         pc' = [pc EXCEPT ![p] = l], clientLock' = NoProc, pc[p] \in CallPlaces
  PROVE  LockHeldInCalls'
BY RuntimeAssumption DEF LockHeldInCalls, InCall, CallPlaces, Procs

LEMMA LockTaken ==
  ASSUME LockHeldInCalls, pc \in [Procs -> PC], NEW p \in Procs, NEW l \in CallPlaces,
         pc' = [pc EXCEPT ![p] = l], clientLock = NoProc, clientLock' = p
  PROVE  LockHeldInCalls'
BY RuntimeAssumption DEF LockHeldInCalls, InCall, CallPlaces, Procs

LEMMA LockUntouched ==
  ASSUME LockHeldInCalls, UNCHANGED <<pc, clientLock>>
  PROVE  LockHeldInCalls'
BY DEF LockHeldInCalls, InCall

-----------------------------------------------------------------------------
\* The cycler's share of every step is a step of ViewCycler or none.

LEMMA FinishRetires ==
  ASSUME NEW p \in Procs, Finish(p)
  PROVE  [CyclerNext]_cyclerVars
BY DEF Finish, CyclerNext

LEMMA CyclerStep == RuntimeInv /\ [Next]_vars => [CyclerNext]_cyclerVars
<1> SUFFICES ASSUME RuntimeInv, [Next]_vars
             PROVE  [CyclerNext]_cyclerVars
  OBVIOUS
<1>1. CASE Device
  <2>1. CASE \E k \in Ticks : HidTurn(k)
    BY <2>1 DEF HidTurn, CyclerNext, Turning
  <2>2. CASE ~ \E k \in Ticks : HidTurn(k)
    BY <1>1, <2>2 DEF Device, HidViewOption, HidSessionKey, HidToggleLast, ConnectTo,
       HidViewAll, HidRefreshNow, HidTargetPicker, HidTargetOption
  <2>3. QED
    BY <2>1, <2>2
<1>2. CASE OthersAct \/ EditConfig \/ UNCHANGED vars
  BY <1>2 DEF OthersAct, EditConfig, vars
<1>3. CASE \E p \in Procs : Acquire(p)
  BY <1>3 DEF Acquire
<1>4. CASE \E p \in Procs : Step(p)
  <2>1. PICK p \in Procs : Step(p)
    BY <1>4
  <2>2. CASE ResolveGroup(p) \/ DegradeTarget(p) \/ CommitView(p) \/ MovePin(p)
    BY <2>2 DEF ResolveGroup, DegradeTarget, CommitView, MovePin
  <2>3. CASE Heartbeat(p) \/ Fetch(p) \/ PatchView(p)
    BY <2>3, FinishRetires DEF Heartbeat, Fetch, PatchView, Raise
  <2>4. CASE Adopt(p)
    BY <2>4, FinishRetires DEF Adopt
  <2>5. CASE SyncCycler(p)
    <3>1. (IF viewPin # NoPin THEN activeView ELSE loc[p].view) \in View
      BY DEF RuntimeInv, ServerAndThreadsTypeOK, Locals
    <3>2. QED
      BY <2>5, <3>1 DEF SyncCycler, CyclerNext, Polling
  <2>6. CASE p = Poll /\ Reload
    BY <2>6, FinishRetires DEF Reload
  <2>7. CASE p \in Timers /\ (TimerExpires(p) \/ TimerFires(p))
    BY <2>7 DEF TimerExpires, TimerFires, CyclerNext
  <2>8. CASE p \in Workers /\ (PressViewAll(p) \/ RaiseFocus(p) \/ Connect(p))
    BY <2>8, FinishRetires DEF PressViewAll, RaiseFocus, Connect, Raise, CyclerNext
  <2>9. QED
    BY <2>1, <2>2, <2>3, <2>4, <2>5, <2>6, <2>7, <2>8 DEF Step
<1>5. QED
  BY <1>1, <1>2, <1>3, <1>4 DEF Next

-----------------------------------------------------------------------------
\* The steps of a thread, one lemma for each part of the code.

ServerAndThreadsInv == ServerAndThreadsTypeOK /\ LockHeldInCalls

LEMMA RefreshKeeps ==
  ASSUME RuntimeInv, NEW p \in Procs,
         ResolveGroup(p) \/ DegradeTarget(p) \/ SyncCycler(p) \/ Adopt(p)
  PROVE  ServerAndThreadsInv'
<1> USE DEF RuntimeInv, ServerAndThreadsInv
<1>0. /\ pc \in [Procs -> PC] /\ loc \in [Procs -> Locals]
      /\ loc[p].group \in Devices \cup {Shared, NoTarget} /\ loc[p].view \in View
      /\ loc[p].session \in SessionOrNone
  BY DEF ServerAndThreadsTypeOK, Locals
<1>1. CASE ResolveGroup(p)
  <2> DEFINE group == IF targetSelection \in {NoTarget, Local} THEN NoTarget ELSE targetSelection
  <2>1. group \in Devices \cup {Shared, NoTarget}
    BY DEF ServerAndThreadsTypeOK, Targets
  <2>2. [NoLocals EXCEPT !.group = group] \in Locals
    BY <2>1, NoLocalsType DEF Locals
  <2>3. /\ GotoWith(p, "lock", [NoLocals EXCEPT !.group = group])
        /\ pc[p] \in {"resolve", "idle"}
    BY <1>1 DEF ResolveGroup, AtResolve, At
  <2>4. /\ pc' \in [Procs -> PC] /\ loc' \in [Procs -> Locals]
        /\ pc' = [pc EXCEPT ![p] = "lock"]
    BY <1>0, <2>2, <2>3, Moves DEF PC
  <2>5. ServerAndThreadsTypeOK'
    BY <1>1, <2>4 DEF ResolveGroup, ServerAndThreadsTypeOK, serverVars, viewVars,
       sessionVars, targetVars, configVars
  <2>6. LockHeldInCalls'
    BY <1>0, <1>1, <2>3, <2>4, LockStays DEF ResolveGroup, PC, CallPlaces
  <2>7. QED
    BY <2>5, <2>6
<1>2. CASE DegradeTarget(p)
  <2>1. Goto(p, "rebeat") /\ At(p, "beat")
    BY <1>2 DEF DegradeTarget, Rejected
  <2>2. /\ pc' \in [Procs -> PC] /\ loc' \in [Procs -> Locals]
        /\ pc' = [pc EXCEPT ![p] = "rebeat"]
    BY <1>0, <2>1, MovesKeepingLocals DEF PC
  <2>3. ServerAndThreadsTypeOK'
    BY <1>2, <2>2 DEF DegradeTarget, ServerAndThreadsTypeOK, serverVars, viewVars,
       sessionVars, configVars, Targets
  <2>4. LockHeldInCalls'
    BY <1>0, <1>2, <2>1, <2>2, LockStays DEF DegradeTarget, At, PC, CallPlaces
  <2>5. QED
    BY <2>3, <2>4
<1>3. CASE SyncCycler(p)
  <2>1. GotoWith(p, "adopt", [loc[p] EXCEPT !.pinned = viewPin # NoPin]) /\ At(p, "sync")
    BY <1>3 DEF SyncCycler
  <2>2. [loc[p] EXCEPT !.pinned = viewPin # NoPin] \in Locals
    BY <1>0 DEF Locals
  <2>3. /\ pc' \in [Procs -> PC] /\ loc' \in [Procs -> Locals]
        /\ pc' = [pc EXCEPT ![p] = "adopt"]
    BY <1>0, <2>1, <2>2, Moves DEF PC
  <2>4. ServerAndThreadsTypeOK'
    BY <1>3, <2>3 DEF SyncCycler, ServerAndThreadsTypeOK, serverVars, viewVars,
       sessionVars, targetVars, configVars
  <2>5. LockHeldInCalls'
    BY <1>0, <1>3, <2>1, <2>3, LockStays DEF SyncCycler, At, PC, CallPlaces
  <2>6. QED
    BY <2>4, <2>5
<1>4. CASE Adopt(p)
  <2>1. PICK l \in {"reload", "idle"} :
          /\ pc' \in [Procs -> PC] /\ loc' \in [Procs -> Locals]
          /\ pc' = [pc EXCEPT ![p] = l]
    <3>1. CASE p = Poll
      BY <1>0, <1>4, <3>1, NoLocalsType, Moves DEF Adopt, PC
    <3>2. CASE p # Poll
      BY <1>0, <1>4, <3>2, Finishes DEF Adopt
    <3>3. QED
      BY <3>1, <3>2
  <2>2. activeSession' \in SessionOrNone /\ previousSession' \in SessionOrNone
    BY <1>0, <1>4 DEF Adopt, NoteActive, sessionVars, ServerAndThreadsTypeOK
  <2>3. ServerAndThreadsTypeOK'
    BY <1>0, <1>4, <2>1, <2>2 DEF Adopt, ServerAndThreadsTypeOK, serverVars, targetVars, configVars
  <2>4. LockHeldInCalls'
    BY <1>0, <1>4, <2>1, LockStays DEF Adopt, At, PC, CallPlaces
  <2>5. QED
    BY <2>3, <2>4
<1>5. QED
  BY <1>1, <1>2, <1>3, <1>4

\* A call that raises frees the lock and ends its thread's work.
LEMMA RaiseKeeps ==
  ASSUME RuntimeInv, NEW p \in Procs, Raise(p), pc[p] \in CallPlaces
  PROVE  /\ pc' \in [Procs -> PC] /\ loc' \in [Procs -> Locals]
         /\ clientLock' \in Procs \cup {NoProc}
         /\ budget' \in [events : 0 .. MaxEvents, external : 0 .. MaxExternal,
                         faults : 0 .. MaxFaults]
         /\ LockHeldInCalls'
<1>1. pc \in [Procs -> PC] /\ loc \in [Procs -> Locals]
  BY DEF RuntimeInv, ServerAndThreadsTypeOK
<1>2. /\ pc' \in [Procs -> PC] /\ loc' \in [Procs -> Locals]
      /\ pc' = [pc EXCEPT ![p] = "idle"]
  BY <1>1, Finishes DEF Raise
<1>3. LockHeldInCalls'
  BY <1>1, <1>2, LockReleased DEF Raise, RuntimeInv, PC, CallPlaces
<1>4. budget' \in [events : 0 .. MaxEvents, external : 0 .. MaxExternal,
                   faults : 0 .. MaxFaults]
  BY Spends DEF Raise, RuntimeInv
<1>5. QED
  BY <1>2, <1>3, <1>4 DEF Raise

\* The calls themselves: every outcome leaves the lock free or with its caller.
LEMMA CallKeeps ==
  ASSUME RuntimeInv, NEW p \in Procs,
         Heartbeat(p) \/ Fetch(p) \/ PatchView(p) \/ Connect(p)
  PROVE  ServerAndThreadsInv'
<1> USE DEF RuntimeInv, ServerAndThreadsInv
<1>0. /\ pc \in [Procs -> PC] /\ loc \in [Procs -> Locals] /\ loc[p] \in Locals
      /\ loc[p].group \in Devices \cup {Shared, NoTarget} /\ loc[p].view \in View
      /\ loc[p].session \in SessionOrNone
  BY DEF ServerAndThreadsTypeOK, Locals
<1>1. CASE Heartbeat(p)
  <2>1. pc[p] \in {"beat", "rebeat"}
    BY <1>1 DEF Heartbeat, At
  <2>2. /\ serverGroup' \in Devices \cup {Shared}
        /\ UNCHANGED <<serverView, serverActive, followable, viewVars, sessionVars,
                       targetVars, configVars>>
    BY <1>0, <1>1 DEF Heartbeat, ServerAndThreadsTypeOK
  <2>3. CASE Raise(p)
    BY <2>1, <2>2, <2>3, RaiseKeeps DEF CallPlaces, ServerAndThreadsTypeOK, viewVars,
       sessionVars, targetVars, configVars
  <2>4. CASE ~Raise(p)
    <3>1. Goto(p, "fetch") /\ UNCHANGED <<clientLock, budget>>
      BY <1>1, <2>4 DEF Heartbeat
    <3>2. /\ pc' \in [Procs -> PC] /\ loc' \in [Procs -> Locals]
          /\ pc' = [pc EXCEPT ![p] = "fetch"]
      BY <1>0, <3>1, MovesKeepingLocals DEF PC
    <3>3. LockHeldInCalls'
      BY <1>0, <2>1, <3>1, <3>2, LockStays DEF PC, CallPlaces
    <3>4. QED
      BY <2>2, <3>1, <3>2, <3>3 DEF ServerAndThreadsTypeOK, viewVars, sessionVars,
         targetVars, configVars
  <2>5. QED
    BY <2>3, <2>4
<1>2. CASE Fetch(p)
  <2>1. At(p, "fetch") /\ UNCHANGED <<serverVars, viewVars, sessionVars, targetVars, configVars>>
    BY <1>2 DEF Fetch
  <2>2. CASE Raise(p)
    BY <2>1, <2>2, RaiseKeeps DEF At, CallPlaces, ServerAndThreadsTypeOK, serverVars, viewVars,
       sessionVars, targetVars, configVars
  <2>3. CASE ~Raise(p)
    <3>1. /\ GotoWith(p, "sync", [loc[p] EXCEPT !.view = serverView, !.session = serverActive])
          /\ clientLock' = NoProc /\ UNCHANGED budget
      BY <1>2, <2>3 DEF Fetch
    <3>2. [loc[p] EXCEPT !.view = serverView, !.session = serverActive] \in Locals
      BY <1>0 DEF Locals, ServerAndThreadsTypeOK
    <3>3. /\ pc' \in [Procs -> PC] /\ loc' \in [Procs -> Locals]
          /\ pc' = [pc EXCEPT ![p] = "sync"]
      BY <1>0, <3>1, <3>2, Moves DEF PC
    <3>4. LockHeldInCalls'
      BY <1>0, <2>1, <3>1, <3>3, LockReleased DEF At, PC, CallPlaces
    <3>5. QED
      BY <2>1, <3>1, <3>3, <3>4 DEF ServerAndThreadsTypeOK, serverVars, viewVars, sessionVars,
         targetVars, configVars
  <2>4. QED
    BY <2>2, <2>3
<1>3. CASE PatchView(p)
  <2>1. /\ At(p, "patch") /\ serverView' \in View
        /\ UNCHANGED <<serverActive, serverGroup, followable, viewVars, sessionVars,
                       targetVars, configVars>>
    BY <1>0, <1>3 DEF PatchView, ServerAndThreadsTypeOK
  <2>2. CASE Raise(p)
    BY <2>1, <2>2, RaiseKeeps DEF At, CallPlaces, ServerAndThreadsTypeOK, viewVars,
       sessionVars, targetVars, configVars
  <2>3. CASE ~Raise(p)
    <3>1. Goto(p, "resolve") /\ clientLock' = NoProc /\ UNCHANGED budget
      BY <1>3, <2>3 DEF PatchView
    <3>2. /\ pc' \in [Procs -> PC] /\ loc' \in [Procs -> Locals]
          /\ pc' = [pc EXCEPT ![p] = "resolve"]
      BY <1>0, <3>1, MovesKeepingLocals DEF PC
    <3>3. LockHeldInCalls'
      BY <1>0, <2>1, <3>1, <3>2, LockReleased DEF At, PC, CallPlaces
    <3>4. QED
      BY <2>1, <3>1, <3>2, <3>3 DEF ServerAndThreadsTypeOK, viewVars, sessionVars,
         targetVars, configVars
  <2>4. QED
    BY <2>2, <2>3
<1>4. CASE Connect(p)
  <2>1. /\ At(p, "connect") /\ serverActive' \in SessionOrNone
        /\ UNCHANGED <<serverView, serverGroup, followable, viewVars, sessionVars,
                       targetVars, configVars>>
    BY <1>0, <1>4 DEF Connect, ServerAndThreadsTypeOK
  <2>2. CASE Raise(p)
    BY <2>1, <2>2, RaiseKeeps DEF At, CallPlaces, ServerAndThreadsTypeOK, viewVars,
       sessionVars, targetVars, configVars
  <2>3. CASE ~Raise(p)
    <3>1. Finish(p) /\ clientLock' = NoProc /\ UNCHANGED budget
      BY <1>4, <2>3 DEF Connect
    <3>2. /\ pc' \in [Procs -> PC] /\ loc' \in [Procs -> Locals]
          /\ pc' = [pc EXCEPT ![p] = "idle"]
      BY <1>0, <3>1, Finishes
    <3>3. LockHeldInCalls'
      BY <1>0, <2>1, <3>1, <3>2, LockReleased DEF At, PC, CallPlaces
    <3>4. QED
      BY <2>1, <3>1, <3>2, <3>3 DEF ServerAndThreadsTypeOK, viewVars, sessionVars,
         targetVars, configVars
  <2>4. QED
    BY <2>2, <2>3
<1>5. QED
  BY <1>1, <1>2, <1>3, <1>4

LEMMA AcquireKeeps ==
  ASSUME RuntimeInv, NEW p \in Procs, Acquire(p)
  PROVE  ServerAndThreadsInv'
<1> USE DEF RuntimeInv, ServerAndThreadsInv
<1>0. pc \in [Procs -> PC] /\ loc \in [Procs -> Locals]
  BY DEF ServerAndThreadsTypeOK
<1>1. PICK l \in {"beat", "patch", "connect"} : Goto(p, l)
  BY DEF Acquire
<1>2. /\ pc' \in [Procs -> PC] /\ loc' \in [Procs -> Locals]
      /\ pc' = [pc EXCEPT ![p] = l]
  BY <1>0, <1>1, MovesKeepingLocals DEF PC
<1>3. LockHeldInCalls'
  BY <1>0, <1>2, LockTaken DEF Acquire, CallPlaces
<1>4. ServerAndThreadsTypeOK'
  BY <1>2 DEF Acquire, ServerAndThreadsTypeOK, serverVars, viewVars, sessionVars,
     targetVars, configVars
<1>5. QED
  BY <1>3, <1>4

\* Commits, timers and background threads before they reach a call.
LEMMA CommitKeeps ==
  ASSUME RuntimeInv, CyclerInv', NEW p \in Procs,
         \/ CommitView(p) \/ MovePin(p) \/ PressViewAll(p) \/ RaiseFocus(p)
         \/ p \in Timers /\ (TimerExpires(p) \/ TimerFires(p))
  PROVE  ServerAndThreadsInv'
<1> USE DEF RuntimeInv, ServerAndThreadsInv
<1>0. /\ pc \in [Procs -> PC] /\ loc \in [Procs -> Locals] /\ loc[p].view \in View
  BY DEF ServerAndThreadsTypeOK, Locals
<1>1. CASE CommitView(p) \/ MovePin(p) \/ RaiseFocus(p)
  <2>1. PICK l \in {"pinset", "plock", "resolve", "clock"} : Goto(p, l)
    BY <1>1 DEF CommitView, MovePin, RaiseFocus
  <2>2. /\ pc' \in [Procs -> PC] /\ loc' \in [Procs -> Locals]
        /\ pc' = [pc EXCEPT ![p] = l]
    BY <1>0, <2>1, MovesKeepingLocals DEF PC
  <2>3. LockHeldInCalls'
    BY <1>0, <1>1, <2>2, LockStays DEF CommitView, MovePin, RaiseFocus, At, PC, CallPlaces
  <2>4. activeView' \in View /\ viewPin' \in Pins
    BY <1>0, <1>1 DEF CommitView, MovePin, RaiseFocus, viewVars, ServerAndThreadsTypeOK, Pins
  <2>5. QED
    BY <1>1, <2>2, <2>3, <2>4 DEF CommitView, MovePin, RaiseFocus, ServerAndThreadsTypeOK,
       serverVars, sessionVars, targetVars, configVars
<1>2. CASE PressViewAll(p)
  <2>1. [NoLocals EXCEPT !.view = All] \in Locals
    BY NoLocalsType DEF Locals, View
  <2>2. /\ pc' \in [Procs -> PC] /\ loc' \in [Procs -> Locals]
        /\ pc' = [pc EXCEPT ![p] = "commit"]
    BY <1>0, <1>2, <2>1, Moves DEF PressViewAll, PC
  <2>3. LockHeldInCalls'
    BY <1>0, <1>2, <2>2, LockStays DEF PressViewAll, At, PC, CallPlaces
  <2>4. QED
    BY <1>2, <2>2, <2>3 DEF PressViewAll, ServerAndThreadsTypeOK, serverVars, viewVars,
       sessionVars, targetVars, configVars
<1>3. CASE p \in Timers /\ TimerExpires(p)
  BY <1>3, LockUntouched DEF TimerExpires, ServerAndThreadsTypeOK, serverVars, viewVars,
     sessionVars, targetVars, configVars
<1>4. CASE p \in Timers /\ TimerFires(p)
  <2>0. pc[p] = "idle"
    BY <1>4 DEF TimerFires, FireCommit, TimersInCommit
  <2>1. tlabel'[p] \in View
    BY <1>4 DEF CyclerInv, CyclerTypeOK
  <2>2. [NoLocals EXCEPT !.view = tlabel'[p]] \in Locals
    BY <2>1, NoLocalsType DEF Locals
  <2>3. GotoWith(p, "commit", [NoLocals EXCEPT !.view = tlabel'[p]])
    BY <1>4 DEF TimerFires
  <2>4. /\ pc' \in [Procs -> PC] /\ loc' \in [Procs -> Locals]
        /\ pc' = [pc EXCEPT ![p] = "commit"]
    BY <1>0, <2>2, <2>3, Moves DEF PC
  <2>5. LockHeldInCalls'
    BY <1>0, <1>4, <2>0, <2>4, LockStays DEF TimerFires, PC, CallPlaces
  <2>6. QED
    BY <1>4, <2>4, <2>5 DEF TimerFires, ServerAndThreadsTypeOK, serverVars, viewVars,
       sessionVars, targetVars, configVars
<1>5. QED
  BY <1>1, <1>2, <1>3, <1>4

-----------------------------------------------------------------------------
\* The poll loop's own steps, device events and what happens elsewhere.

LEMMA LoopKeeps ==
  ASSUME RuntimeInv, Reload
  PROVE  ServerAndThreadsInv'
<1> USE DEF RuntimeInv, ServerAndThreadsInv
<1>0. pc \in [Procs -> PC] /\ loc \in [Procs -> Locals] /\ Poll \in Procs
  BY DEF ServerAndThreadsTypeOK, Procs
<1>1. /\ pc' \in [Procs -> PC] /\ loc' \in [Procs -> Locals]
      /\ pc' = [pc EXCEPT ![Poll] = "idle"]
  BY <1>0, Finishes DEF Reload
<1>2. LockHeldInCalls'
  BY <1>0, <1>1, LockStays DEF Reload, At, PC, CallPlaces
<1>3. activeView' \in View /\ viewPin' \in Pins
  BY DEF Reload, viewVars, ServerAndThreadsTypeOK, Pins
<1>4. QED
  BY <1>1, <1>2, <1>3 DEF Reload, ServerAndThreadsTypeOK, serverVars, sessionVars,
     targetVars

LEMMA StartMoves ==
  ASSUME pc \in [Procs -> PC], loc \in [Procs -> Locals],
         NEW l \in PC, NEW locals \in Locals, Start(l, locals)
  PROVE  \E w \in Workers :
           /\ w \in Procs /\ pc[w] = "idle"
           /\ pc' \in [Procs -> PC] /\ loc' \in [Procs -> Locals]
           /\ pc' = [pc EXCEPT ![w] = l]
<1>1. PICK w \in Workers : At(w, "idle") /\ GotoWith(w, l, locals)
  BY DEF Start
<1>2. w \in Procs
  BY DEF Procs
<1>3. QED
  BY <1>1, <1>2, Moves DEF At

LEMMA ConnectToKeeps ==
  ASSUME RuntimeInv, NEW s \in SessionOrNone, ConnectTo(s), Spend("events")
  PROVE  ServerAndThreadsInv'
<1> USE DEF RuntimeInv, ServerAndThreadsInv
<1>0. pc \in [Procs -> PC] /\ loc \in [Procs -> Locals]
  BY DEF ServerAndThreadsTypeOK
<1>1. [NoLocals EXCEPT !.session = s] \in Locals
  BY NoLocalsType DEF Locals
<1>2. PICK w \in Workers : /\ w \in Procs /\ pc[w] = "idle"
                           /\ pc' \in [Procs -> PC] /\ loc' \in [Procs -> Locals]
                           /\ pc' = [pc EXCEPT ![w] = "focus"]
  BY <1>0, <1>1, StartMoves DEF ConnectTo, PC
<1>3. LockHeldInCalls'
  BY <1>0, <1>2, LockStays DEF ConnectTo, PC, CallPlaces
<1>4. activeSession' \in SessionOrNone /\ previousSession' \in SessionOrNone
  BY DEF ConnectTo, NoteActive, ServerAndThreadsTypeOK
<1>5. budget' \in [events : 0 .. MaxEvents, external : 0 .. MaxExternal,
                   faults : 0 .. MaxFaults]
  BY Spends
<1>6. QED
  BY <1>2, <1>3, <1>4, <1>5 DEF ConnectTo, ServerAndThreadsTypeOK, serverVars, viewVars,
     targetVars, configVars

LEMMA DeviceKeeps ==
  ASSUME RuntimeInv, Device
  PROVE  ServerAndThreadsInv'
<1> USE DEF RuntimeInv, ServerAndThreadsInv
<1>0. /\ pc \in [Procs -> PC] /\ loc \in [Procs -> Locals] /\ Hid \in Procs
      /\ previousSession \in SessionOrNone
  BY DEF ServerAndThreadsTypeOK, Procs
<1>1. ASSUME Spend("events")
      PROVE  budget' \in [events : 0 .. MaxEvents, external : 0 .. MaxExternal,
                          faults : 0 .. MaxFaults]
  BY <1>1, Spends
<1>2. ASSUME NEW k \in Ticks, HidTurn(k)
      PROVE  ServerAndThreadsInv'
  BY <1>1, <1>2, LockUntouched DEF HidTurn, Event, ServerAndThreadsTypeOK, serverVars,
     viewVars, sessionVars, targetVars, configVars
<1>3. ASSUME NEW v \in View, HidViewOption(v)
      PROVE  ServerAndThreadsInv'
  <2>1. [NoLocals EXCEPT !.view = v] \in Locals
    BY NoLocalsType DEF Locals
  <2>2. /\ pc' \in [Procs -> PC] /\ loc' \in [Procs -> Locals]
        /\ pc' = [pc EXCEPT ![Hid] = "commit"]
    BY <1>0, <1>3, <2>1, Moves DEF HidViewOption, PC
  <2>3. LockHeldInCalls'
    BY <1>0, <1>3, <2>2, LockStays DEF HidViewOption, Event, At, PC, CallPlaces
  <2>4. QED
    BY <1>1, <1>3, <2>2, <2>3 DEF HidViewOption, Event, ServerAndThreadsTypeOK, serverVars,
       viewVars, sessionVars, targetVars, configVars
<1>4. ASSUME NEW s \in Sessions, HidSessionKey(s)
      PROVE  ServerAndThreadsInv'
  <2>1. s \in SessionOrNone
    BY DEF SessionOrNone
  <2>2. QED
    BY <1>4, <2>1, ConnectToKeeps DEF HidSessionKey, Event
<1>5. CASE HidToggleLast
  BY <1>0, <1>5, ConnectToKeeps DEF HidToggleLast, Event
<1>6. CASE HidViewAll \/ HidRefreshNow
  <2>1. PICK l \in {"press", "resolve"} : Start(l, NoLocals)
    BY <1>6 DEF HidViewAll, HidRefreshNow
  <2>2. PICK w \in Workers : /\ w \in Procs /\ pc[w] = "idle"
                             /\ pc' \in [Procs -> PC] /\ loc' \in [Procs -> Locals]
                             /\ pc' = [pc EXCEPT ![w] = l]
    BY <1>0, <2>1, NoLocalsType, StartMoves DEF PC
  <2>3. LockHeldInCalls'
    BY <1>0, <1>6, <2>2, LockStays DEF HidViewAll, HidRefreshNow, PC, CallPlaces
  <2>4. QED
    BY <1>1, <1>6, <2>2, <2>3 DEF HidViewAll, HidRefreshNow, Event, ServerAndThreadsTypeOK,
       serverVars, viewVars, sessionVars, targetVars, configVars
<1>7. CASE HidTargetPicker
  BY <1>1, <1>7, LockUntouched DEF HidTargetPicker, Event, ServerAndThreadsTypeOK, serverVars,
     viewVars, sessionVars, configVars
<1>8. ASSUME NEW x \in Targets, HidTargetOption(x)
      PROVE  ServerAndThreadsInv'
  <2>1. /\ pc' \in [Procs -> PC] /\ loc' \in [Procs -> Locals]
        /\ pc' = [pc EXCEPT ![Hid] = "resolve"]
    BY <1>0, <1>8, MovesKeepingLocals DEF HidTargetOption, PC
  <2>2. LockHeldInCalls'
    BY <1>0, <1>8, <2>1, LockStays DEF HidTargetOption, Event, At, PC, CallPlaces
  <2>3. QED
    BY <1>1, <1>8, <2>1, <2>2 DEF HidTargetOption, Event, ServerAndThreadsTypeOK, serverVars,
       viewVars, sessionVars, configVars
<1>9. QED
  BY <1>2, <1>3, <1>4, <1>5, <1>6, <1>7, <1>8 DEF Device

LEMMA ElsewhereKeeps ==
  ASSUME RuntimeInv, OthersAct \/ EditConfig
  PROVE  ServerAndThreadsInv'
<1> USE DEF RuntimeInv, ServerAndThreadsInv
<1>1. budget' \in [events : 0 .. MaxEvents, external : 0 .. MaxExternal,
                   faults : 0 .. MaxFaults]
  BY Spends DEF OthersAct, EditConfig, Elsewhere
<1>2. LockHeldInCalls'
  BY LockUntouched DEF OthersAct, EditConfig
<1>3. CASE OthersAct
  <2>1. serverView' \in View /\ serverActive' \in SessionOrNone /\ followable' \subseteq Devices
    BY <1>3 DEF OthersAct, ServerAndThreadsTypeOK
  <2>2. QED
    BY <1>1, <1>2, <1>3, <2>1 DEF OthersAct, ServerAndThreadsTypeOK, viewVars, sessionVars,
       targetVars, configVars
<1>4. CASE EditConfig
  BY <1>1, <1>2, <1>4, RuntimeAssumption DEF EditConfig, ServerAndThreadsTypeOK, serverVars,
     viewVars, sessionVars, targetVars, Pins
<1>5. QED
  BY <1>3, <1>4

-----------------------------------------------------------------------------
\* Timer threads run the runtime's code only inside on_commit.

LEMMA TimersKeptByMove ==
  ASSUME RuntimeInv, NEW p \in Procs, NEW l,
         pc' = [pc EXCEPT ![p] = l], UNCHANGED tstate,
         p \in Timers => pc[p] # "idle"
  PROVE  TimersInCommit'
<1> SUFFICES ASSUME NEW t \in Timers, pc'[t] # "idle"
             PROVE  tstate'[t] = "calling"
  BY DEF TimersInCommit
<1>1. pc \in [Procs -> PC] /\ t \in Procs
  BY DEF RuntimeInv, ServerAndThreadsTypeOK, Procs
<1>2. pc[t] # "idle"
  BY <1>1
<1>3. QED
  BY <1>2 DEF RuntimeInv, TimersInCommit

LEMMA TimersKeptByFinish ==
  ASSUME RuntimeInv, NEW p \in Procs, Finish(p)
  PROVE  TimersInCommit'
<1>0. pc \in [Procs -> PC] /\ loc \in [Procs -> Locals] /\ tstate \in [Timers -> TimerState]
  BY DEF RuntimeInv, ServerAndThreadsTypeOK, CyclerInv, CyclerTypeOK
<1>1. pc' = [pc EXCEPT ![p] = "idle"]
  BY <1>0, Finishes
<1>2. \A t \in Timers : t # p => tstate'[t] = tstate[t]
  BY <1>0 DEF Finish, Retire, cyclerVars
<1>3. QED
  BY <1>0, <1>1, <1>2 DEF RuntimeInv, TimersInCommit

LEMMA TimersKeptByDevice ==
  ASSUME RuntimeInv, Device
  PROVE  TimersInCommit'
<1>0. Hid \in Procs /\ Hid \notin Timers /\ \A w \in Workers : w \in Procs /\ w \notin Timers
  BY RuntimeAssumption DEF Procs
<1>1. ASSUME NEW k \in Ticks, HidTurn(k)
      PROVE  TimersInCommit'
  <2>1. UNCHANGED pc /\ tstate \in [Timers -> TimerState]
    BY <1>1 DEF HidTurn, RuntimeInv, CyclerInv, CyclerTypeOK
  <2>2. \A t \in Timers : tstate[t] = "calling" => tstate'[t] = "calling"
    BY <1>1, <2>1 DEF HidTurn, Turn, Cancelled
  <2>3. QED
    BY <2>1, <2>2 DEF RuntimeInv, TimersInCommit
<1>2. ASSUME NEW l, NEW locals, Start(l, locals), UNCHANGED tstate
      PROVE  TimersInCommit'
  BY <1>0, <1>2, TimersKeptByMove DEF Start, GotoWith
<1>3. ASSUME NEW s, ConnectTo(s)
      PROVE  TimersInCommit'
  BY <1>2, <1>3 DEF ConnectTo, cyclerVars
<1>4. ASSUME NEW v \in View, HidViewOption(v)
      PROVE  TimersInCommit'
  BY <1>0, <1>4, TimersKeptByMove DEF HidViewOption, GotoWith, cyclerVars
<1>5. ASSUME NEW x \in Targets, HidTargetOption(x)
      PROVE  TimersInCommit'
  BY <1>0, <1>5, TimersKeptByMove DEF HidTargetOption, Goto, cyclerVars
<1>6. CASE HidTargetPicker
  BY <1>6 DEF HidTargetPicker, cyclerVars, RuntimeInv, TimersInCommit
<1>7. CASE HidViewAll \/ HidRefreshNow
  BY <1>2, <1>7 DEF HidViewAll, HidRefreshNow, cyclerVars
<1>8. QED
  BY <1>1, <1>3, <1>4, <1>5, <1>6, <1>7 DEF Device, HidSessionKey, HidToggleLast

LEMMA TimersKeptByStep ==
  ASSUME RuntimeInv, NEW p \in Procs, Step(p)
  PROVE  TimersInCommit'
<1>0. /\ tstate \in [Timers -> TimerState] /\ pc \in [Procs -> PC]
      /\ Poll \notin Timers /\ \A w \in Workers : w \notin Timers
  BY RuntimeAssumption DEF RuntimeInv, CyclerInv, CyclerTypeOK, ServerAndThreadsTypeOK
<1>1. ASSUME NEW l, Goto(p, l) \/ \E locals : GotoWith(p, l, locals), UNCHANGED tstate,
             p \in Timers => pc[p] # "idle"
      PROVE  TimersInCommit'
  BY <1>1, TimersKeptByMove DEF Goto, GotoWith
<1>2. CASE Finish(p)
  BY <1>2, TimersKeptByFinish
<1>3. CASE ResolveGroup(p)
  BY <1>0, <1>1, <1>3 DEF ResolveGroup, AtResolve, At, cyclerVars
<1>4. CASE DegradeTarget(p)
  BY <1>1, <1>4 DEF DegradeTarget, Rejected, At, cyclerVars
<1>5. CASE SyncCycler(p)
  BY <1>1, <1>5 DEF SyncCycler, Sync, At
<1>6. CASE CommitView(p)
  BY <1>1, <1>6 DEF CommitView, At, cyclerVars
<1>7. CASE MovePin(p)
  BY <1>1, <1>7 DEF MovePin, At, cyclerVars
<1>8. CASE ~Finish(p) /\ Heartbeat(p)
  BY <1>1, <1>8 DEF Heartbeat, Raise, At, cyclerVars
<1>9. CASE ~Finish(p) /\ Fetch(p)
  BY <1>1, <1>9 DEF Fetch, Raise, At, cyclerVars
<1>10. CASE ~Finish(p) /\ PatchView(p)
  BY <1>1, <1>10 DEF PatchView, Raise, At, cyclerVars
<1>11. CASE ~Finish(p) /\ Adopt(p)
  BY <1>1, <1>11 DEF Adopt, At, cyclerVars
<1>12. CASE ~Finish(p) /\ p = Poll /\ Reload
  BY <1>0, <1>1, <1>12 DEF Reload, cyclerVars
<1>13. CASE p \in Timers /\ TimerExpires(p)
  <2>1. \A t \in Timers : tstate[t] = "calling" => tstate'[t] = "calling"
    BY <1>0, <1>13 DEF TimerExpires, Expire, Retire
  <2>2. QED
    BY <1>13, <2>1 DEF TimerExpires, RuntimeInv, TimersInCommit
<1>14. CASE p \in Timers /\ TimerFires(p)
  <2>1. tstate' = [tstate EXCEPT ![p] = "calling"]
    BY <1>14 DEF TimerFires, FireCommit
  <2>2. \A t \in Timers : t # p => pc'[t] = pc[t]
    BY <1>0, <1>14 DEF TimerFires, GotoWith, Procs
  <2>3. QED
    BY <1>0, <2>1, <2>2 DEF RuntimeInv, TimersInCommit
<1>15. CASE p \in Workers /\ PressViewAll(p)
  <2>1. \A t \in Timers : tstate[t] = "calling" => tstate'[t] = "calling"
    BY <1>0, <1>15 DEF PressViewAll, Press, Cancelled
  <2>2. \A t \in Timers : pc'[t] = pc[t]
    BY <1>0, <1>15 DEF PressViewAll, GotoWith, Procs
  <2>3. QED
    BY <2>1, <2>2 DEF RuntimeInv, TimersInCommit
<1>16. CASE p \in Workers /\ RaiseFocus(p)
  BY <1>0, <1>1, <1>16 DEF RaiseFocus, cyclerVars
<1>17. CASE ~Finish(p) /\ Connect(p)
  BY <1>17 DEF Connect, Raise
<1>18. QED
  BY <1>2, <1>3, <1>4, <1>5, <1>6, <1>7, <1>8, <1>9, <1>10, <1>11, <1>12, <1>13, <1>14,
     <1>15, <1>16, <1>17 DEF Step

LEMMA TimersKept == RuntimeInv /\ [Next]_vars => TimersInCommit'
<1> SUFFICES ASSUME RuntimeInv, [Next]_vars
             PROVE  TimersInCommit'
  OBVIOUS
<1>1. CASE OthersAct \/ EditConfig \/ UNCHANGED vars
  BY <1>1 DEF OthersAct, EditConfig, vars, cyclerVars, RuntimeInv, TimersInCommit
<1>2. ASSUME NEW p \in Procs, Acquire(p)
      PROVE  TimersInCommit'
  BY <1>2, TimersKeptByMove DEF Acquire, Goto, At, cyclerVars
<1>3. QED
  BY <1>1, <1>2, TimersKeptByDevice, TimersKeptByStep DEF Next

-----------------------------------------------------------------------------
LEMMA RuntimeInvInit == Init => RuntimeInv
<1> SUFFICES ASSUME Init PROVE RuntimeInv
  OBVIOUS
<1>1. CyclerInv
  BY CyclerInvInit DEF Init
<1>2. ServerAndThreadsTypeOK
  <2>1. pc \in [Procs -> PC] /\ loc \in [Procs -> Locals]
    BY NoLocalsType DEF Init, PC
  <2>2. activeView \in View /\ viewPin \in Pins
    BY RuntimeAssumption DEF Init, Pins, View
  <2>3. budget \in [events : 0 .. MaxEvents, external : 0 .. MaxExternal,
                    faults : 0 .. MaxFaults]
    <3>1. MaxEvents \in 0 .. MaxEvents /\ MaxExternal \in 0 .. MaxExternal /\ MaxFaults \in 0 .. MaxFaults
      BY RuntimeAssumption
    <3>2. QED
      BY <3>1 DEF Init
  <2>4. QED
    BY <2>1, <2>2, <2>3 DEF Init, ServerAndThreadsTypeOK, SessionOrNone, Targets
<1>3. LockHeldInCalls
  BY RuntimeAssumption DEF Init, LockHeldInCalls, InCall, Procs
<1>4. TimersInCommit
  BY DEF Init, TimersInCommit, Procs
<1>5. QED
  BY <1>1, <1>2, <1>3, <1>4 DEF RuntimeInv

LEMMA RuntimeInvStep == RuntimeInv /\ [Next]_vars => RuntimeInv'
<1> SUFFICES ASSUME RuntimeInv, [Next]_vars
             PROVE  RuntimeInv'
  OBVIOUS
<1>1. CyclerInv'
  BY CyclerStep, CyclerInvStep DEF RuntimeInv
<1>2. ServerAndThreadsInv'
  <2>1. CASE UNCHANGED vars
    BY <2>1, LockUntouched DEF RuntimeInv, ServerAndThreadsInv, ServerAndThreadsTypeOK, vars,
       serverVars, viewVars, sessionVars, targetVars, configVars
  <2>2. CASE \E p \in Procs : Step(p)
    <3>1. PICK p \in Procs : Step(p)
      BY <2>2
    <3>2. QED
      BY <1>1, <3>1, RefreshKeeps, CallKeeps, CommitKeeps, LoopKeeps DEF Step
  <2>3. QED
    BY <2>1, <2>2, DeviceKeeps, ElsewhereKeeps, AcquireKeeps DEF Next
<1>3. QED
  BY <1>1, <1>2, TimersKept DEF RuntimeInv, ServerAndThreadsInv

LEMMA RuntimeInvAlways == Spec => []RuntimeInv
BY RuntimeInvInit, RuntimeInvStep, PTL DEF Spec

\* Every field shared by the poll loop, the callback thread, the timers and the
\* background threads keeps its type.
THEOREM RuntimeTypeCorrect == Spec => []RuntimeTypeOK
<1>1. QED
  BY TypesTogether, RuntimeInvAlways, PTL

\* client_lock does its job: heartbeats, fetches, PATCHes and connects made from
\* any number of threads never overlap, failed calls included.
THEOREM CallsAlwaysSerialized == Spec => []CallsSerialized
<1>1. RuntimeInv => CallsSerialized
  BY DEF RuntimeInv, LockHeldInCalls, CallsSerialized
<1>2. QED
  BY <1>1, RuntimeInvAlways, PTL

\* The detailed runtime implements the dial's own specification (its safety):
\* initial states map to initial states, steps to steps or stutters.
THEOREM RuntimeRefinesCycler == Spec => CyclerRefined
<1>1. Init => CyclerInit
  BY DEF Init
<1>2. QED
  BY <1>1, CyclerStep, RuntimeInvAlways, PTL DEF Spec, CyclerRefined
=============================================================================
