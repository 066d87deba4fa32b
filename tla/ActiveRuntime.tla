---------------------------- MODULE ActiveRuntime ----------------------------
(***************************************************************************)
(* class _ActiveRuntime of main.py, the part that talks to the muxplex     *)
(* server: the poll loop's refresh, dial-0 commits, key-press connects,    *)
(* the control target and the view pin.  Threads: the poll loop (Poll),    *)
(* the device-callback thread (Hid), the view cycler's timers, and the     *)
(* background threads that key actions start (Workers).  client_lock       *)
(* serialises the calls; paint_lock sections contain no call and are one   *)
(* step each.  What the keys show is the subject of KeySurface.            *)
(***************************************************************************)
EXTENDS ViewCycler, FiniteSets

CONSTANTS
  Poll, Hid, Workers, \* threads besides the timers
  NoProc,             \* client_lock is free
  Sessions,           \* sessions by identity: a (name, remote_id) pair
  Remote,             \* those of them on a federation peer
  NoSession,          \* active_session is None
  Devices,            \* the server's registry: whose group a deck may follow
  Shared, Local,      \* TARGET_SHARED, TARGET_LOCAL
  NoTarget,           \* target_selection is None
  NoPin,              \* view_pin is None
  PinEdits,           \* values view_pin takes in edits of config.json
  Kinds,              \* the controls bound on this deck, and what others change
  MaxEvents,          \* bound on key and dial events
  MaxExternal,        \* bound on changes by other clients and the user's editor
  MaxFaults           \* bound on failed calls

\* Controls by their action names, then the changes made elsewhere.
EventKinds == {"view_cycle", "view_picker", "view_all", "session", "toggle_last",
               "refresh_now", "target_picker",
               "others_view", "others_session", "device_gone", "config"}

ASSUME RuntimeAssumption ==
  /\ Poll # Hid
  /\ {Poll, Hid} \cap (Workers \cup Timers) = {}
  /\ Workers \cap Timers = {}
  /\ NoProc \notin {Poll, Hid} \cup Workers \cup Timers
  /\ NoSession \notin Sessions
  /\ Remote \subseteq Sessions
  /\ {Shared, Local, NoTarget} \cap Devices = {}
  /\ Cardinality({Shared, Local, NoTarget}) = 3
  /\ NoPin \notin View
  /\ PinEdits \subseteq View \cup {NoPin}
  /\ Kinds \subseteq EventKinds
  /\ MaxEvents \in Nat /\ MaxExternal \in Nat /\ MaxFaults \in Nat

Procs == {Poll, Hid} \cup Workers \cup Timers
SessionOrNone == Sessions \cup {NoSession}
Targets == Devices \cup {Shared, Local}
Pins == View \cup {NoPin}

VARIABLES
  \* the server, as this deck's requests see it
  serverView, serverActive,
  serverGroup,    \* the group the deck's last accepted heartbeat claimed
  followable,     \* devices whose group the server lets the deck claim
  \* fields of _ActiveRuntime
  clientLock,     \* holder of client_lock
  activeView, viewPin,
  activeSession, previousSession,
  targetSelection,
  targetPicker,   \* picker.mode == TARGET
  configPin,      \* view_pin as config.json has it
  configEdited,   \* config.json changed since the watcher last read it
  \* threads
  pc, loc,
  budget          \* events, external changes and faults left

serverVars == <<serverView, serverActive, serverGroup, followable>>
viewVars == <<activeView, viewPin>>
sessionVars == <<activeSession, previousSession>>
targetVars == <<targetSelection, targetPicker>>
configVars == <<configPin, configEdited>>
vars == <<cyclerVars, serverVars, clientLock, viewVars, sessionVars,
          targetVars, configVars, pc, loc, budget>>

\* What a thread is about to do.  refresh: resolve, lock, beat, rebeat, fetch,
\* sync, adopt.  _commit_view: commit, pinset, plock, patch.  _do_connect:
\* focus, clock, connect.  press: ViewCycler.press on the view_all thread.
PC == {"idle", "resolve", "lock", "beat", "rebeat", "fetch", "sync", "adopt",
       "commit", "pinset", "plock", "patch", "focus", "clock", "connect",
       "press", "reload"}

\* A thread's local variables: the heartbeat's sync_group, the view and session
\* it handles, and whether _process saw the deck pinned.
NoLocals == [group |-> NoTarget, view |-> All, session |-> NoSession,
             pinned |-> FALSE]
Locals == [group : Devices \cup {Shared, NoTarget}, view : View,
           session : SessionOrNone, pinned : BOOLEAN]

RuntimeTypeOK ==
  /\ CyclerTypeOK
  /\ serverView \in View /\ serverActive \in SessionOrNone
  /\ serverGroup \in Devices \cup {Shared}
  /\ followable \subseteq Devices
  /\ clientLock \in Procs \cup {NoProc}
  /\ activeView \in View /\ viewPin \in Pins
  /\ activeSession \in SessionOrNone /\ previousSession \in SessionOrNone
  /\ targetSelection \in Targets \cup {NoTarget} /\ targetPicker \in BOOLEAN
  /\ configPin \in Pins /\ configEdited \in BOOLEAN
  /\ pc \in [Procs -> PC] /\ loc \in [Procs -> Locals]
  /\ budget \in [events : 0 .. MaxEvents, external : 0 .. MaxExternal,
                 faults : 0 .. MaxFaults]

-----------------------------------------------------------------------------
Init ==
  /\ CyclerInit
  /\ serverView \in View /\ serverActive \in SessionOrNone
  /\ serverGroup = Shared
  /\ followable = Devices
  /\ clientLock = NoProc
  /\ viewPin \in PinEdits
  /\ activeView = IF viewPin = NoPin THEN All ELSE viewPin
  /\ activeSession = NoSession /\ previousSession = NoSession
  /\ targetSelection = NoTarget /\ targetPicker = FALSE
  /\ configPin = viewPin /\ configEdited = FALSE
  /\ pc = [p \in Procs |-> "idle"]
  /\ loc = [p \in Procs |-> NoLocals]
  /\ budget = [events |-> MaxEvents, external |-> MaxExternal, faults |-> MaxFaults]

At(p, l) == pc[p] = l
Goto(p, l) == pc' = [pc EXCEPT ![p] = l] /\ UNCHANGED loc
GotoWith(p, l, locals) ==
  /\ pc' = [pc EXCEPT ![p] = l]
  /\ loc' = [loc EXCEPT ![p] = locals]

Spend(kind) ==
  /\ budget[kind] > 0
  /\ budget' = [budget EXCEPT ![kind] = @ - 1]

\* The thread's work is over: a timer or background thread ends, the callback
\* thread waits for the next event, the poll loop for the next tick.
Finish(p) ==
  /\ GotoWith(p, "idle", NoLocals)
  /\ IF p \in Timers THEN Retire(p) ELSE UNCHANGED cyclerVars

\* Defect: a call that raises leaves client_lock held.
Raise_KeepsLock(p) == Spend("faults") /\ UNCHANGED clientLock /\ Finish(p)

\* A call raised: client_lock is released, the handler logs it and ends.
Raise(p) == Spend("faults") /\ clientLock' = NoProc /\ Finish(p)

\* `with self.client_lock:`
Acquire(p) ==
  /\ clientLock = NoProc
  /\ clientLock' = p
  /\ \/ At(p, "lock") /\ Goto(p, "beat")
     \/ At(p, "plock") /\ Goto(p, "patch")
     \/ At(p, "clock") /\ Goto(p, "connect")
  /\ UNCHANGED <<cyclerVars, serverVars, viewVars, sessionVars, targetVars,
                 configVars, budget>>

-----------------------------------------------------------------------------
\* refresh: one heartbeat, the GETs, _process.

\* About to refresh: a handler, or the poll loop at its next tick.
AtResolve(p) ==
  \/ At(p, "resolve")
  \/ p = Poll /\ At(p, "idle")

\* Defect: "Just me" is sent to the server as if it were a group.
ResolveGroup_SendsLocal(p) ==
  /\ AtResolve(p)
  /\ GotoWith(p, "lock", [NoLocals EXCEPT !.group = targetSelection])
  /\ UNCHANGED <<cyclerVars, serverVars, clientLock, viewVars, sessionVars,
                 targetVars, configVars, budget>>

\* The group is chosen before client_lock is taken.
ResolveGroup(p) ==
  /\ AtResolve(p)
  /\ GotoWith(p, "lock",
       [NoLocals EXCEPT !.group =
          IF targetSelection \in {NoTarget, Local} THEN NoTarget ELSE targetSelection])
  /\ UNCHANGED <<cyclerVars, serverVars, clientLock, viewVars, sessionVars,
                 targetVars, configVars, budget>>

Rejected(p) == At(p, "beat") /\ loc[p].group \in Devices \ followable

\* Defect: the retry is sent but the rejected target stays selected.
DegradeTarget_NotSticky(p) ==
  /\ Rejected(p)
  /\ Goto(p, "rebeat")
  /\ UNCHANGED <<cyclerVars, serverVars, clientLock, viewVars, sessionVars,
                 targetVars, configVars, budget>>

\* TargetGoneError / TargetNotSelfOwningError: _degrade_target_to_shared.
DegradeTarget(p) ==
  /\ Rejected(p)
  /\ targetSelection' = Shared
  /\ Goto(p, "rebeat")
  /\ UNCHANGED <<cyclerVars, serverVars, clientLock, viewVars, sessionVars,
                 targetPicker, configVars, budget>>

Heartbeat(p) ==
  /\ \/ /\ At(p, "beat") /\ ~Rejected(p)
        /\ \/ /\ serverGroup' =
                   IF loc[p].group = NoTarget THEN serverGroup ELSE loc[p].group
              /\ Goto(p, "fetch")
              /\ UNCHANGED <<cyclerVars, clientLock, budget>>
           \/ Raise(p) /\ UNCHANGED serverGroup
     \/ /\ At(p, "rebeat")
        /\ \/ /\ serverGroup' = Shared
              /\ Goto(p, "fetch")
              /\ UNCHANGED <<cyclerVars, clientLock, budget>>
           \/ Raise(p) /\ UNCHANGED serverGroup
  /\ UNCHANGED <<serverView, serverActive, followable, viewVars, sessionVars,
                 targetVars, configVars>>

\* federation_sessions, state and settings; client_lock is released with them.
Fetch(p) ==
  /\ At(p, "fetch")
  /\ \/ /\ clientLock' = NoProc
        /\ GotoWith(p, "sync",
             [loc[p] EXCEPT !.view = serverView, !.session = serverActive])
        /\ UNCHANGED <<cyclerVars, budget>>
     \/ Raise(p)
  /\ UNCHANGED <<serverVars, viewVars, sessionVars, targetVars, configVars>>

\* The first half of _process, outside paint_lock.
SyncCycler(p) ==
  /\ At(p, "sync")
  /\ \E list \in ViewLists :
       Sync(list, IF viewPin # NoPin THEN activeView ELSE loc[p].view)
  /\ GotoWith(p, "adopt", [loc[p] EXCEPT !.pinned = viewPin # NoPin])
  /\ UNCHANGED <<serverVars, clientLock, viewVars, sessionVars, targetVars,
                 configVars, budget>>

\* _note_active_session_locked
NoteActive(s) ==
  /\ previousSession' =
       IF s # activeSession /\ activeSession # NoSession
       THEN activeSession ELSE previousSession
  /\ activeSession' = s

\* The second half of _process, under paint_lock.
Adopt(p) ==
  /\ At(p, "adopt")
  /\ IF targetSelection = Local THEN UNCHANGED sessionVars
     ELSE NoteActive(loc[p].session)
  /\ activeView' = IF loc[p].pinned THEN activeView ELSE loc[p].view
  /\ IF p = Poll
     THEN GotoWith(p, "reload", NoLocals) /\ UNCHANGED cyclerVars
     ELSE Finish(p)
  /\ UNCHANGED <<serverVars, clientLock, viewPin, targetVars, configVars, budget>>

\* _run_active: watcher.poll(), then apply_reload when the file changed.
Reload ==
  /\ At(Poll, "reload")
  /\ IF configEdited
     THEN /\ viewPin' = configPin
          /\ activeView' =
               IF configPin \notin {NoPin, viewPin} THEN configPin ELSE activeView
     ELSE UNCHANGED viewVars
  /\ configEdited' = FALSE
  /\ Finish(Poll)
  /\ UNCHANGED <<serverVars, clientLock, sessionVars, targetVars, configPin, budget>>

-----------------------------------------------------------------------------
\* _commit_view, in whichever thread calls it.

CommitView(p) ==
  /\ At(p, "commit")
  /\ Goto(p, IF viewPin # NoPin THEN "pinset" ELSE "plock")
  /\ UNCHANGED <<cyclerVars, serverVars, clientLock, viewVars, sessionVars,
                 targetVars, configVars, budget>>

\* Defect: a pinned commit also moves the view the dial counts from.
MovePin_MovesBase(p) ==
  /\ At(p, "pinset")
  /\ viewPin' = loc[p].view
  /\ activeView' = loc[p].view
  /\ committed' = loc[p].view
  /\ Goto(p, "resolve")
  /\ UNCHANGED <<names, pending, timer, tstate, tlabel, serverVars, clientLock,
                 sessionVars, targetVars, configVars, budget>>

MovePin(p) ==
  /\ At(p, "pinset")
  /\ viewPin' = loc[p].view
  /\ activeView' = loc[p].view
  /\ Goto(p, "resolve")
  /\ UNCHANGED <<cyclerVars, serverVars, clientLock, sessionVars, targetVars,
                 configVars, budget>>

\* A failed PATCH may or may not have reached the server.
PatchView(p) ==
  /\ At(p, "patch")
  /\ \/ /\ serverView' = loc[p].view
        /\ clientLock' = NoProc
        /\ Goto(p, "resolve")
        /\ UNCHANGED <<cyclerVars, budget>>
     \/ serverView' \in {serverView, loc[p].view} /\ Raise(p)
  /\ UNCHANGED <<serverActive, serverGroup, followable, viewVars, sessionVars,
                 targetVars, configVars>>

\* A debounce timer expires, then commits: on_commit is _commit_view.
TimerExpires(t) ==
  /\ \/ Expire(t)
     \/ tstate[t] = "cancelled" /\ Retire(t)
  /\ UNCHANGED <<serverVars, clientLock, viewVars, sessionVars, targetVars,
                 configVars, pc, loc, budget>>

TimerFires(t) ==
  /\ FireCommit(t)
  /\ GotoWith(t, "commit", [NoLocals EXCEPT !.view = tlabel'[t]])
  /\ UNCHANGED <<serverVars, clientLock, viewVars, sessionVars, targetVars,
                 configVars, budget>>

\* _trigger_view_all's thread: ViewCycler.press, whose on_commit is _commit_view.
PressViewAll(w) ==
  /\ At(w, "press")
  /\ Press
  /\ GotoWith(w, "commit", [NoLocals EXCEPT !.view = All])
  /\ UNCHANGED <<serverVars, clientLock, viewVars, sessionVars, targetVars,
                 configVars, budget>>

-----------------------------------------------------------------------------
\* _do_connect's thread.  Focus is a call made without client_lock.

\* Defect: the connect is sent without taking client_lock.
RaiseFocus_SkipsLock(w) ==
  /\ At(w, "focus")
  /\ Goto(w, "connect")
  /\ UNCHANGED <<cyclerVars, serverVars, clientLock, viewVars, sessionVars,
                 targetVars, configVars, budget>>

RaiseFocus(w) ==
  /\ At(w, "focus")
  /\ Goto(w, "clock")
  /\ UNCHANGED <<cyclerVars, serverVars, clientLock, viewVars, sessionVars,
                 targetVars, configVars, budget>>

Connect(w) ==
  /\ At(w, "connect")
  /\ \/ /\ serverActive' = loc[w].session
        /\ clientLock' = NoProc
        /\ Finish(w)
        /\ UNCHANGED budget
     \/ serverActive' \in {serverActive, loc[w].session} /\ Raise(w)
  /\ UNCHANGED <<serverView, serverGroup, followable, viewVars, sessionVars,
                 targetVars, configVars>>

-----------------------------------------------------------------------------
\* Device events, on the callback thread.

Event(kind) == kind \in Kinds /\ At(Hid, "idle") /\ Spend("events")

\* threading.Thread(target=...).start()
Start(l, locals) == \E w \in Workers : At(w, "idle") /\ GotoWith(w, l, locals)

HidTurn(k) ==
  /\ Event("view_cycle") /\ ~targetPicker
  /\ Turn(k)
  /\ UNCHANGED <<serverVars, clientLock, viewVars, sessionVars, targetVars,
                 configVars, pc, loc>>

\* _select_view_option: the view picker's choice is committed on this thread.
HidViewOption(v) ==
  /\ Event("view_picker") /\ ~targetPicker
  /\ \E i \in 1 .. Len(names) : names[i] = v
  /\ GotoWith(Hid, "commit", [NoLocals EXCEPT !.view = v])
  /\ UNCHANGED <<cyclerVars, serverVars, clientLock, viewVars, sessionVars,
                 targetVars, configVars>>

\* connect_slot and _toggle_last: highlight at once, connect in the background.
ConnectTo(s) ==
  /\ ~targetPicker
  /\ NoteActive(s)
  /\ Start("focus", [NoLocals EXCEPT !.session = s])
  /\ UNCHANGED <<cyclerVars, serverVars, clientLock, viewVars, targetVars, configVars>>

HidSessionKey(s) == Event("session") /\ ConnectTo(s)

HidToggleLast ==
  /\ Event("toggle_last")
  /\ previousSession # NoSession
  /\ ConnectTo(previousSession)

HidViewAll ==
  /\ Event("view_all") /\ ~targetPicker
  /\ Start("press", NoLocals)
  /\ UNCHANGED <<cyclerVars, serverVars, clientLock, viewVars, sessionVars,
                 targetVars, configVars>>

HidRefreshNow ==
  /\ Event("refresh_now") /\ ~targetPicker
  /\ Start("resolve", NoLocals)
  /\ UNCHANGED <<cyclerVars, serverVars, clientLock, viewVars, sessionVars,
                 targetVars, configVars>>

\* Blocked while the active session is on a peer.
HidTargetPicker ==
  /\ Event("target_picker")
  /\ activeSession \notin Remote
  /\ targetPicker' = ~targetPicker
  /\ UNCHANGED <<cyclerVars, serverVars, clientLock, viewVars, sessionVars,
                 targetSelection, configVars, pc, loc>>

\* _select_target_option, then _commit_target's refresh on this thread.
HidTargetOption(x) ==
  /\ Event("target_picker") /\ targetPicker
  /\ targetPicker' = FALSE
  /\ targetSelection' = x
  /\ Goto(Hid, "resolve")
  /\ UNCHANGED <<cyclerVars, serverVars, clientLock, viewVars, sessionVars, configVars>>

-----------------------------------------------------------------------------
\* Other clients of the server, and the user editing config.json.

Elsewhere(kind) == kind \in Kinds /\ Spend("external")

OthersAct ==
  /\ \/ /\ Elsewhere("others_view")
        /\ serverView' \in View \ {serverView}
        /\ UNCHANGED <<serverActive, followable>>
     \/ /\ Elsewhere("others_session")
        /\ serverActive' \in SessionOrNone \ {serverActive}
        /\ UNCHANGED <<serverView, followable>>
     \/ /\ Elsewhere("device_gone")
        /\ \E d \in followable : followable' = followable \ {d}
        /\ UNCHANGED <<serverView, serverActive>>
  /\ UNCHANGED <<cyclerVars, serverGroup, clientLock, viewVars, sessionVars,
                 targetVars, configVars, pc, loc>>

EditConfig ==
  /\ Elsewhere("config")
  /\ configPin' \in PinEdits
  /\ configEdited' = TRUE
  /\ UNCHANGED <<cyclerVars, serverVars, clientLock, viewVars, sessionVars,
                 targetVars, pc, loc>>

-----------------------------------------------------------------------------
Device ==
  \/ \E k \in Ticks : HidTurn(k)
  \/ \E v \in View : HidViewOption(v)
  \/ \E s \in Sessions : HidSessionKey(s)
  \/ HidToggleLast \/ HidViewAll \/ HidRefreshNow \/ HidTargetPicker
  \/ \E x \in Targets : HidTargetOption(x)

\* The steps of a thread that has work, except the one that waits for a lock.
Step(p) ==
  \/ ResolveGroup(p) \/ DegradeTarget(p) \/ Heartbeat(p) \/ Fetch(p)
  \/ SyncCycler(p) \/ Adopt(p) \/ CommitView(p) \/ MovePin(p) \/ PatchView(p)
  \/ p = Poll /\ Reload
  \/ p \in Timers /\ (TimerExpires(p) \/ TimerFires(p))
  \/ p \in Workers /\ (PressViewAll(p) \/ RaiseFocus(p) \/ Connect(p))

Next ==
  \/ Device \/ OthersAct \/ EditConfig
  \/ \E p \in Procs : Step(p) \/ Acquire(p)

\* Every thread runs; the HTTP client's timeouts end every call.  A thread
\* waiting for client_lock gets it: the poll loop, the one user that keeps
\* coming back, sleeps poll_interval between two uses.
Fairness == \A p \in Procs : WF_vars(Step(p)) /\ SF_vars(Acquire(p))

Spec == Init /\ [][Next]_vars /\ Fairness

-----------------------------------------------------------------------------
InCall(p) == pc[p] \in {"beat", "rebeat", "fetch", "patch", "connect"}

\* Apart from focus requests, at most one call is in flight: polls, commits and
\* connects made from different threads never overlap on the HTTP client.
CallsSerialized == \A p, q \in Procs : InCall(p) /\ InCall(q) => p = q

\* No handler, commit or connect is left waiting for client_lock or an answer.
ThreadsDone == \A p \in Procs \ {Poll} : pc[p] = "idle"

\* The deck shows the view the server has (a pinned deck shows its own).
ViewAgrees ==
  viewPin = NoPin =>
    activeView = serverView /\ (~IsTurning => committed = serverView)

\* The highlight is on the server's session ("Just me" freezes it on purpose).
SessionAgrees == targetSelection # Local => activeSession = serverActive

\* The server has the group the deck says it follows, and the deck does not
\* insist on a target that is gone.
TargetAgrees ==
  targetSelection \in Devices \cup {Shared} =>
    /\ serverGroup = targetSelection
    /\ targetSelection \in followable \cup {Shared}

\* When the user and the other clients have stopped, every thread ends and the
\* deck agrees with the server for good, however polls, commits, failed calls
\* and optimistic highlights interleaved before.
Settles == <>[](ThreadsDone /\ ViewAgrees /\ SessionAgrees /\ TargetAgrees)

\* _process's docstring: with a pin "`active_view` is left exactly as-is at the
\* end (never overwritten from the server)"; apply_reload and _commit_view set
\* both, so a pinned deck renders its pin.
PinHeld == viewPin # NoPin => activeView = viewPin

\* The runtime drives its dial only as ViewCycler allows: whatever a poll, a
\* commit or a thread that dies of a failed call does, each of its steps is one
\* method call, one timer step, or leaves the cycler alone.
CyclerRefined == CyclerInit /\ [][CyclerNext]_cyclerVars
=============================================================================
