--------------------------- MODULE LifecycleProofs ---------------------------
(***************************************************************************)
(* What Lifecycle guarantees for any number of processes, any budget of    *)
(* events and faults and any way of telling failures apart: one driver at  *)
(* a time, no leaked handle, one identity.                                 *)
(***************************************************************************)
EXTENDS Lifecycle, TLAPS

\* The lock is held by whoever is past it.
LockHeld == \A p \in Proc : Running(p) => lock = p

\* Where a process has no handle, the start and the end included.
Idle == Bringing \cup {"off", "exited", "cleanup", "unlock"}
HandleClosed == \A p \in Proc : pc[p] \in Idle => handle[p] = "none"

\* A minting process has truncated the file; an identity in use is in it.
IdentitySaved ==
  \A p \in Proc : /\ pc[p] = "mint" => identityFile = Torn
                  /\ deviceId[p] # NoId => identityFile = deviceId[p]

LifecycleInv == LifecycleTypeOK /\ LockHeld /\ HandleClosed /\ IdentitySaved

\* The strengthening holds initially.
LEMMA InitInv == Init => LifecycleInv
  BY LifecycleAssumption
  DEF Init, LifecycleInv, LifecycleTypeOK, LockHeld, HandleClosed, IdentitySaved,
      Running, PC, Status, NewStatus, Bringing

\* What a process does not do itself.
Outside(p) == CallbackPaints(p) \/ ReaderCloses(p) \/ Signal(p) \/ Kill(p)

\* Publishing keeps the status files' types.
LEMMA PublishType ==
  ASSUME LifecycleTypeOK, NEW p \in Proc, NEW known \in Status, Publish(p, known)
  PROVE  /\ reporter' \in [Proc -> Status]
         /\ statusFile' \in [pid : Proc \cup {NoOne}, says : Status]
         /\ faults' \in 0 .. MaxFaults
  BY LifecycleAssumption DEF LifecycleTypeOK, Publish, Fault

\* What update merges into the last known state is a status again.
LEMMA KnownType ==
  ASSUME LifecycleTypeOK, NEW p \in Proc, NEW c \in Causes \cup {None}
  PROVE  /\ NotServing(p) \in Status
         /\ [NotServing(p) EXCEPT !.hint = c] \in Status
         /\ [reporter[p] EXCEPT !.device = TRUE] \in Status
         /\ \A b \in BOOLEAN : [reporter[p] EXCEPT !.server = b] \in Status
  BY DEF LifecycleTypeOK, NotServing, Status

\* A step keeps the types.
LEMMA TypeStep == LifecycleTypeOK /\ [Next]_vars => LifecycleTypeOK'
<1> SUFFICES ASSUME LifecycleTypeOK, [Next]_vars PROVE LifecycleTypeOK'
  OBVIOUS
<1> USE LifecycleAssumption
<1>1. ASSUME NEW p \in Proc, Start(p) PROVE LifecycleTypeOK'
  BY <1>1 DEF Start, LifecycleTypeOK, Goto, sessionVars, fileVars, identityVars, envVars, PC, Bringing
<1>2. ASSUME NEW p \in Proc, LoadIdentity(p) \/ SaveIdentity(p) PROVE LifecycleTypeOK'
  BY <1>2 DEF LoadIdentity, SaveIdentity, LifecycleTypeOK, Goto, Fault, sessionVars, fileVars,
              identityVars, envVars, PC, Bringing
<1>3. ASSUME NEW p \in Proc, StopLoop(p) \/ Pause(p) PROVE LifecycleTypeOK'
  BY <1>3 DEF StopLoop, Pause, LifecycleTypeOK, Goto, sessionVars, fileVars,
              identityVars, envVars, PC, Bringing
<1>4. ASSUME NEW p \in Proc, FindDeck(p) PROVE LifecycleTypeOK'
  <2>1. /\ reporter' \in [Proc -> Status]
        /\ statusFile' \in [pid : Proc \cup {NoOne}, says : Status]
        /\ faults' \in 0 .. MaxFaults
    <3>1. CASE Publish(p, [NotServing(p) EXCEPT !.hint = None])
      BY <3>1, PublishType, KnownType
    <3>2. CASE UNCHANGED fileVars /\ (Fault \/ UNCHANGED faults)
      BY <3>2 DEF fileVars, LifecycleTypeOK, Fault
    <3> QED
      BY <1>4, <3>1, <3>2 DEF FindDeck
  <2> QED
    BY <1>4, <2>1 DEF FindDeck, LifecycleTypeOK, Goto, identityVars, envVars, PC, Bringing
<1>5. ASSUME NEW p \in Proc, OpenDeck(p) PROVE LifecycleTypeOK'
  <2>1. CASE Opened(p)
    BY <1>5, <2>1 DEF OpenDeck, Opened, LifecycleTypeOK, Goto, fileVars, identityVars, envVars,
                      PC, Bringing
  <2>2. CASE OpenFailed(p)
    <3>1. Noted(p, OpenFailure) \in Causes
      BY <2>2 DEF Noted, OpenFailed, OpenFailure, LifecycleTypeOK, Causes
    <3>2. /\ reporter' \in [Proc -> Status]
          /\ statusFile' \in [pid : Proc \cup {NoOne}, says : Status]
          /\ faults' \in 0 .. MaxFaults
      BY <2>2, <3>1, PublishType, KnownType DEF OpenFailed
    <3> QED
      BY <1>5, <2>2, <3>1, <3>2 DEF OpenDeck, OpenFailed, LifecycleTypeOK, Goto, identityVars,
                                    envVars, PC, Bringing
  <2> QED
    BY <1>5, <2>1, <2>2 DEF OpenDeck
<1>6. ASSUME NEW p \in Proc, BringUp(p) PROVE LifecycleTypeOK'
  <2>1. /\ reporter' \in [Proc -> Status]
        /\ statusFile' \in [pid : Proc \cup {NoOne}, says : Status]
        /\ faults' \in 0 .. MaxFaults
    <3>1. CASE Publish(p, [reporter[p] EXCEPT !.device = TRUE])
      BY <3>1, PublishType, KnownType
    <3>2. CASE UNCHANGED fileVars /\ (Fault \/ UNCHANGED faults)
      BY <3>2 DEF fileVars, LifecycleTypeOK, Fault
    <3> QED
      BY <1>6, <3>1, <3>2 DEF BringUp
  <2> QED
    BY <1>6, <2>1 DEF BringUp, LifecycleTypeOK, Goto, identityVars, envVars, PC, Serving
<1>7. ASSUME NEW p \in Proc, CheckDeck(p) \/ Wait(p) PROVE LifecycleTypeOK'
  BY <1>7 DEF CheckDeck, Wait, Leave, LifecycleTypeOK, Goto, sessionVars, fileVars,
              identityVars, envVars, PC, Serving
<1>8. ASSUME NEW p \in Proc, Refresh(p) PROVE LifecycleTypeOK'
  <2>1. /\ reporter' \in [Proc -> Status]
        /\ statusFile' \in [pid : Proc \cup {NoOne}, says : Status]
        /\ faults' \in 0 .. MaxFaults
    <3>1. CASE Served(p) \/ Failed(p)
      BY <3>1, PublishType, KnownType DEF Served, Failed
    <3>2. CASE Raised(p)
      BY <3>2 DEF Raised, fileVars, LifecycleTypeOK, Fault
    <3> QED
      BY <1>8, <3>1, <3>2 DEF Refresh
  <2>2. /\ shownError' \in [Proc -> {None, "unreachable", "auth"}]
        /\ screen' \in {"blank", "status", "tiles"}
        /\ pc' \in [Proc -> PC]
        /\ ret' \in [Proc -> {"find", "recover", "pause", "unlock"}]
    BY <1>8 DEF Refresh, Served, Failed, Raised, Leave, Goto, LifecycleTypeOK, Servers, PC, Serving
  <2> QED
    BY <1>8, <2>1, <2>2 DEF Refresh, LifecycleTypeOK, identityVars, envVars
<1>9. ASSUME NEW p \in Proc, Finally(p) \/ Recover(p) PROVE LifecycleTypeOK'
  <2>1. /\ reporter' \in [Proc -> Status]
        /\ statusFile' \in [pid : Proc \cup {NoOne}, says : Status]
        /\ faults' \in 0 .. MaxFaults
    BY <1>9, PublishType, KnownType DEF Finally, Recover
  <2> QED
    BY <1>9, <2>1 DEF Finally, Recover, SafeClose, LifecycleTypeOK, Goto, sessionVars,
                      identityVars, envVars, PC
<1>10. ASSUME NEW p \in Proc, ResetDeck(p) \/ CloseDeck(p) PROVE LifecycleTypeOK'
  BY <1>10 DEF ResetDeck, CloseDeck, LifecycleTypeOK, Goto, Fault, sessionVars, fileVars,
               identityVars, envVars, PC, Bringing
<1>11. ASSUME NEW p \in Proc, Cleanup(p) \/ Release(p) PROVE LifecycleTypeOK'
  BY <1>11 DEF Cleanup, Release, SafeClose, LifecycleTypeOK, Goto, sessionVars, fileVars,
               identityVars, envVars, PC
<1>12. ASSUME NEW p \in Proc, Outside(p) PROVE LifecycleTypeOK'
  <2>1. CASE CallbackPaints(p) \/ ReaderCloses(p)
    BY <2>1 DEF CallbackPaints, ReaderCloses, LifecycleTypeOK, sessionVars, fileVars,
                identityVars, envVars
  <2>2. CASE Signal(p)
    BY <2>2 DEF Signal, LifecycleTypeOK, sessionVars, fileVars, identityVars, envVars
  <2>3. CASE Kill(p)
    BY <2>3 DEF Kill, Goto, Fault, LifecycleTypeOK, sessionVars, fileVars, identityVars, envVars, PC
  <2> QED
    BY <1>12, <2>1, <2>2, <2>3 DEF Outside
<1>13. ASSUME World PROVE LifecycleTypeOK'
  <2>1. CASE Unplug
    <3>1. handle' \in [Proc -> {"open", "dead", "none"}]
      BY <2>1 DEF Unplug, LifecycleTypeOK
    <3>2. /\ Event /\ Same /\ UNCHANGED <<access, server>>
          /\ plugged' = FALSE /\ screen' = "blank"
      BY <2>1 DEF Unplug
    <3>3. /\ plugged' \in BOOLEAN /\ access' \in {"ok"} \cup Denials /\ server' \in Servers
          /\ screen' \in {"blank", "status", "tiles"}
      BY <3>2 DEF LifecycleTypeOK
    <3>4. events' \in 0 .. MaxEvents /\ faults' \in 0 .. MaxFaults
      BY <3>2 DEF Event, Same, LifecycleTypeOK
    <3> QED
      BY <3>1, <3>2, <3>3, <3>4 DEF Same, LifecycleTypeOK, sessionVars, fileVars, identityVars
  <2>2. CASE Plug
    BY <2>2 DEF Plug, Event, Same, LifecycleTypeOK, sessionVars, fileVars, identityVars
  <2>3. CASE AccessChanges
    BY <2>3 DEF AccessChanges, Event, Same, LifecycleTypeOK, sessionVars, fileVars, identityVars
  <2>4. CASE ServerChanges
    BY <2>4 DEF ServerChanges, Event, Same, LifecycleTypeOK, sessionVars, fileVars, identityVars
  <2> QED
    BY <1>13, <2>1, <2>2, <2>3, <2>4 DEF World
<1>14. CASE UNCHANGED vars
  BY <1>14 DEF vars, LifecycleTypeOK, sessionVars, fileVars, identityVars, envVars
<1> QED
  BY <1>1, <1>2, <1>3, <1>4, <1>5, <1>6, <1>7, <1>8, <1>9, <1>10, <1>11, <1>12, <1>13, <1>14
  DEF Next, Loop, Outside

\* Nobody runs without the lock, so nobody takes it from a running process.
LEMMA LockStep == LifecycleInv /\ [Next]_vars => LockHeld'
<1> SUFFICES ASSUME LifecycleInv, [Next]_vars PROVE LockHeld'
  OBVIOUS
<1> USE LifecycleAssumption DEF LifecycleInv, LifecycleTypeOK, LockHeld, Running
<1>1. ASSUME NEW p \in Proc, Start(p) PROVE LockHeld'
  BY <1>1 DEF Start, Goto
<1>2. ASSUME NEW p \in Proc, Running(p), UNCHANGED lock,
             \A q \in Proc \ {p} : pc'[q] = pc[q]
      PROVE  LockHeld'
  BY <1>2
<1>3. ASSUME NEW p \in Proc, Loop(p), ~Release(p) PROVE LockHeld'
  <2>1. Running(p) /\ UNCHANGED lock /\ \A q \in Proc \ {p} : pc'[q] = pc[q]
    BY <1>3 DEF Loop, LoadIdentity, SaveIdentity, StopLoop, FindDeck, Pause, OpenDeck, Opened,
                OpenFailed, BringUp, CheckDeck, Refresh, Served, Failed, Raised, Wait, Finally,
                Recover, ResetDeck, CloseDeck, Cleanup, Leave, SafeClose, Goto
  <2> QED
    BY <1>2, <2>1
<1>4. ASSUME NEW p \in Proc, Release(p) \/ Kill(p) PROVE LockHeld'
  BY <1>4 DEF Release, Kill, Goto
<1>5. ASSUME NEW p \in Proc, CallbackPaints(p) \/ ReaderCloses(p) \/ Signal(p) PROVE LockHeld'
  BY <1>5 DEF CallbackPaints, ReaderCloses, Signal
<1>6. CASE World \/ UNCHANGED vars
  BY <1>6 DEF World, Unplug, Plug, AccessChanges, ServerChanges, Same, vars
<1> QED
  BY <1>1, <1>3, <1>4, <1>5, <1>6 DEF Next

\* Every way into an idle label closed the handle or never had one.
LEMMA HandleStep == LifecycleInv /\ [Next]_vars => HandleClosed'
<1> SUFFICES ASSUME LifecycleInv, [Next]_vars PROVE HandleClosed'
  OBVIOUS
<1> USE LifecycleAssumption
    DEF LifecycleInv, LifecycleTypeOK, HandleClosed, Idle, Bringing, Goto
<1>1. ASSUME NEW p \in Proc,
             Start(p) \/ LoadIdentity(p) \/ SaveIdentity(p) \/ StopLoop(p) \/ FindDeck(p) \/ Pause(p)
               \/ Release(p)
      PROVE  HandleClosed'
  <2>1. UNCHANGED handle /\ pc[p] \in Idle /\ \A q \in Proc \ {p} : pc'[q] = pc[q]
    BY <1>1 DEF Start, LoadIdentity, SaveIdentity, StopLoop, FindDeck, Pause, Release
  <2> QED
    BY <2>1
<1>2. ASSUME NEW p \in Proc, OpenDeck(p) PROVE HandleClosed'
  BY <1>2 DEF OpenDeck, Opened, OpenFailed
<1>3. ASSUME NEW p \in Proc,
             \/ BringUp(p) \/ CheckDeck(p) \/ Refresh(p) \/ Wait(p) \/ Finally(p) \/ Recover(p)
             \/ ResetDeck(p)
      PROVE  HandleClosed'
  <2>1. /\ UNCHANGED handle /\ \A q \in Proc \ {p} : pc'[q] = pc[q]
        /\ pc'[p] \in Serving \cup {"recover", "reset", "close"}
    BY <1>3 DEF BringUp, CheckDeck, Refresh, Served, Failed, Raised, Wait, Finally, Recover,
                ResetDeck, Leave, SafeClose, Serving
  <2> QED
    BY <2>1 DEF Serving
<1>4. ASSUME NEW p \in Proc, CloseDeck(p) \/ Kill(p) PROVE HandleClosed'
  BY <1>4 DEF CloseDeck, Kill
<1>5. ASSUME NEW p \in Proc, Cleanup(p) PROVE HandleClosed'
  BY <1>5 DEF Cleanup, SafeClose
<1>6. ASSUME NEW p \in Proc, CallbackPaints(p) \/ ReaderCloses(p) \/ Signal(p)
      PROVE  HandleClosed'
  BY <1>6 DEF CallbackPaints, ReaderCloses, Signal
<1>7. CASE World \/ UNCHANGED vars
  BY <1>7 DEF World, Unplug, Plug, AccessChanges, ServerChanges, Same, vars
<1> QED
  BY <1>1, <1>2, <1>3, <1>4, <1>5, <1>6, <1>7 DEF Next, Loop

\* The file changes only while no identity is in use, and then by the one
\* process that mints.
LEMMA IdentityStep == LifecycleInv /\ [Next]_vars => IdentitySaved'
<1> SUFFICES ASSUME LifecycleInv, [Next]_vars PROVE IdentitySaved'
  OBVIOUS
<1> USE LifecycleAssumption DEF LifecycleInv, LifecycleTypeOK, IdentitySaved, Goto
<1>1. ASSUME NEW p \in Proc, LoadIdentity(p) PROVE IdentitySaved'
  BY <1>1 DEF LoadIdentity
<1>2. ASSUME NEW p \in Proc, SaveIdentity(p) PROVE IdentitySaved'
  <2>1. \A q \in Proc \ {p} : pc[q] # "mint"
    BY <1>2 DEF SaveIdentity, LockHeld, Running
  <2>2. \A q \in Proc : deviceId[q] = NoId
    BY <1>2 DEF SaveIdentity
  <2> QED
    BY <1>2, <2>1, <2>2 DEF SaveIdentity, identityVars
<1>3. ASSUME UNCHANGED identityVars,
             \A q \in Proc : pc'[q] = "mint" => pc[q] = "mint"
      PROVE  IdentitySaved'
  BY <1>3 DEF identityVars
<1>4. ASSUME NEW p \in Proc, Start(p) \/ Outside(p) PROVE IdentitySaved'
  <2>1. UNCHANGED identityVars /\ \A q \in Proc : pc'[q] = "mint" => pc[q] = "mint"
    BY <1>4 DEF Start, Outside, CallbackPaints, ReaderCloses, Signal, Kill
  <2> QED
    BY <1>3, <2>1
<1>5. ASSUME NEW p \in Proc, Loop(p), ~LoadIdentity(p), ~SaveIdentity(p) PROVE IdentitySaved'
  <2>1. UNCHANGED identityVars
    BY <1>5 DEF Loop, StopLoop, FindDeck, Pause, OpenDeck, BringUp, CheckDeck, Refresh, Wait,
                Finally, Recover, ResetDeck, CloseDeck, Cleanup, Release
  <2>2. \A q \in Proc : pc'[q] = "mint" => pc[q] = "mint"
    BY <1>5 DEF Loop, StopLoop, FindDeck, Pause, OpenDeck, Opened, OpenFailed, BringUp, CheckDeck,
                Refresh, Served, Failed, Raised, Wait, Finally, Recover, ResetDeck, CloseDeck,
                Cleanup, Release, Leave, SafeClose
  <2> QED
    BY <1>3, <2>1, <2>2
<1>6. CASE World \/ UNCHANGED vars
  BY <1>6 DEF World, Unplug, Plug, AccessChanges, ServerChanges, Same, vars, identityVars
<1> QED
  BY <1>1, <1>2, <1>4, <1>5, <1>6 DEF Next, Outside

-----------------------------------------------------------------------------
\* The inductive invariant holds in every reachable state.
THEOREM LifecycleInvariant == Spec => []LifecycleInv
<1>1. LifecycleInv /\ [Next]_vars => LifecycleInv'
  BY TypeStep, LockStep, HandleStep, IdentityStep DEF LifecycleInv
<1> QED
  BY InitInv, <1>1, PTL DEF Spec

\* Every variable keeps its type (the run's type invariant).
THEOREM LifecycleTypeCorrect == Spec => []LifecycleTypeOK
<1>1. LifecycleInv => LifecycleTypeOK
  BY DEF LifecycleInv
<1> QED
  BY LifecycleInvariant, <1>1, PTL

\* However many processes are started, killed and told to stop, at most one
\* is past the instance lock, and only it can have the deck open.
THEOREM OneDriverAtATime == Spec => []SoleDriver
<1>1. LifecycleInv => SoleDriver
  BY LifecycleAssumption
  DEF LifecycleInv, LifecycleTypeOK, LockHeld, HandleClosed, SoleDriver, Running, Idle
<1> QED
  BY LifecycleInvariant, <1>1, PTL

\* No path through the session, its errors and its recovery comes back to
\* the loop with the deck still open.
THEOREM HandlesAreClosed == Spec => []NoLeakedHandle
<1>1. LifecycleInv => NoLeakedHandle
  BY DEF LifecycleInv, HandleClosed, NoLeakedHandle, Idle
<1> QED
  BY LifecycleInvariant, <1>1, PTL

\* However often minting is interrupted, all processes use one identity.
THEOREM IdentityNeverChurns == Spec => []IdentityKept
<1>1. LifecycleInv => IdentityKept
  BY DEF LifecycleInv, IdentitySaved, IdentityKept
<1> QED
  BY LifecycleInvariant, <1>1, PTL
=============================================================================
