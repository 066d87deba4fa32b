------------------------------ MODULE Lifecycle ------------------------------
(***************************************************************************)
(* A process of the sidecar from start to exit (main.py: run, _run,        *)
(* _run_active, _safe_close, _shutdown_cleanup), with the instance lock    *)
(* (singleton.py), the identity file (identity.py) and the status file     *)
(* (statusfile.py) that processes share.  A process owns at most one       *)
(* handle; the deck can be unplugged, refuse to open, or lose its server   *)
(* between any two steps, and a process can be told to stop or be killed.  *)
(***************************************************************************)
EXTENDS Integers

CONSTANTS
  Proc,        \* processes, each of which is started once
  NoOne,       \* nobody holds the lock; the pid of a status never written
  NoId, Torn,  \* identity.json does not exist; was truncated and not written
  Denials,     \* why opening a deck that is there can fail
  Signature,   \* what _FailureEpisode tells failures apart by
  MaxEvents,   \* bound: plugs, unplugs, changes of access and of the server
  MaxFaults    \* bound: failed calls and writes, and kills

None == "none"
Causes == Denials \cup {"gone"}

ASSUME LifecycleAssumption ==
  /\ NoOne \notin Proc /\ NoId \notin Proc /\ Torn \notin Proc /\ NoId # Torn
  /\ None \notin Causes /\ "ok" \notin Causes
  /\ DOMAIN Signature = Causes
  /\ MaxEvents \in Nat /\ MaxFaults \in Nat

VARIABLES
  lock,           \* who holds the lock on muxplex-deck.lock
  pc, ret,        \* where a process is; where _safe_close returns to
  shuttingDown,   \* the event a signal sets
  handle,         \* "open", "dead" (open on a deck that left) or "none"
  currentDeck,    \* current_deck is not None
  episode,        \* open_episode: the cause its detail was built from
  reporter,       \* StatusReporter._state
  statusFile,
  identityFile, deviceId,
  shownError,     \* shown_error_state
  plugged, access, server,   \* the deck on the bus, opening it, the server
  screen,         \* what the deck shows
  events, faults

fileVars == <<reporter, statusFile>>
identityVars == <<identityFile, deviceId>>
envVars == <<plugged, access, server, events>>
sessionVars == <<episode, shownError, currentDeck>>
vars == <<lock, pc, ret, shuttingDown, handle, sessionVars, fileVars,
          identityVars, envVars, screen, faults>>

\* The steps of a process.  "leave" is the finally clause of _run_active,
\* "reset" and "close" are _safe_close, "cleanup" the finally clause of _run.
Bringing == {"identity", "mint", "find", "pause", "open"}
Serving == {"serve", "refresh", "wait", "leave"}
PC == Bringing \cup Serving
        \cup {"off", "bringup", "reset", "close", "recover", "cleanup", "unlock", "exited"}

Servers == {"up", "unreachable", "auth"}
Status == [device : BOOLEAN, server : BOOLEAN, hint : Causes \cup {None}]
NewStatus == [device |-> FALSE, server |-> FALSE, hint |-> None]

LifecycleTypeOK ==
  /\ lock \in Proc \cup {NoOne}
  /\ pc \in [Proc -> PC] /\ ret \in [Proc -> {"find", "recover", "pause", "unlock"}]
  /\ shuttingDown \in [Proc -> BOOLEAN]
  /\ handle \in [Proc -> {"open", "dead", "none"}]
  /\ currentDeck \in [Proc -> BOOLEAN]
  /\ episode \in [Proc -> Causes \cup {None}]
  /\ reporter \in [Proc -> Status]
  /\ statusFile \in [pid : Proc \cup {NoOne}, says : Status]
  /\ identityFile \in Proc \cup {NoId, Torn}
  /\ deviceId \in [Proc -> Proc \cup {NoId}]
  /\ shownError \in [Proc -> {None, "unreachable", "auth"}]
  /\ plugged \in BOOLEAN /\ access \in {"ok"} \cup Denials /\ server \in Servers
  /\ screen \in {"blank", "status", "tiles"}
  /\ events \in 0 .. MaxEvents /\ faults \in 0 .. MaxFaults

Init ==
  /\ lock = NoOne
  /\ pc = [p \in Proc |-> "off"] /\ ret = [p \in Proc |-> "find"]
  /\ shuttingDown = [p \in Proc |-> FALSE]
  /\ handle = [p \in Proc |-> "none"]
  /\ currentDeck = [p \in Proc |-> FALSE]
  /\ episode = [p \in Proc |-> None]
  /\ reporter = [p \in Proc |-> NewStatus]
  /\ statusFile = [pid |-> NoOne, says |-> NewStatus]
  /\ identityFile = NoId /\ deviceId = [p \in Proc |-> NoId]
  /\ shownError = [p \in Proc |-> None]
  /\ plugged \in BOOLEAN /\ access \in {"ok"} \cup Denials /\ server \in Servers
  /\ screen = "blank"
  /\ events = 0 /\ faults = 0

-----------------------------------------------------------------------------
Running(p) == pc[p] \notin {"off", "exited"}
Goto(p, label) == pc' = [pc EXCEPT ![p] = label]
Fault == faults < MaxFaults /\ faults' = faults + 1

\* StatusReporter.update: merge the fields into the last known state and
\* write all of it; write_status swallows a failure.
Publish(p, known) ==
  /\ reporter' = [reporter EXCEPT ![p] = known]
  /\ \/ statusFile' = [pid |-> p, says |-> known] /\ UNCHANGED faults
     \/ Fault /\ UNCHANGED statusFile

NotServing(p) == [reporter[p] EXCEPT !.device = FALSE, !.server = FALSE]

OpenFailure == IF plugged THEN access ELSE "gone"

\* Defect: the error itself is kept and published, not what explains it.
Noted_RawError(p, cause) == Signature[cause]

\* _FailureEpisode.note builds the detail on a change of signature only.
Noted(p, cause) ==
  IF episode[p] # None /\ Signature[episode[p]] = Signature[cause]
    THEN episode[p] ELSE cause

\* Defect: only whether the deck is on the bus is looked at.
Healthy_ConnectedOnly(p) == plugged

\* deck.is_open() and deck.connected().
Healthy(p) == handle[p] # "none" /\ plugged

SafeClose(p, return) == Goto(p, "reset") /\ ret' = [ret EXCEPT ![p] = return]

-----------------------------------------------------------------------------
\* run and the identity.

Start(p) ==
  /\ pc[p] = "off"
  /\ \/ lock = NoOne /\ lock' = p /\ Goto(p, "identity")
     \/ lock # NoOne /\ Goto(p, "exited") /\ UNCHANGED lock
  /\ UNCHANGED <<ret, shuttingDown, handle, sessionVars, fileVars, identityVars,
                 envVars, screen, faults>>

\* Defect: the minted identity is used before it is saved.
LoadIdentity_UsedFirst(p) ==
  /\ pc[p] = "identity"
  /\ \/ identityFile \in {NoId, Torn}
        /\ identityFile' = Torn /\ deviceId' = [deviceId EXCEPT ![p] = p]
        /\ Goto(p, "mint")
     \/ identityFile \notin {NoId, Torn}
        /\ deviceId' = [deviceId EXCEPT ![p] = identityFile]
        /\ Goto(p, "find") /\ UNCHANGED identityFile
  /\ UNCHANGED <<lock, ret, shuttingDown, handle, sessionVars, fileVars, envVars, screen, faults>>

\* write_text truncates the file before it writes.
LoadIdentity(p) ==
  /\ pc[p] = "identity"
  /\ \/ identityFile \in {NoId, Torn}
        /\ identityFile' = Torn /\ Goto(p, "mint") /\ UNCHANGED deviceId
     \/ identityFile \notin {NoId, Torn}
        /\ deviceId' = [deviceId EXCEPT ![p] = identityFile]
        /\ Goto(p, "find") /\ UNCHANGED identityFile
  /\ UNCHANGED <<lock, ret, shuttingDown, handle, sessionVars, fileVars, envVars, screen, faults>>

\* A failed write leaves _run through run's finally clause.
SaveIdentity(p) ==
  /\ pc[p] = "mint"
  /\ \/ identityFile' = p /\ deviceId' = [deviceId EXCEPT ![p] = p]
        /\ Goto(p, "find") /\ UNCHANGED faults
     \/ Fault /\ Goto(p, "unlock") /\ UNCHANGED identityVars
  /\ UNCHANGED <<lock, ret, shuttingDown, handle, sessionVars, fileVars, envVars, screen>>

-----------------------------------------------------------------------------
\* The hotplug loop.

StopLoop(p) ==
  /\ pc[p] = "find" /\ shuttingDown[p]
  /\ Goto(p, "cleanup")
  /\ UNCHANGED <<lock, ret, shuttingDown, handle, sessionVars, fileVars, identityVars,
                 envVars, screen, faults>>

FindDeck(p) ==
  /\ pc[p] = "find" /\ ~shuttingDown[p]
  /\ \/ /\ Fault /\ Goto(p, "pause")            \* enumerating raised
        /\ UNCHANGED <<currentDeck, episode, fileVars>>
     \/ /\ ~plugged
        /\ Publish(p, [NotServing(p) EXCEPT !.hint = None])
        /\ currentDeck' = [currentDeck EXCEPT ![p] = FALSE]
        /\ episode' = [episode EXCEPT ![p] = None]
        /\ Goto(p, "pause")
     \/ /\ plugged
        /\ currentDeck' = [currentDeck EXCEPT ![p] = TRUE]
        /\ Goto(p, "open")
        /\ UNCHANGED <<episode, fileVars, faults>>
  /\ UNCHANGED <<lock, ret, shuttingDown, handle, shownError, identityVars, envVars, screen>>

Pause(p) ==
  /\ pc[p] = "pause"
  /\ Goto(p, "find")
  /\ UNCHANGED <<lock, ret, shuttingDown, handle, sessionVars, fileVars, identityVars,
                 envVars, screen, faults>>

Opened(p) ==
  /\ OpenFailure = "ok"
  /\ handle' = [handle EXCEPT ![p] = "open"]
  /\ episode' = [episode EXCEPT ![p] = None]
  /\ Goto(p, "bringup")
  /\ UNCHANGED <<fileVars, faults>>

\* Defect: a failure to open says nothing to the status file.
OpenFailed_NotPublished(p) ==
  /\ OpenFailure # "ok"
  /\ episode' = [episode EXCEPT ![p] = Noted(p, OpenFailure)]
  /\ Goto(p, "pause")
  /\ UNCHANGED <<handle, fileVars, faults>>

OpenFailed(p) ==
  /\ OpenFailure # "ok"
  /\ episode' = [episode EXCEPT ![p] = Noted(p, OpenFailure)]
  /\ Publish(p, [NotServing(p) EXCEPT !.hint = Noted(p, OpenFailure)])
  /\ Goto(p, "pause")
  /\ UNCHANGED handle

OpenDeck(p) ==
  /\ pc[p] = "open"
  /\ Opened(p) \/ OpenFailed(p)
  /\ UNCHANGED <<lock, ret, shuttingDown, currentDeck, shownError, identityVars, envVars, screen>>

-----------------------------------------------------------------------------
\* _run_active.  Every call to the deck raises once the deck has left.

BringUp(p) ==
  /\ pc[p] = "bringup"
  /\ \/ /\ handle[p] = "open"
        /\ Publish(p, [reporter[p] EXCEPT !.device = TRUE])
        /\ screen' = "status"
        /\ shownError' = [shownError EXCEPT ![p] = None]
        /\ Goto(p, "serve")
     \/ /\ IF handle[p] = "open" THEN Fault ELSE UNCHANGED faults
        /\ Goto(p, "recover")
        /\ UNCHANGED <<fileVars, screen, shownError>>
  /\ UNCHANGED <<lock, ret, shuttingDown, handle, episode, currentDeck, identityVars, envVars>>

\* Leaving the session for the finally clause, and where to after it.
Leave(p, return) == Goto(p, "leave") /\ ret' = [ret EXCEPT ![p] = return]

CheckDeck(p) ==
  /\ pc[p] = "serve"
  /\ \/ Healthy(p) /\ Goto(p, "refresh") /\ UNCHANGED ret
     \/ ~Healthy(p) /\ Leave(p, "find")
  /\ UNCHANGED <<lock, shuttingDown, handle, sessionVars, fileVars, identityVars,
                 envVars, screen, faults>>

\* A poll that the server answered; with nothing to repaint it does not
\* find out that the deck has left.
Served(p) ==
  /\ server = "up"
  /\ handle[p] = "open" \/ shownError[p] = None
  /\ screen' = IF handle[p] = "open" THEN "tiles" ELSE screen
  /\ shownError' = [shownError EXCEPT ![p] = None]
  /\ Publish(p, [reporter[p] EXCEPT !.server = TRUE])
  /\ Goto(p, "wait") /\ UNCHANGED ret

\* A poll that failed: the status screen is painted on a new kind of error.
Failed(p) ==
  /\ server # "up"
  /\ shownError[p] = server \/ handle[p] = "open"
  /\ screen' = IF shownError[p] = server THEN screen ELSE "status"
  /\ shownError' = [shownError EXCEPT ![p] = server]
  /\ Publish(p, [reporter[p] EXCEPT !.server = FALSE])
  /\ Goto(p, "wait") /\ UNCHANGED ret

\* Painting raised.
Raised(p) ==
  /\ server = "up" \/ shownError[p] # server
  /\ IF handle[p] = "open" THEN Fault ELSE UNCHANGED faults
  /\ Leave(p, "recover")
  /\ UNCHANGED <<screen, shownError, fileVars>>

Refresh(p) ==
  /\ pc[p] = "refresh"
  /\ Served(p) \/ Failed(p) \/ Raised(p)
  /\ UNCHANGED <<lock, shuttingDown, handle, episode, currentDeck, identityVars, envVars>>

\* Defect: the wait looks at the deck only, not at the shutdown event.
Wait_Deaf(p) ==
  /\ pc[p] = "wait"
  /\ \/ Healthy(p) /\ Goto(p, "serve") /\ UNCHANGED ret
     \/ ~Healthy(p) /\ Leave(p, "find")
  /\ UNCHANGED <<lock, shuttingDown, handle, sessionVars, fileVars, identityVars,
                 envVars, screen, faults>>

Wait(p) ==
  /\ pc[p] = "wait"
  /\ \/ ~shuttingDown[p] /\ Healthy(p) /\ Goto(p, "serve") /\ UNCHANGED ret
     \/ (shuttingDown[p] \/ ~Healthy(p)) /\ Leave(p, "find")
  /\ UNCHANGED <<lock, shuttingDown, handle, sessionVars, fileVars, identityVars,
                 envVars, screen, faults>>

Finally(p) ==
  /\ pc[p] = "leave"
  /\ Publish(p, NotServing(p))
  /\ SafeClose(p, ret[p])
  /\ UNCHANGED <<lock, shuttingDown, handle, sessionVars, identityVars, envVars, screen>>

\* Defect: an unexpected error is published but the deck is not closed.
Recover_KeepsHandle(p) ==
  /\ pc[p] = "recover"
  /\ Publish(p, [NotServing(p) EXCEPT !.hint = None])
  /\ Goto(p, "pause") /\ UNCHANGED ret
  /\ UNCHANGED <<lock, shuttingDown, handle, sessionVars, identityVars, envVars, screen>>

Recover(p) ==
  /\ pc[p] = "recover"
  /\ Publish(p, [NotServing(p) EXCEPT !.hint = None])
  /\ SafeClose(p, "pause")
  /\ UNCHANGED <<lock, shuttingDown, handle, sessionVars, identityVars, envVars, screen>>

-----------------------------------------------------------------------------
\* _safe_close, and the way out.

ResetDeck(p) ==
  /\ pc[p] = "reset"
  /\ \/ handle[p] = "open" /\ screen' = "blank" /\ UNCHANGED faults
     \/ handle[p] = "open" /\ Fault /\ UNCHANGED screen
     \/ handle[p] # "open" /\ UNCHANGED <<screen, faults>>
  /\ Goto(p, "close")
  /\ UNCHANGED <<lock, ret, shuttingDown, handle, sessionVars, fileVars, identityVars, envVars>>

CloseDeck(p) ==
  /\ pc[p] = "close"
  /\ handle' = [handle EXCEPT ![p] = "none"]
  /\ Goto(p, ret[p])
  /\ UNCHANGED <<lock, ret, shuttingDown, sessionVars, fileVars, identityVars,
                 envVars, screen, faults>>

\* Defect: the lock is given up before the deck is.
Cleanup_UnlocksFirst(p) ==
  /\ pc[p] = "cleanup"
  /\ lock' = NoOne
  /\ IF currentDeck[p] THEN SafeClose(p, "unlock") ELSE Goto(p, "unlock") /\ UNCHANGED ret
  /\ UNCHANGED <<shuttingDown, handle, sessionVars, fileVars, identityVars,
                 envVars, screen, faults>>

Cleanup(p) ==
  /\ pc[p] = "cleanup"
  /\ IF currentDeck[p] THEN SafeClose(p, "unlock") ELSE Goto(p, "unlock") /\ UNCHANGED ret
  /\ UNCHANGED <<lock, shuttingDown, handle, sessionVars, fileVars, identityVars,
                 envVars, screen, faults>>

Release(p) ==
  /\ pc[p] = "unlock"
  /\ lock' = NoOne
  /\ Goto(p, "exited")
  /\ UNCHANGED <<ret, shuttingDown, handle, sessionVars, fileVars, identityVars,
                 envVars, screen, faults>>

-----------------------------------------------------------------------------
\* What happens to a process.

\* A device callback or a worker thread of the session repaints; its
\* callbacks are registered by the bring-up and never removed.
CallbackPaints(p) ==
  /\ \/ pc[p] \in Serving
     \/ pc[p] \in {"reset", "close"} /\ ret[p] \in {"find", "recover"}
  /\ handle[p] = "open"
  /\ screen' = "tiles"
  /\ UNCHANGED <<lock, pc, ret, shuttingDown, handle, sessionVars, fileVars,
                 identityVars, envVars, faults>>

\* The library's reader thread closes a handle whose deck has left.
ReaderCloses(p) ==
  /\ handle[p] = "dead"
  /\ handle' = [handle EXCEPT ![p] = "none"]
  /\ UNCHANGED <<lock, pc, ret, shuttingDown, sessionVars, fileVars, identityVars,
                 envVars, screen, faults>>

Signal(p) ==
  /\ Running(p) /\ ~shuttingDown[p]
  /\ shuttingDown' = [shuttingDown EXCEPT ![p] = TRUE]
  /\ UNCHANGED <<lock, pc, ret, handle, sessionVars, fileVars, identityVars,
                 envVars, screen, faults>>

\* The system closes what a killed process had open, its lock included.
Kill(p) ==
  /\ Running(p) /\ Fault
  /\ Goto(p, "exited")
  /\ lock' = IF lock = p THEN NoOne ELSE lock
  /\ handle' = [handle EXCEPT ![p] = "none"]
  /\ UNCHANGED <<ret, shuttingDown, sessionVars, fileVars, identityVars, envVars, screen>>

-----------------------------------------------------------------------------
\* The world.

Event == events < MaxEvents /\ events' = events + 1
Same == UNCHANGED <<lock, pc, ret, shuttingDown, sessionVars, fileVars, identityVars, faults>>

Unplug ==
  /\ plugged /\ plugged' = FALSE /\ screen' = "blank"
  /\ handle' = [p \in Proc |-> IF handle[p] = "open" THEN "dead" ELSE handle[p]]
  /\ Event /\ Same /\ UNCHANGED <<access, server>>

Plug ==
  /\ ~plugged /\ plugged' = TRUE
  /\ Event /\ Same /\ UNCHANGED <<access, server, screen, handle>>

AccessChanges ==
  /\ access' \in ({"ok"} \cup Denials) \ {access}
  /\ Event /\ Same /\ UNCHANGED <<plugged, server, screen, handle>>

ServerChanges ==
  /\ server' \in Servers \ {server}
  /\ Event /\ Same /\ UNCHANGED <<plugged, access, screen, handle>>

-----------------------------------------------------------------------------
Loop(p) ==
  \/ LoadIdentity(p) \/ SaveIdentity(p)
  \/ StopLoop(p) \/ FindDeck(p) \/ Pause(p) \/ OpenDeck(p)
  \/ BringUp(p) \/ CheckDeck(p) \/ Refresh(p) \/ Wait(p) \/ Finally(p) \/ Recover(p)
  \/ ResetDeck(p) \/ CloseDeck(p) \/ Cleanup(p) \/ Release(p)

World == Unplug \/ Plug \/ AccessChanges \/ ServerChanges

Next ==
  \/ \E p \in Proc : \/ Start(p) \/ Loop(p)
                     \/ CallbackPaints(p) \/ ReaderCloses(p) \/ Signal(p) \/ Kill(p)
  \/ World

\* A process keeps going: no call of its loop waits for ever.  The reader
\* thread notices a failed read.
Fairness == \A p \in Proc : WF_vars(Loop(p)) /\ WF_vars(ReaderCloses(p))

Spec == Init /\ [][Next]_vars /\ Fairness

-----------------------------------------------------------------------------
\* Never two processes past the instance lock, and none that has exited has
\* the deck open (run, singleton.py): they would share one HID device and
\* one status file.
SoleDriver ==
  /\ \A p, q \in Proc : Running(p) /\ Running(q) => p = q
  /\ \A p \in Proc : handle[p] # "none" => Running(p)

\* Whenever the loop looks for a deck, waits or ends it has no deck open:
\* every way out of a session closed it (_run, _safe_close).
NoLeakedHandle ==
  \A p \in Proc : pc[p] \in Bringing \cup {"cleanup", "unlock"} => handle[p] = "none"

\* The server only ever hears of one identity, whatever is killed while it
\* is minted (_run: "the deck's identity never churns").
IdentityKept ==
  \A p, q \in Proc : deviceId[p] # NoId /\ deviceId[q] # NoId => deviceId[p] = deviceId[q]

\* A process told to stop stops, wherever it is (_install_signal_handler,
\* _interruptible_wait).
StopsWhenTold == \A p \in Proc : shuttingDown[p] ~> pc[p] = "exited"

\* A deck that is there and can be opened gets opened, also when it was
\* unplugged and plugged in again between two health checks (_run_active).
Awaited(p) ==
  pc[p] \in PC \ {"off", "identity", "mint", "unlock", "exited"} /\ ~shuttingDown[p]
    /\ plugged /\ access = "ok"
DeckComesBack == \A p \in Proc : Awaited(p) ~> (handle[p] = "open" \/ ~Awaited(p))

\* When the world stays as it is the status file of a running process comes
\* to tell the truth and goes on telling it, failed writes or not; its hint
\* is of the failure there is, as far as failures can be told apart.
TellsTruth(p) ==
  /\ statusFile.pid = p
  /\ statusFile.says.device <=> handle[p] = "open"
  /\ statusFile.says.server <=> handle[p] = "open" /\ server = "up"
  /\ handle[p] # "open" =>
       IF plugged
         THEN /\ access # "ok" /\ statusFile.says.hint # None
              /\ Signature[statusFile.says.hint] = Signature[access]
         ELSE statusFile.says.hint = None
StatusSettles == \A p \in Proc : <>[](Running(p) => TellsTruth(p))
=============================================================================
