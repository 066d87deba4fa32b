---------------------------- MODULE ConfigReload ----------------------------
(***************************************************************************)
(* config.json, its writers and its reader: the command line's edits       *)
(* (config.py load_raw_config, patch_raw_config, save_raw_config; cli.py   *)
(* controls_set, controls_reset, _report_reload_effect), edits by hand,    *)
(* and the sidecar's ConfigWatcher with the code of _run_active around it. *)
(* All of them are processes of their own; nothing locks the file.         *)
(***************************************************************************)
EXTENDS Integers

CONSTANTS
  Editors,       \* commands, each of which edits the controls once
  Broken, Torn,  \* not JSON: saved so by hand; truncated, not yet written
  NoRecord,      \* status.json without config_reload
  NoFile,        \* status.json does not exist
  MaxEvents      \* bound: edits by hand, unplugs, server failures, and commands
                 \* and sidecars that are killed

ASSUME ReloadAssumption ==
  /\ Broken # Torn /\ NoRecord # NoFile
  /\ MaxEvents \in Nat

\* What a file says: whether server_url is set, and the bindings, each of
\* which is named for the editor that adds it.
Config == [server : BOOLEAN, controls : SUBSET Editors]
Defaults == [server |-> FALSE, controls |-> {}]
Record == [mtime : Nat, error : BOOLEAN]

ASSUME ContentAssumption ==
  /\ Broken \notin Config /\ Torn \notin Config
  /\ NoRecord \notin Record /\ NoFile \notin Record

VARIABLES
  content, mtime,        \* config.json
  epc, base, draft,      \* an editor's step, and what it read and is to write
  stamp, claim,          \* its written_mtime, and what it tells of the reload
  pc,                    \* the sidecar's step
  good, watched,         \* ConfigWatcher._last_good, _mtime
  ticking,               \* whether this poll is a tick's, not the bring-up's
  failed, seen,          \* locals of the tick: outcome.error, the second stat
  running,               \* the controls the session uses
  memo, statusFile,      \* config_reload in the reporter, and in status.json
  deck, up,              \* a deck is there; the server answers
  born, readAt,          \* history: mtime when the watcher was made, when it last read
  events

fileVars == <<content, mtime>>
editorVars == <<epc, base, draft, stamp, claim>>
watcherVars == <<good, watched, born, readAt>>
tickVars == <<ticking, failed, seen>>
statusVars == <<memo, statusFile>>
sidecarVars == <<pc, watcherVars, tickVars, running, statusVars>>
worldVars == <<deck, up, events>>
vars == <<fileVars, editorVars, sidecarVars, worldVars>>

ReloadTypeOK ==
  /\ content \in Config \cup {Broken, Torn} /\ mtime \in Nat
  /\ epc \in [Editors -> {"start", "patch", "truncate", "write", "stat", "wait", "done"}]
  /\ base \in [Editors -> SUBSET Editors] /\ draft \in [Editors -> Config]
  /\ stamp \in [Editors -> Nat]
  /\ claim \in [Editors -> {"none", "applied", "rejected"}]
  /\ pc \in {"off", "watch", "find", "read", "tell", "publish", "idle"}
  /\ good \in Config /\ watched \in Nat /\ born \in Nat /\ readAt \in Nat
  /\ ticking \in BOOLEAN /\ failed \in BOOLEAN /\ seen \in Nat
  /\ running \in SUBSET Editors
  /\ memo \in Record \cup {NoRecord} /\ statusFile \in Record \cup {NoRecord, NoFile}
  /\ deck \in BOOLEAN /\ up \in BOOLEAN
  /\ events \in 0 .. MaxEvents

Init ==
  /\ content = [server |-> TRUE, controls |-> {}] /\ mtime = 1
  /\ epc = [e \in Editors |-> "start"]
  /\ base = [e \in Editors |-> {}] /\ draft = [e \in Editors |-> Defaults]
  /\ stamp = [e \in Editors |-> 0] /\ claim = [e \in Editors |-> "none"]
  /\ pc = "off" /\ good = Defaults /\ watched = 0 /\ born = 0 /\ readAt = 0
  /\ ticking = FALSE /\ failed = FALSE /\ seen = 0
  /\ running = {} /\ memo = NoRecord /\ statusFile = NoFile
  /\ deck = TRUE /\ up = TRUE
  /\ events = 0

-----------------------------------------------------------------------------
\* Reading and writing config.json.

\* load_config raises ConfigError on anything else.
Valid(c) == c \notin {Broken, Torn} /\ c.server

\* load_raw_config: the defaults stand in for what is not JSON.
Raw(c) == IF c \in {Broken, Torn} THEN Defaults ELSE c

\* Every change of the file is taken to give it a new mtime.
Save(c) == content' = c /\ mtime' = mtime + 1

Event == events < MaxEvents /\ events' = events + 1

-----------------------------------------------------------------------------
\* A command that edits the controls.

EditorGoto(e, label) == epc' = [epc EXCEPT ![e] = label]

\* controls_set and controls_reset: the bindings to be are made from one
\* read, patch_raw_config reads the rest a second time.
ReadControls(e) ==
  /\ epc[e] = "start"
  /\ \E bindings \in {Raw(content).controls \cup {e}, {}} :
       base' = [base EXCEPT ![e] = bindings]
  /\ EditorGoto(e, "patch")
  /\ UNCHANGED <<fileVars, draft, stamp, claim, sidecarVars, worldVars>>

Patch(e) ==
  /\ epc[e] = "patch"
  /\ draft' = [draft EXCEPT ![e] = [Raw(content) EXCEPT !.controls = base[e]]]
  /\ base' = [base EXCEPT ![e] = {}]
  /\ EditorGoto(e, "truncate")
  /\ UNCHANGED <<fileVars, stamp, claim, sidecarVars, worldVars>>

\* write_text is not atomic.
Truncate(e) ==
  /\ epc[e] = "truncate"
  /\ Save(Torn) /\ EditorGoto(e, "write")
  /\ UNCHANGED <<base, draft, stamp, claim, sidecarVars, worldVars>>

Write(e) ==
  /\ epc[e] = "write"
  /\ Save(draft[e]) /\ draft' = [draft EXCEPT ![e] = Defaults]
  /\ EditorGoto(e, "stat")
  /\ UNCHANGED <<base, stamp, claim, sidecarVars, worldVars>>

\* No status file, no sidecar to wait for.
StatWritten(e) ==
  /\ epc[e] = "stat"
  /\ IF statusFile = NoFile
       THEN EditorGoto(e, "done") /\ UNCHANGED stamp
       ELSE EditorGoto(e, "wait") /\ stamp' = [stamp EXCEPT ![e] = mtime]
  /\ UNCHANGED <<fileVars, base, draft, claim, sidecarVars, worldVars>>

\* Defect: any record is taken for one of this edit.
Confirm_AnyRecord(e) ==
  /\ epc[e] = "wait" /\ statusFile \in Record
  /\ claim' = [claim EXCEPT ![e] = IF statusFile.error THEN "rejected" ELSE "applied"]
  /\ EditorGoto(e, "done")
  /\ UNCHANGED <<fileVars, base, draft, stamp, sidecarVars, worldVars>>

Confirm(e) ==
  /\ epc[e] = "wait" /\ statusFile \in Record /\ statusFile.mtime >= stamp[e]
  /\ claim' = [claim EXCEPT ![e] = IF statusFile.error THEN "rejected" ELSE "applied"]
  /\ EditorGoto(e, "done")
  /\ UNCHANGED <<fileVars, base, draft, stamp, sidecarVars, worldVars>>

\* At the deadline it says that the reload is not confirmed.
GiveUp(e) ==
  /\ epc[e] = "wait" /\ EditorGoto(e, "done")
  /\ stamp' = [stamp EXCEPT ![e] = 0]
  /\ UNCHANGED <<fileVars, base, draft, claim, sidecarVars, worldVars>>

\* A command that is interrupted, possibly with the file truncated.
Interrupted(e) ==
  /\ epc[e] \notin {"start", "done"} /\ EditorGoto(e, "done")
  /\ base' = [base EXCEPT ![e] = {}] /\ draft' = [draft EXCEPT ![e] = Defaults]
  /\ stamp' = [stamp EXCEPT ![e] = 0] /\ Event
  /\ UNCHANGED <<fileVars, claim, sidecarVars, deck, up>>

Edit(e) ==
  ReadControls(e) \/ Patch(e) \/ Truncate(e) \/ Write(e) \/ StatWritten(e)
    \/ Confirm(e) \/ GiveUp(e)

-----------------------------------------------------------------------------
\* The sidecar.

\* Defect: a ConfigError does not end the command.
LoadConfig_Unchecked ==
  /\ pc = "off"
  /\ good' = content /\ readAt' = mtime
  /\ pc' = "watch"
  /\ UNCHANGED <<fileVars, editorVars, watched, born, tickVars, running, statusVars, worldVars>>

\* cli.run loads the configuration, and exits on a ConfigError.
LoadConfig ==
  /\ pc = "off" /\ Valid(content)
  /\ good' = content /\ readAt' = mtime
  /\ pc' = "watch"
  /\ UNCHANGED <<fileVars, editorVars, watched, born, tickVars, running, statusVars, worldVars>>

\* _run makes the watcher, which stats the file.
MakeWatcher ==
  /\ pc = "watch"
  /\ watched' = mtime /\ born' = mtime
  /\ pc' = "find"
  /\ UNCHANGED <<fileVars, editorVars, good, readAt, tickVars, running, statusVars, worldVars>>

\* _run's loop while there is no deck publishes that.
FindNoDeck ==
  /\ pc = "find" /\ ~deck
  /\ statusFile' = memo
  /\ UNCHANGED <<fileVars, editorVars, pc, watcherVars, tickVars, running, memo, worldVars>>

\* The bring-up uses the last good configuration, and publishes.
BringUp(config) ==
  /\ running' = config.controls /\ statusFile' = memo
  /\ pc' = "idle" /\ UNCHANGED <<memo, ticking>>

\* ConfigWatcher.poll: at the bring-up, and on a tick the server answered.
StatConfig ==
  /\ deck /\ pc \in {"find", "idle"} /\ (pc = "idle" => up)
  /\ \/ /\ mtime = watched /\ UNCHANGED watched
        /\ IF pc = "find" THEN BringUp(good) ELSE UNCHANGED <<pc, ticking, running, statusVars>>
     \/ /\ mtime # watched /\ watched' = mtime
        /\ pc' = "read" /\ ticking' = (pc = "idle")
        /\ UNCHANGED <<running, statusVars>>
  /\ UNCHANGED <<fileVars, editorVars, good, born, readAt, failed, seen, worldVars>>

\* Defect: the file is read the forgiving way of the command line.
ReadConfig_Raw ==
  /\ pc = "read"
  /\ good' = Raw(content) /\ failed' = FALSE
  /\ readAt' = mtime
  /\ IF ticking THEN pc' = "tell" /\ UNCHANGED <<running, statusVars, ticking>>
                ELSE BringUp(good')
  /\ UNCHANGED <<fileVars, editorVars, watched, born, seen, worldVars>>

ReadConfig ==
  /\ pc = "read"
  /\ good' = IF Valid(content) THEN content ELSE good
  /\ failed' = ~Valid(content)
  /\ readAt' = mtime
  /\ IF ticking THEN pc' = "tell" /\ UNCHANGED <<running, statusVars, ticking>>
                ELSE BringUp(good')
  /\ UNCHANGED <<fileVars, editorVars, watched, born, seen, worldVars>>

\* Defect: the second stat is remembered as the one that was read.
ApplyReload_Remembers ==
  /\ pc = "tell"
  /\ seen' = mtime /\ watched' = mtime
  /\ running' = IF failed THEN running ELSE good.controls
  /\ pc' = "publish"
  /\ UNCHANGED <<fileVars, editorVars, good, born, readAt, ticking, failed, statusVars, worldVars>>

\* The tick stats again, for the record, and applies what was read.
ApplyReload ==
  /\ pc = "tell"
  /\ seen' = mtime
  /\ running' = IF failed THEN running ELSE good.controls
  /\ pc' = "publish"
  /\ UNCHANGED <<fileVars, editorVars, watcherVars, ticking, failed, statusVars, worldVars>>

Publish ==
  /\ pc = "publish"
  /\ memo' = [mtime |-> seen, error |-> failed] /\ statusFile' = memo'
  /\ ticking' = FALSE /\ failed' = FALSE /\ seen' = 0
  /\ pc' = "idle"
  /\ UNCHANGED <<fileVars, editorVars, watcherVars, running, worldVars>>

\* The session ends with its deck.
EndSession ==
  /\ pc = "idle" /\ ~deck
  /\ pc' = "find"
  /\ UNCHANGED <<fileVars, editorVars, watcherVars, tickVars, running, statusVars, worldVars>>

Sidecar ==
  MakeWatcher \/ FindNoDeck \/ StatConfig \/ ReadConfig \/ ApplyReload \/ Publish \/ EndSession

-----------------------------------------------------------------------------
\* The world.

\* A text editor replaces the file.
EditByHand ==
  /\ Event
  /\ \E c \in {Broken, [Raw(content) EXCEPT !.server = TRUE]} : Save(c)
  /\ UNCHANGED <<editorVars, sidecarVars, deck, up>>

Die ==
  /\ pc # "off" /\ pc' = "off" /\ Event
  /\ good' = Defaults /\ watched' = 0 /\ born' = 0 /\ readAt' = 0
  /\ ticking' = FALSE /\ failed' = FALSE /\ seen' = 0
  /\ running' = {} /\ memo' = NoRecord
  /\ UNCHANGED <<fileVars, editorVars, statusFile, deck, up>>

Unplug ==
  /\ deck /\ deck' = FALSE /\ Event
  /\ UNCHANGED <<fileVars, editorVars, sidecarVars, up>>

ServerFails ==
  /\ up /\ up' = FALSE /\ Event
  /\ UNCHANGED <<fileVars, editorVars, sidecarVars, deck>>

Recovers ==
  /\ ~deck \/ ~up
  /\ deck' = TRUE /\ up' = TRUE
  /\ UNCHANGED <<fileVars, editorVars, sidecarVars, events>>

World == EditByHand \/ Die \/ Unplug \/ ServerFails \/ Recovers

Next ==
  \/ \E e \in Editors : Edit(e) \/ Interrupted(e)
  \/ LoadConfig \/ Sidecar \/ World

\* The loop keeps ticking, and a command that was started ends.  Nobody has
\* to start the sidecar or a command, to plug the deck in, or to edit.
Fairness ==
  /\ WF_vars(Sidecar)
  /\ \A e \in Editors : WF_vars(epc[e] # "start" /\ Edit(e))

Spec == Init /\ [][Next]_vars /\ Fairness

-----------------------------------------------------------------------------
\* The sidecar never works with a file that is truncated, broken or reset
\* to defaults by somebody's misreading: it keeps the last good one, and what
\* it reports of an edit is what its reading came to, once that is in use
\* (ConfigWatcher.poll, apply_reload, _config_reload_status).
Outcome(error) == IF error THEN "rejected" ELSE "applied"
On == pc # "off"
Settled == pc \in {"publish", "idle"}
Pending == IF pc \in {"tell", "publish"} THEN Outcome(failed) ELSE "none"
Told == IF memo \in Record THEN Outcome(memo.error) ELSE "nothing"

Watch == INSTANCE LastGood WITH
  Usable <- {c \in Config : c.server}, file <- content, on <- On, last <- good,
  using <- running, settled <- Settled, pending <- Pending, told <- Told

KeepsLastGood == Watch!WatchSpec

Serving == pc \notin {"off", "watch", "find"} /\ deck /\ up

\* Once the file stops changing, a session whose server answers comes to use
\* what the file says if it is valid, provided it changed since the watcher
\* was made (ConfigWatcher.poll, _run_active).
EditsPickedUp ==
  <>[](Serving /\ Valid(content) /\ mtime # born => running = content.controls)

\* A confirmation says only what was observed: whoever tells the user that an
\* edit was applied or rejected was told by a sidecar that has read the file
\* as it was then, or later (_wait_for_config_pickup: "the running sidecar has
\* processed a config.json at least as new as the one just written").
ClaimsObserved ==
  \A e \in Editors : pc # "off" /\ claim[e] # "none" => readAt >= stamp[e]

\* A confirmation that came too early is made up for: the record may carry the
\* mtime of an edit that was not read, but then the watcher has not remembered
\* that mtime, and reads the file on its next poll (_run_active's second stat
\* leaves _mtime alone; ConfigWatcher.poll compares with _mtime only).
ReadOrDue(stat) ==
  \/ readAt >= stat
  \/ pc \notin {"off", "watch"} /\ watched # mtime
  \/ pc = "read"

ClaimsComeDue ==
  \A e \in Editors : pc # "off" /\ claim[e] # "none" => ReadOrDue(stamp[e])
=============================================================================
