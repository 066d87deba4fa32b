# TLA+ development of muxplex-deck

muxplex-deck is a sidecar process that shows the sessions of a muxplex server
on a Stream Deck and switches sessions, views and pages from its keys and
dials.  These modules model the parts of it where threads, polls, failures and
edits of `config.json` meet, the configurations check them with TLC, and the
`*Proofs` modules prove the main results for every value of the constants.
Paths below are relative to `src/src/muxplex_deck/`.

## 1. Inventory

### Threads and shared state

One process runs these threads:

| thread | started by | does |
|---|---|---|
| poll loop (`_run_active`, main thread) | `_run` | refresh, repaint, status screens, hot reload |
| device callback | the streamdeck library | `handle_key`, `handle_dial_turn`, `handle_dial_push`; view and target choices run their HTTP calls on it |
| debounce timers | `ViewCycler.turn` | `_fire_commit`, then `_commit_view` |
| background threads | key actions | `_do_connect`, `_trigger_view_all`, `_refresh_now`, focus |

They share one `_ActiveRuntime`: `client_lock` serialises the HTTP calls,
`paint_lock` guards the fields that painting reads, the deck's own lock guards
device writes, and `ViewCycler`, `Pager` and `PickerController` have a lock
each.  Fields are also read outside those locks, which is where the interesting
interleavings come from.  Other processes: the muxplex server (and its other
clients), the `muxplex-deck` command line (edits `config.json`, reads
`status.json`, controls the service), the service manager.

### Components

| component | code | state | operations | hard behaviours | what makes it correct |
|---|---|---|---|---|---|
| View cycler | `interaction.py` ViewCycler | cycle list, committed view, pending ticks, timer | sync, turn, press, _fire_commit | a timer past its wait cannot be cancelled; polls during a spin | ticks always have a live timer; polls never move the base; spins settle |
| Active runtime | `main.py` _ActiveRuntime | locks, active view and session, pin, target, last poll | refresh, _process, _commit_view, _do_connect, target selection | calls from four kinds of thread, stale answers, failed calls, rejected targets | calls never overlap; deck and server agree in the end; the pin and the target are the user's |
| Key surface | `main.py`, `interaction.py` Pager, PickerController | page, picker, diff cache, what the keys show | repaint, status screen, apply_reload, key and dial dispatch | two painters, unlocked reads, cache invalidation, slots that move | a picture the cache claims is on its key, but for the status screen; the page is never empty; a key does what it shows |
| Layout plan | `layout.py`, `controls.py` | none (pure) | default_bindings, plan_layout, classify_key, validate_binding | remapped keys, degenerate grids | every listed session has one key on one page; a binding is in force or reported; a fresh deck is usable |
| Lifecycle | `main.py` _run, _run_active, _FailureEpisode, `singleton.py` | current deck, episodes, backoff, lock | find, open, run, wait, close | unplug and shutdown at any point, errors of every call | one process per state directory; the deck is blank and closed after exit |
| Status file | `statusfile.py` | accumulated fields, status.json | update, write, read | reader in another process, Windows retry | a reader sees a whole status of one update |
| Configuration | `config.py` | last good config, mtime | poll, load, patch, save | write in place, read during a write, concurrent edits | an invalid file never replaces the last good one; edits are picked up; a tick's reading is reported as it came out |
| Config commands | `cli.py` config, controls, appearance | none | read, patch, wait for pickup | two commands at once, stale confirmation | "applied" is said of an edit that was read, or is read next |
| Service control | `service.py` | service manager's state | install, uninstall, start, stop, restart, wait | asynchronous unload, pid comparison, partial failure | one sidecar at a time; where pids are compared, success is reported only for the new process; a stop blanks a deck it can open, and nothing it stopped paints there again |
| Other commands | `cli.py` status, doctor, update, wsl; `report.py`, `hidhelp.py`, `usbnode.py`, `wsl.py` | none | probe, print | update's stop / install / restart | a service that ran before an update runs after it |
| Views and order | `views.py`, `attention.py` | none (pure) | resolve_view, apply_attention_sort | equal names on several peers | each poll lists the view's sessions once (namesakes of ringing ones excepted), in a steady order |
| Identity | `identity.py` | identity.json | load or mint | corrupt or missing file | the id survives reconnects and restarts |
| Backends | `device.py`, `device_real.py`, `emulator.py`, `hidapi_win.py` | a device | open, close, paint, callbacks | library errors | not modelled: wrappers and an HTTP interface |
| Rendering | `rendering.py`, `appearance.py` | none | draw | layout of pixels | not modelled |
| Init wizard | `init_wizard.py` | none | prompts, file writes | wrong certificates | not modelled: one linear dialogue |
| deck-probe | `../deck_probe/` | counters | hotplug loop, callbacks | as Lifecycle | not modelled: a hardware probe |

`PROJECT.json` lists every component with its status, and every hazard with the
line where it bites and the properties that cover it.

## 2. Modules

`ViewCycler` -- class ViewCycler.  Each method body holds `_lock` and is one
action (`Sync`, `Turn`, `Press`, `FireCommit`).  A timer thread goes idle ->
armed -> expired -> calling -> idle; `Cancelled` reaches it only while armed,
which is what `Timer.cancel` can do.  Positions, Python's modulo on negative
totals and the base -1 of a deleted view are computed as in the code.

`ActiveRuntime` -- EXTENDS ViewCycler; the conversation with the server.  `pc`
says what each thread is about to do, `loc` holds the local variables it
carries from one critical section to the next.  `refresh` is ResolveGroup
(reads the target before the lock), Acquire, Heartbeat or DegradeTarget, Fetch
(releases the lock with the answers), SyncCycler (reads the pin), Adopt (under
`paint_lock`), and for the poll loop Reload.  `_commit_view` is CommitView,
then MovePin or PatchView, then a refresh.  `_do_connect` is RaiseFocus,
Acquire, Connect.  A call may fail (`Raise`): the lock is released and the
thread ends its handler; a failed PATCH or connect may or may not have reached
the server.  The server is what the deck's requests see of it: the view, the
active session, the group the deck claims and the devices it may follow.  What
others do to it and edits of `config.json` are actions of their own.

`KeySurface` -- what the keys show and what pressing them does.  A layout plan
is a binding of each key with the deck's kind; two threads paint, each through
Repaint (reads the picker's mode, unlocked) and Paint (under the locks).
`shown` is the picture on each key, `cache` is `last_key_state`: an identity is
a tuple of what the picture is made of, and `None` is both "forgotten" and the
identity of an empty slot, as in the code.  `PollFails` paints the status
screen, `Invalidate` forgets the cache after it.  `Meaning(k)` is what a press
on k does, written as the picture that announces it.  `Surface` is what it uses of
a plan of `ControlPlan`.

`Lifecycle` -- a process from start to exit, and what processes share: the
lock, `identity.json`, `status.json`, the deck.  `pc` follows `_run` and
`_run_active`; `_safe_close` is two steps (`ResetDeck`, `CloseDeck`) with `ret`
for where it returns to, because a callback can paint between them.  A handle is
open, dead (its deck left and the library's reader thread has not noticed) or
none; `Healthy` is `is_open()` and `connected()`, which differ after a replug.
`episode` is the failure the hint was built from.  `Publish` merges and writes,
and the write may fail.  Minting an identity is two steps, as `write_text`
truncates first.  A kill releases what the process held and leaves files and
screen as they are.  `CallbackPaints` stands for every paint outside the poll
loop; what is painted is the business of `KeySurface`.

`ConfigReload` -- `config.json` and everyone who touches it, each a process of
its own.  A command (`controls set`, `controls reset`) reads the bindings
(`ReadControls`), reads the file again and overlays them (`Patch`), truncates
(`Truncate`) and writes it (`Write`), stats it (`StatWritten`) and waits for
`status.json` to show a late enough record (`Confirm`, `GiveUp`).  Anybody may
edit the file by hand, badly too.  The sidecar loads (`LoadConfig`), makes its
`ConfigWatcher` (`MakeWatcher`), and polls: `StatConfig` remembers the mtime,
`ReadConfig` parses, `ApplyReload` stats a second time and applies, `Publish`
writes the record; the poll of a bring-up goes from `ReadConfig` straight to
work.  A configuration is whether `server_url` is set, the one field whose loss
makes a file of defaults invalid, and which bindings it holds.  `born` and
`readAt` are history: the mtime when the watcher was made and when it last read.

`LastGood` -- what `ConfigReload` promises about the file: anybody rewrites it,
anyhow; the sidecar reads, keeps the last configuration it can work with, takes
it over, and then tells what the reading came to.  `KeepsLastGood` is the
refinement: `file` is `content`, `on` that a sidecar runs, `last` is `good`,
`using` is `running`, `settled` is between taking over and the next reading,
`pending` the outcome of a tick that is not published, `told` what the record in
the reporter says.  The reading of a bring-up is taken over at once and told
nobody, as in the code.

`ServiceControl` -- the service manager, the sidecar and one command at a time.
`Program` says which call follows which in each `service_*` function on each
platform; `pc` is the call that is next, and each is one action, so that a
launch, an exit, a crash, an edit of `config.json` or Ctrl-C comes between any
two.  `op` is the function, `verb` the command: `update` goes through stop,
package and install to restart, `finally` included.  The managers differ in
`Active` (launchd's job stays loaded while its process is going, Task
Scheduler's count lags behind) and in `Request` (launchd refuses a bootstrap
while the old job is loaded, Task Scheduler ignores a run while it counts an
instance).  `gone` is what the last wait found, an exhausted query that reads as
"not running" included.  `Reset` is the best-effort reset of the deck: tried when
`gone` says so, it blanks the screen or fails, for want of hidapi, a deck or an
answer, or because a sidecar holds the deck.  `since`, `told`, `evidence` and
`clearing` (how the reset went) are history.

`Supervised` -- what `ServiceControl` promises: one sidecar at a time, each with
a pid of its own, and nobody is told of a process that has had its day.
`Supervises` is the refinement: `alive` is `proc` and `told` is `Claim`, the pid
that `status`, or a restart that saw the old process go, presents where the
manager knows the sidecar's pid: systemd and launchd.  What Task Scheduler's
restart accepts is no `Claim`; it is the subject of `old_pid`.

`ControlPlan` -- the catalog, the grammar of addresses, the two gates of a
binding, `default_bindings`, `plan_layout` and `classify_key` as operators on a
deck's capabilities.  `SessionLists` -- `resolve_view` and
`apply_attention_sort` as operators on lists of sessions; `Arrange` is what
Python's filters and sorts do, defined by ranks rather than by recursion: the
element that comes n-th is the one before which n - 1 others belong.  `DeckFace` EXTENDS both and adds `Pager`: which session is
on which key while decks are plugged in, files edited, bells ring and sessions
come and go, the server changes its settings, `sort_order` among them, and the
order it lists sessions in, and a reload the deck's `sort_mode`.  `arranged` is
history: what the last poll sorted by.  A poll, a reload or a press is one step
there; threads are `KeySurface`'s business.

`ViewCyclerProofs`, `ActiveRuntimeProofs`, `KeySurfaceProofs`,
`LifecycleProofs`, `ConfigReloadProofs`, `ServiceControlProofs`,
`SessionListsProofs`, `DeckFaceProofs` -- the theorems.  `MCViewCycler`, `MCActiveRuntime`,
`MCKeySurface`, `MCLifecycle`, `MCConfigReload`, `MCServiceControl`,
`MCDeckFace` -- values for TLC.

How they compose: `ActiveRuntime` refines `ViewCycler` (the cycler's variables
are the runtime's, and `CyclerRefined` says that on them every step of the
runtime is a step of the cycler); `ServiceControl` refines `Supervised` and `ConfigReload`
refines `LastGood`; and `KeySurface` instantiates `ControlPlan`: the theorem
`PlansFitSurface` says that the plans computed there are plans of the surface and
mean the same in both, and `MCKeySurface` assumes, which TLC evaluates, that its
four plans are the ones computed for a 1 x 4 deck with dials and a strip and for
a 2 x 2 grid, with and without bindings in the file.

Operators whose comment starts with "Defect:" are variants of the definition
after them with a plausible mistake; `PROJECT.json` pairs each with the
property that notices it.  No action uses them.

## 3. Runs

| run | question | size | result |
|---|---|---|---|
| view_cycler | do ticks, timers, polls and presses keep the cycler consistent, and does every spin settle? | 2 user views, 2 timers, ticks +-1, 2 pending; 12,900 states | holds |
| runtime_views | do commits of views by timer, picker and all-views key, with a pin, an edit of it, another client and a failed call, leave deck and server agreeing? | 1 timer, 1 worker, 2 events, 1 outside change, 1 failure; 599,075 states | holds |
| runtime_sessions | the same for connects, toggles, refreshes and control targets; do calls ever overlap? | 2 workers, 2 sessions (one remote), 1 device, 2 events, 1 outside change, 1 failure; 303,741 states | holds |
| key_surface | does every paint show what a press does, under two painters, pickers, failures and reloads, does a key connect what it was painted as, is the page occupied, and do the keys end up truthful? | 4 keys, 2 sessions, 2 views, 4 plans; 390,797 states | holds |
| lifecycle | do processes that share lock, files and deck drive it one at a time, close it, keep one identity, stop when told, find the deck again and publish the truth? | 2 processes, 3 causes of a failed open (2 with one message), 2 events, 1 fault or kill; 525,934 states | holds |
| config_reload | does the sidecar use the last valid configuration it read and tell the truth of each reading (a refinement of `LastGood`), is what a command confirmed read by the next poll at the latest, and is the last edit picked up? | 2 commands, 1 edit by hand, outage or kill; 1,439,195 states | holds |
| service_control | is there one sidecar, is the right one reported where pids are compared, does a blanked deck stay blank after a stop, is the deck reset without racing a sidecar, does an update bring the service back, do commands end? | 3 managers, 4 launches, 2 commands, 2 crashes, failed calls or resets, interrupts or edits; 535,334 states | holds |
| deck_face | has every session one key, is every binding accounted for, is a fresh deck usable, are views and order right, and steady while settings and listing may change? | 4 decks, 5 files, 3 sessions (2 namesakes), 2 orders, 2 settings, 4 views, 2 events; 570,272 states | holds |
| pin_race | is a pinned view ever overwritten by the server's? | refresh_now and one edit of the pin, starting with or without one | violated |
| stale_blank | does a repaint blank every empty slot? | as key_surface | violated |
| unread_claim | does a command report only outcomes of readings of its edit, or a later one? | as config_reload | violated |
| old_pid | is the pid that Task Scheduler's restart accepts the new process's? | Task Scheduler, 2 launches, 1 command, no fault | violated |

### Bounds

The bounds are those at which each hazard occurs.  Two timers: one that a turn
superseded after its wait ended, and its replacement.  Two workers: two connects
that overtake each other.  Two events, one outside change and one failure per
behaviour: every pair of user actions in any order around a poll, with
something going wrong; the properties concern the last word of a race between
two parties, and a third adds no new kind of overtaking.  `MaxPending` bounds
the ticks of one spin: with two user views (a cycle of four) +-2 reaches every
position.  In the session run the dial is not bound.  Four keys are the least a
dial-less deck can have with a VIEW, a PREV, a NEXT key and a session slot; two
sessions on it make two pages, and a list may shrink to none.  Two processes: one
that dies or stops and its successor, or one that is refused.  Two events: an
unplug and a replug, or two causes of failure after each other; the deck, access
to it and the server start in any condition.  Two commands: one whose edit the
other reads half written, or overtakes; with one more event each of them meets
an edit by hand, an interruption, an outage and a restart of the sidecar.

### Fairness

`ViewCycler`: weak fairness of the timer threads; a wait ends and `_lock` is
held for a few assignments only.  `SpinSettles` assumes the user lets go of the
dial: every turn restarts the debounce, so an endless turn never commits.
`ActiveRuntime`: weak fairness of each thread's steps, since the HTTP client
has timeouts on every call; strong fairness of taking `client_lock`, because
Python locks are not fair but the only thread that comes back for ever, the
poll loop, sleeps `poll_interval` between two uses, during which the lock is
seen free by everyone waiting.  No fairness for the user, other clients, edits
or failures.  `KeySurface`: weak fairness of the poll loop and of the handler in
progress.  `EventuallyFaithful` assumes that from some moment polls succeed and
bring nothing new.  `Lifecycle`: weak fairness of a process's own steps, since
every wait and call in its loop is bounded, and of the reader thread, whose read
of a deck that left fails.  Events and faults are finite, so `StatusSettles`
speaks of a world that stays as it is.  Nobody has to start a process or to stop
or kill it.  `ConfigReload`: weak fairness of the sidecar and of a command
once started; their waits are bounded.  `EditsPickedUp` assumes that in the end
a session is up and its server answers.  The runs of
`Lifecycle` and `ConfigReload` do not check for deadlock: when every process has
exited nothing is left to happen.  `ServiceControl`: weak fairness of the
command in progress, of the bound of its last wait (`StatusTimesOut`), and of
the manager's and the sidecar's own steps: launching, noticing an end, loading,
publishing, exiting.  None for the trigger of a task, crashes, edits or Ctrl-C.
It does not check for deadlock either: once launches, commands and faults are
used up nothing need happen.  `DeckFace` has safety only.

### What the violations show

* `pin_race`: the deck is not pinned; a background refresh (`refresh_now`) is
  under way when `config.json` gets a pin.  The refresh has found the deck
  unpinned; the poll loop polls, reloads, sets the pin and snaps `active_view` to
  it; the refresh then writes the server's view over it.  The deck stays pinned to
  the wrong view: later polls respect `active_view`, not the pin's value.
* `stale_blank`: a key showed a control or session; a reload makes it an empty
  session slot.  The reload sets its cache entry to `None`, which is also the
  identity of an empty slot, so the next repaint skips it.  The old picture
  stays until the slot is filled; a press on it does nothing.
* `unread_claim`: a command has truncated `config.json` and not yet written it;
  the sidecar's tick finds the mtime changed and reads half a file.  The command
  writes.  The tick stats the file a second time, for the record, and publishes
  the error of the truncated file with the mtime of the written one.  The command
  takes that for a rejection of its edit, which the sidecar reads, and applies, on
  the next tick.  `_wait_for_config_pickup` says that a record with that mtime means
  the sidecar "has processed a config.json at least as new as the one just
  written".  `ClaimsComeDue` is what holds instead.
* `old_pid`: a sidecar under Task Scheduler has not published yet when a restart
  reads the pid in `status.json`, so the baseline is its predecessor's pid or none.
  It publishes, is ended, and the task is seen to have stopped.  The restart asks
  for a run and finds a pid that is not the baseline: that of the process it
  ended.  `_win_wait_for_fresh_status` calls that impossible.

### Weaknesses without a run

The models hold these or come close to them; no run asks for them, because the
code promises nothing there, or a property above excepts them and says so, or no
model holds enough:

* the poll of a bring-up discards its outcome (main.py:2368) and remembers the
  mtime: a file that broke while the deck was away is reported neither then nor
  later, although config.py:615-616 speaks of reporting a broken edit once;
* the dial callback is registered at a bring-up and only if the plan then uses
  dials (main.py:2410): an edit that binds a dial of a deck that had none, or whose
  dials were all set to none, does nothing before the deck is replugged, although
  apply_reload's docstring promises the effect of a fresh connection
  (main.py:928-931);
* apply_attention_sort takes its first tier out of the list by name, so a quiet
  session of one device disappears from the deck while a namesake of another
  device rings (attention.py:67-69), although the module is said to reorder only
  and to put "Everything else" into the second tier (attention.py:3-9).
  `OrderHonest` has the absence of such a pair as its condition (`Loses`).  Fallback
  views and hiding match by name as well, which `ViewTruthful` excepts
  (`NoNamesakes`);
* an edit made between `load_config` and the construction of the watcher, which
  takes that edit's mtime for the one it knows, is not seen before the next edit
  or restart (`EditsPickedUp` excepts it); and a command that reads the file
  while another has it truncated takes it for defaults and writes those;
* a reload renumbers the slots at once, the page of sessions changes with the
  next repaint: a press in between connects another session than the key shows
  (`ConnectsPainted` speaks of keys painted since the plan last changed);
* a rejected target discards whatever was selected meanwhile (main.py:1081), and
  a callback can repaint the deck between the reset and the close of a shutdown
  (main.py:319-331);
* a stop leaves the old picture when the deck cannot be opened or does not answer;
  an error of the reset itself is swallowed by `_safe_close`, and the command says
  "Cleared the Stream Deck screen" all the same (service.py:658-661).
  `StoppedBlank` therefore says that a reset was tried and that one that worked
  lasts.  A failed query or the task's trigger can put a sidecar beside a reset, so
  `ResetAlone` speaks of systemd and launchd;
* a restart under launchd whose two waits time out asks for a job that is still
  loaded, takes the refusal for "Service is running", and may find the old
  process's own status for proof; nothing starts the job again when that process
  ends.  `Claim` counts only restarts that saw the old process go;
* where no live pid is known `cli.py status` trusts the age of the file, on Windows
  always; Ctrl-C while an update stops the service leaves it stopped; on Windows a
  `sys.exit` in the install step skips the last messages of update;
* a plan whose only "session" control is the push of a dial has no key for
  sessions, and no advisory says so.

## 4. Proofs

All theorems hold for every value of the constants under the named assumptions
(`ViewAssumption`, `TimerAssumption`, `TickAssumption`, `RuntimeAssumption`,
`SurfaceAssumption`, `LifecycleAssumption`, `ReloadAssumption`,
`ContentAssumption`, `ServiceAssumption`, `FaceAssumption`), which say that the
reserved names and threads are distinct, that the server's view names are, that
decks have the keys of their rows and columns, and that bounds are naturals.  TLC
evaluates them in every run.

* `CyclerTypeCorrect`, `TicksNeverStranded`, `SpinBaseSteady`: the inductive
  invariant is type correctness with `TimerHeld`.  `TimerHeld` alone is
  inductive once the types are known: a stale timer that fires clears `_timer`
  and the ticks together.  `BaseSteady` follows because a `Sync` that changes
  the committed view finds no timer, hence no ticks.
* `RuntimeTypeCorrect`, `CallsAlwaysSerialized`, `RuntimeRefinesCycler`: the
  invariant `RuntimeInv` conjoins the cycler's invariant, the types of the rest,
  `LockHeldInCalls` (a thread inside a call holds `client_lock`) and
  `TimersInCommit` (a timer thread is in `_commit_view` exactly while the
  cycler has it "calling").  The third is what makes mutual exclusion
  inductive, the fourth what makes a thread that ends a legal step of its timer.
  The refinement has one step per action of the runtime.
* `KeyTypeCorrect`, `CacheAlwaysHonest`, `PageAlwaysOccupied`: honesty of the
  cache is inductive because only `PollFails` writes keys without the cache, and
  it leads to the one place the invariant excepts.  That the page is occupied
  needs the invariant that `pageCount` is the number of pages of the current
  list and plan and `page` at most that.  `CacheHonest` is not a run's property:
  it is what `PaintsTellTruth` rests on.
* `PaintsAlwaysTellTruth`: a paint leaves each key with the picture of what a
  press on it does.  A key that the cache skips shows its old picture, so this
  needs `CacheHonest`; a key it draws shows the session, control or option of the
  page or window in force (`SessionsAnnounced`, `OptionsAnnounced`, by cases of
  the key's binding), for which the window must be the clamped one
  (`ClampedOnce`).  Excepted, and stated so in the property: paints whose mode
  was left meanwhile, paints between a status screen and its invalidation, keys
  that the cache takes for empty slots (`stale_blank`), the page picker of
  dial-less decks, and second BACK, PREV or NEXT keys, which the picker leaves
  blank although they work.
* `PlansFitSurface`: `layout.py` is modelled twice, for all decks in
  `ControlPlan` and as the surface needs it in `KeySurface`.  The two agree on
  which keys are slots, in which order, and on the sessions of a page, because
  the addresses of a deck's keys are its keys (`KeyBindings`).  The theorem asks
  that the file binds keys only to the actions `KeySurface` models.
* `TilesConnectTheirSession` (`ConnectsPainted`): the invariant `TilesInLockstep`
  ties what a key was painted as to the list and page of that paint; every step
  that moves one of them either repaints all keys or marks them unpainted.
* `LifecycleTypeCorrect`, `OneDriverAtATime`, `HandlesAreClosed`,
  `IdentityNeverChurns`: `LifecycleInv` adds to the types that whoever runs holds
  the lock (mutual exclusion alone is not inductive: a start looks at the lock,
  not at the processes), that handles are closed wherever the loop is between
  sessions, before its start and after its end, and that a minting process has
  truncated the file while an identity in use is in it.  The last two rely on
  the first: only one process mints.
* `ReloadTypeCorrect`, `WorksWithLastGood`, `LastGoodIsKept`,
  `EarlyClaimsComeDue`: the refinement has one lemma per action of `LastGood`.  It
  needs `Kept`: what is held is valid while a sidecar runs, what is in use is its
  bindings wherever a session is settled, also between a rejected reading and its
  record; and that a process that is off has told nothing (`SilentWhenOff`).
  `ClaimInv` says that no stat is of the future and that everything reported,
  in `status.json`, in the reporter or about to be put there, is read or due: older
  than a change that the next poll will see (`ReadOrDue`).  That a record may
  outlive its process is harmless because a start reads the file before anything
  else.  The stronger `ClaimsObserved` does not hold (`unread_claim`).
* `ServiceTypeCorrect`, `ServiceImplementsContract`, `ResetsAlone`,
  `StopLeavesBlank`, `UpdatesBringBack`: `ProgramOK` lists what the fifteen
  functions have in common (proved by cases), `Control` and `Route` what that
  means for one step of a command.  `ServiceInv` adds to the types where a
  command may be (`Shape`), that a process not told to go is newer than the last
  that was, and `EndKnown`: from the request to end on, the job is not wanted and
  what runs is doomed, so that a wait that saw it gone saw no process.  `ScreenKnown`
  says the same of a stop under every manager as far as the screen goes: what a
  stop saw go is not dying still, so that whoever paints over a blanked deck was
  started since.  The refinement is about all three managers as far as processes
  go, and about systemd and launchd as far as pids are told.
  `UpdateKnown` adds what an update's path knows of the job.
* `BindingsAlwaysAccounted`, `KindsAlwaysRespected`, `FreshDecksWork` (for decks
  that have keys), `SessionsHaveOnePlace`: the plan is always the one of the
  current deck and of valid bindings, so the work is about `PlanLayout`.  That
  each session has one place rests on `SlotsOnce` (ranks in a finite set of
  numbers are the numbers below its size, each once; injective by monotonicity,
  onto by counting) and on quotient and remainder.
* `ViewResolved`, `AttentionSorted`: whatever list comes in, `resolve_view` and
  `apply_attention_sort` return each session they are to return once and in
  order.  Both rest on `ArrangedOnce`, and that on `RanksOnce`: `Before` is a
  strict order of the positions, so ranks are injective and take every value
  below the number of positions.  No induction is needed.
* `FaceTypeCorrect`, `OrderAlwaysHonest`, `OrderAlwaysSteady`,
  `ViewAlwaysTruthful`: that lists are lists of the server's sessions follows
  from the two theorems above (`ListedOnce`, `ShownOnce`, `PolledOnce`).
  `OrderHonest` and `ViewTruthful` are about one poll, in a state without the pairs
  of namesakes they name.  `OrderSteady` relates two: it needs the invariant
  `OrderKept`, that the list on the deck is strictly ordered, by the arrangement of
  the poll that made it, by tier, bell and place (by name, or in the server's
  order), between polls too, and that two lists agree on sessions whose bells did
  not change when what decides between the two did not (`PrecedesOneWay`,
  `SameRule`): the mode of the deck, and where bells do not decide the server's
  `sort_order` and its order.

Model-checked only: every liveness property (`SpinSettles`, `Settles`,
`EventuallyFaithful`, `StopsWhenTold`, `DeckComesBack`, `StatusSettles`,
`EditsPickedUp`, `CommandsEnd`, `RestartServes`), which would need temporal
proofs under fairness; and the four violated properties, which have
counterexamples.

## 5. Abstractions

Sessions, views, devices and targets are model values; a picture is the tuple
its identity is made of.  `HidToggleLast` leaves out
the check of `main.py:1833-1850` that the previous session is still listed: it
always is here.  `SyncCycler` takes the unlocked reads of the pin
(`main.py:1131-1132`) and the sync they end in (1142) for one step, as
`KeySurface.Repaint` reads the picker's mode once where `main.py:1189` and 1192
read it twice, and as `PressSession` resolves a press in one step, where
`main.py:1703`, 1926 and 1946 read the plan, the page and the list one after the
other.  A poll in `KeySurface` brings any list of `Lists`.  Focus
requests are a step without effect on the state.  Left out: brightness, strip
messages, the degrade notice, remote-peer status, the view label on control
keys, the picker's mark of the current option, the target picker's page of
options (its effect on the target is in `ActiveRuntime`).  `Lifecycle` has no
time: how long waits are and how backoff grows is left out, and so are
`status.json`'s other fields and the episode of enumeration errors, which only
logs.  Closing a deck is taken to close it.  `ConfigReload` gives every change of
the file a new mtime, so two writes within one tick of the file system's clock,
of which the second is not noticed, are not in it; it keeps of a configuration what its properties tell apart,
and has one edit per command.  `ServiceControl` has no time either: a bounded wait
ends when it sees what it waits for or at any other moment, and pids are given
out in order.  What units, plists and tasks contain, udev, linger and the
texts of commands are left out; Task Scheduler, systemd and launchd are
modelled as far as `service.py` and its comments rely on them.  `DeckFace`
takes session names for numbers in alphabetical order and bells for the times
they last rang; labels, colours and the page a picker is on are not in it.

Not modelled: the device backends (`device*.py`, `emulator.py`,
`hidapi_win.py`) hand calls on to a library or to HTTP and keep no state the
sidecar's logic reads; `rendering.py` and `appearance.py` draw; `init_wizard.py`
is one linear dialogue whose writes are those of `ConfigReload`; `deck_probe` is
a hardware probe; `doctor`, `hidhelp.py`, `usbnode.py`, `report.py` and `wsl.py`
inspect and print, or change the host and not this program.

## 6. Plan

All components whose logic carries state are modelled; `Lifecycle`,
`ConfigReload`, `ServiceControl`, `ControlPlan`, `SessionLists` and `DeckFace`
followed the first four modules in that order.  What would come next:

1. Two sessions of one runtime at once after a replug, whose timer, connect and
   refresh threads still run against the closed deck and client (`Lifecycle`).
2. The page picker on dial-less decks and the target picker's page of options in
   `KeySurface`.
3. The remaining actions of the catalog in `KeySurface`, so that `PlansFitSurface`
   needs no condition on the file.
