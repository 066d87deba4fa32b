-------------------------- MODULE MCActiveRuntime --------------------------
(* Two slices of the runtime, told apart by Kinds: the views (dial, VIEW   *)
(* picker, all-views key, pin) and the sessions (connects, control target).*)
(* Two connects may overlap in the second; one timer and one worker do for *)
(* the first, ViewCycler's own run has the timers that supersede another.  *)
EXTENDS ActiveRuntime
CONSTANTS t1, w1, w2, s1, s2, d1
MCTicks == {1}
MCTimers == {t1}
OneWorker == {w1}
TwoWorkers == {w1, w2}
NoViews == {}
ViewListOfNone == {<<>>}
MCPinEdits == {NoPin, Hidden}
NeverPinned == {NoPin}
Nobody == {}
MCSessions == {s1, s2}
MCRemote == {s2}
MCDevices == {d1}
ViewKinds == {"view_cycle", "view_picker", "view_all", "others_view", "config"}
PinKinds == {"refresh_now", "config"}
SessionKinds == {"session", "refresh_now", "toggle_last", "target_picker",
                 "others_session", "device_gone"}
=============================================================================
