------------------------------ MODULE LastGood ------------------------------
(***************************************************************************)
(* What the sidecar promises about config.json, whoever writes the file    *)
(* and however: it works with the last configuration that it read and that *)
(* can be worked with, and says of each reading what it made of it, when   *)
(* the result is in use (ConfigWatcher.poll, _ActiveRuntime.apply_reload). *)
(***************************************************************************)
CONSTANT Usable  \* the configurations that can be worked with

VARIABLES
  file,     \* what the file says
  on,       \* whether a sidecar runs
  last,     \* the last usable configuration it read
  using,    \* the bindings in use
  settled,  \* a session is up and not about to take over what was read
  pending,  \* what a reading came to that has not been told
  told      \* what was told last

watch == <<file, on, last, using, settled, pending, told>>

\* Anybody writes anything.
Rewrite == UNCHANGED <<on, last, using, settled, pending, told>>

Begin ==
  /\ ~on /\ on'
  /\ file \in Usable /\ last' = file
  /\ ~settled' /\ pending' = "none" /\ told' = "nothing"
  /\ UNCHANGED <<file, using>>

End ==
  /\ on /\ ~on'
  /\ ~settled' /\ pending' = "none" /\ told' = "nothing"
  /\ UNCHANGED file

\* A session ends, or a reading begins.
Unsettle == on /\ ~settled' /\ UNCHANGED <<file, on, last, using, pending, told>>

\* An unusable file changes nothing but what is to be told.
Read ==
  /\ on /\ ~settled /\ pending = "none"
  /\ \/ file \in Usable /\ last' = file /\ pending' = "applied"
     \/ file \notin Usable /\ last' = last /\ pending' = "rejected"
  /\ UNCHANGED <<file, on, using, settled, told>>

\* A session takes over what was read; one that comes up reads by itself and
\* keeps what came of it to itself.
Settle ==
  /\ on /\ settled'
  /\ last' = last \/ (pending = "none" /\ ~settled /\ file \in Usable /\ last' = file)
  /\ using' = last'.controls
  /\ UNCHANGED <<file, on, pending, told>>

Tell ==
  /\ settled /\ pending # "none"
  /\ told' = pending /\ pending' = "none"
  /\ UNCHANGED <<file, on, last, using, settled>>

WatchInit == ~on /\ ~settled /\ pending = "none" /\ told = "nothing"

WatchSpec ==
  WatchInit /\ [][Rewrite \/ Begin \/ End \/ Unsettle \/ Read \/ Settle \/ Tell]_watch
=============================================================================
