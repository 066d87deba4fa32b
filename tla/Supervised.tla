----------------------------- MODULE Supervised -----------------------------
(***************************************************************************)
(* What a service manager and the commands that drive it promise between   *)
(* them, whichever manager it is: one sidecar at a time, each with a pid   *)
(* of its own, and nobody is told of a process that has had its day.       *)
(***************************************************************************)
EXTENDS Integers

VARIABLES
  alive,   \* the pid of the sidecar, 0 when none runs
  newest,  \* the pid given out last; pids grow
  since,   \* the newest pid when the sidecar was last asked to go
  told     \* the pid the user was told is the service, 0 for none

contract == <<alive, newest, since, told>>

Start ==
  /\ alive = 0
  /\ newest' = newest + 1 /\ alive' = newest'
  /\ UNCHANGED <<since, told>>

Stop == alive # 0 /\ alive' = 0 /\ UNCHANGED <<newest, since, told>>

\* A new command has told nothing; asking the sidecar to go marks the time.
Ask == since' \in {since, newest} /\ told' = 0 /\ UNCHANGED <<alive, newest>>

\* The user is told of the process that runs, or of one that was started
\* since its predecessor was asked to go.
Tell ==
  /\ told' \in {alive} \cup (since + 1 .. newest)
  /\ UNCHANGED <<alive, newest, since>>

SupervisedInit ==
  /\ newest \in Nat
  /\ alive \in {0, newest} /\ since = newest /\ told = 0

SupervisedSpec == SupervisedInit /\ [][Start \/ Stop \/ Ask \/ Tell]_contract
=============================================================================
