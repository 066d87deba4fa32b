--------------------------- MODULE MCViewCycler ---------------------------
(* Two user views, so that lists of different lengths shift positions, and *)
(* two timer threads: one a turn superseded, and the one that replaced it. *)
EXTENDS ViewCycler
CONSTANTS a, b, t1, t2
MCNamed == {a, b}
MCLists == {<<a>>, <<a, b>>}
MCTimers == {t1, t2}
MCTicks == {-1, 1}
=============================================================================
