---------------------------- MODULE MCLifecycle ----------------------------
EXTENDS Lifecycle
CONSTANTS p1, p2
MCProc == {p1, p2}
MCDenials == {"denied", "busy"}

\* The HID library has one message for every deck it cannot open.
MCSignature == [c \in Causes |-> IF c = "gone" THEN "gone" ELSE "cannot open"]
=============================================================================
