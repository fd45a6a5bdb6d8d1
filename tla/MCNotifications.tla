--------------------------- MODULE MCNotifications ---------------------------
(* Notifications on three events, two of one user, and two users who share *)
(* a device.                                                               *)
EXTENDS Notifications

CONSTANTS Ann, Bob, e1, e2, e3

MCUsers == {Ann, Bob}
MCEvents == {e1, e2, e3}
MCUserOf == [e \in MCEvents |-> IF e = e3 THEN Bob ELSE Ann]
MCUnhandled == {e3}
=============================================================================
