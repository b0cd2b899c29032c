------------------------------ MODULE MCSession ------------------------------
(* The session for TLC: a tab with two requests, and another in which the user logs in and out. *)
EXTENDS Session

CONSTANTS t1, t2, r1, r2

OneBusyTab == [r \in Requests |-> t1]

=============================================================================
