----------------------------- MODULE MCWorkspace -----------------------------
(* Instances of Workspace for TLC. *)
EXTENDS Workspace

CONSTANTS p1, p2

\* Every user is a member of every project.
Members == {Projects}

=============================================================================
