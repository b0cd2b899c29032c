-------------------------------- MODULE Calls --------------------------------
(***************************************************************************)
(* What the web interface's API promises to a page that makes a request:   *)
(* the request is answered at most once, the server carries it out at most *)
(* once, and the answer is good only if it did.  Tokens and their renewal  *)
(* are not to be seen.                                                     *)
(***************************************************************************)
EXTENDS Naturals

CONSTANT Requests

VARIABLES asked, runs, answer

vars == <<asked, runs, answer>>

Init ==
    /\ asked = {}
    /\ runs = [r \in Requests |-> 0]
    /\ answer = [r \in Requests |-> "none"]

Ask(r) ==
    /\ r \notin asked
    /\ asked' = asked \cup {r}
    /\ UNCHANGED <<runs, answer>>

\* The server does what it is asked, also when nobody waits for the answer any more.
Execute(r) ==
    /\ r \in asked
    /\ runs[r] = 0
    /\ runs' = [runs EXCEPT ![r] = 1]
    /\ UNCHANGED <<asked, answer>>

\* The caller's promise is resolved, with the answer or with undefined.
Resolve(r, a) ==
    /\ r \in asked
    /\ answer[r] = "none"
    /\ a = "ok" => runs[r] = 1
    /\ answer' = [answer EXCEPT ![r] = a]
    /\ UNCHANGED <<asked, runs>>

Next ==
    \E r \in Requests :
        Ask(r) \/ Execute(r) \/ Resolve(r, "ok") \/ Resolve(r, "undefined")

Spec == Init /\ [][Next]_vars

=============================================================================
