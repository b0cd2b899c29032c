------------------------------- MODULE Session -------------------------------
(***************************************************************************)
(* The session of a user: the interceptors of services/BackendService.ts   *)
(* through which every request of the web interface goes, the refreshing   *)
(* of the access token, and the dialog that asks to log in again.          *)
(*                                                                         *)
(* The tokens are in the browser's local storage, which all tabs share;    *)
(* isRefreshing and retryRequests are variables of each tab.  Access       *)
(* tokens are numbered as they are issued; 0 is no token.                  *)
(***************************************************************************)
EXTENDS Naturals

CONSTANTS
    Tabs,
    Requests,
    TabOf,       \* request -> tab
    NoOne,       \* no request
    MaxTokens,   \* bound: access tokens issued
    MaxFault     \* bound: requests and answers lost, tokens found invalid

ASSUME TabAssumption == TabOf \in [Requests -> Tabs]
ASSUME NoOneAssumption == NoOne \notin Requests
ASSUME BoundAssumption == MaxTokens \in Nat /\ MaxFault \in Nat

VARIABLES
    token, hasRefresh,   \* local storage: the access token; there is a refresh token
    issued, dead, over,  \* access tokens issued, and expired; the refresh token has expired
    st,          \* where each request is
    header,      \* the token it was last sent with
    wire,        \* the requests on their way to the server
    reply,       \* the server's answer to it
    runs,        \* how often the server carried it out
    answer,      \* what its caller was told
    refresher,   \* the request for which a tab refreshes; isRefreshing unless NoOne
    refresh,     \* the call of refresh_token
    grant,       \* the token in its answer
    queue,       \* retryRequests
    late,        \* history: those queued when the tokens had been refreshed already
    place,       \* the tab is on the login page, or on another
    dialog,      \* the singleton of ResetLogin
    faults

tokens == <<token, hasRefresh, issued, dead, over>>
requests == <<st, header, wire, reply, runs, answer>>
refreshing == <<refresher, refresh, grant, queue, late>>
vars == <<tokens, requests, refreshing, place, dialog, faults>>

Init ==
    /\ token = 1 /\ hasRefresh = TRUE
    /\ issued = 1 /\ dead = 0 /\ over = FALSE
    /\ st = [r \in Requests |-> "new"]
    /\ header = [r \in Requests |-> 0]
    /\ wire = {}
    /\ reply = [r \in Requests |-> "none"]
    /\ runs = [r \in Requests |-> 0]
    /\ answer = [r \in Requests |-> "none"]
    /\ refresher = [t \in Tabs |-> NoOne]
    /\ refresh = [t \in Tabs |-> "none"]
    /\ grant = [t \in Tabs |-> 0]
    /\ queue = [t \in Tabs |-> {}]
    /\ late = {}
    /\ place = [t \in Tabs |-> "page"]
    /\ dialog = [t \in Tabs |-> "none"]
    /\ faults = 0

-----------------------------------------------------------------------------
(* Requests *)

\* The request interceptor gives every request, also one sent again, the token that
\* is stored then.
Transmit(rs, with) ==
    /\ st' = [r \in Requests |-> IF r \in rs THEN "sent" ELSE st[r]]
    /\ header' = [r \in Requests |-> IF r \in rs THEN with ELSE header[r]]
    /\ wire' = wire \cup rs

Send(r) ==
    /\ st[r] = "new"
    /\ Transmit({r}, token)
    /\ UNCHANGED <<tokens, reply, runs, answer, refreshing, place, dialog, faults>>

\* The server looks at the token before it does anything else: 12006 without one,
\* 12002 for one that has expired, 12004 for one it did not sign.
Verdicts(r) ==
    IF header[r] = 0 THEN {"error"}
    ELSE IF header[r] <= dead THEN {"expired"}
    ELSE {"ok", "failed"} \cup IF faults < MaxFault THEN {"invalid"} ELSE {}

\* It carries the request out, well or with an error of its own, or refuses it.
Serve(r) ==
    /\ r \in wire
    /\ wire' = wire \ {r}
    /\ \E v \in Verdicts(r) :
          /\ st' = IF st[r] = "sent" THEN [st EXCEPT ![r] = "replied"] ELSE st
          /\ reply' = [reply EXCEPT ![r] = v]
          /\ runs' = IF v \in {"ok", "failed"} THEN [runs EXCEPT ![r] = @ + 1] ELSE runs
          /\ faults' = IF v = "invalid" THEN faults + 1 ELSE faults
    /\ UNCHANGED <<tokens, header, answer, refreshing, place, dialog>>

\* The promise of a request is settled; that of the one which refreshes runs finally.
Tell(r, a) ==
    /\ st' = [st EXCEPT ![r] = "told"]
    /\ answer' = [answer EXCEPT ![r] = a]
    /\ refresher' = [t \in Tabs |-> IF refresher[t] = r THEN NoOne ELSE refresher[t]]

\* ResetLogin.getInstance(): the dialog is made once, and not on the login page.
AskLogin(t) ==
    dialog' = IF dialog[t] # "none" THEN dialog
              ELSE [dialog EXCEPT ![t] = IF place[t] = "page" THEN "shown" ELSE "silent"]

\* The promise of a request is rejected, which the API turns into undefined, or with
\* customError throws to the page: either way the page has its answer, and it is not a
\* good one.  For the one that refreshes the rejection is caught before and asks the user
\* to log in.
Reject(r) ==
    /\ Tell(r, "undefined")
    /\ IF refresher[TabOf[r]] = r THEN AskLogin(TabOf[r]) ELSE UNCHANGED dialog

\* A variant of Lost: the request is sent again.
LostSentAgain(r) ==
    /\ st[r] \in {"sent", "replied"}
    /\ faults < MaxFault
    /\ faults' = faults + 1
    /\ Transmit({r}, token)
    /\ UNCHANGED <<tokens, reply, runs, answer, refreshing, place, dialog>>

\* No answer in thirty seconds, or no connection: the server may still get the request.
Lost(r) ==
    /\ st[r] \in {"sent", "replied"}
    /\ faults < MaxFault
    /\ faults' = faults + 1
    /\ wire' \in {wire, wire \ {r}}
    /\ Reject(r)
    /\ UNCHANGED <<tokens, header, reply, runs, refresh, grant, queue, late, place>>

Got(r, replies) == st[r] = "replied" /\ reply[r] \in replies

HandleOk(r) ==
    /\ Got(r, {"ok"})
    /\ Tell(r, "ok")
    /\ UNCHANGED <<tokens, header, wire, reply, runs, refresh, grant, queue, late, place, dialog, faults>>

\* A variant of HandleError: the caller gets the error.
HandleErrorPassed(r) ==
    /\ Got(r, {"failed", "error"})
    /\ Tell(r, reply[r])
    /\ UNCHANGED <<tokens, header, wire, reply, runs, refresh, grant, queue, late, place, dialog, faults>>

HandleError(r) ==
    /\ Got(r, {"failed", "error"})
    /\ Reject(r)
    /\ UNCHANGED <<tokens, header, wire, reply, runs, refresh, grant, queue, late, place, faults>>

HandleInvalid(r) ==
    /\ Got(r, {"invalid"})
    /\ AskLogin(TabOf[r])
    /\ Tell(r, "undefined")
    /\ UNCHANGED <<tokens, header, wire, reply, runs, refresh, grant, queue, late, place, faults>>

\* A variant of StartRefresh: isRefreshing is not looked at.
StartRefreshAnyway(r) ==
    LET t == TabOf[r]
    IN  /\ Got(r, {"expired"})
        /\ st' = [st EXCEPT ![r] = "waiting"]
        /\ refresher' = [refresher EXCEPT ![t] = r]
        /\ refresh' = [refresh EXCEPT ![t] = IF hasRefresh THEN "asked" ELSE "askedWithout"]
        /\ UNCHANGED <<tokens, header, wire, reply, runs, answer, grant, queue, late, place, dialog, faults>>

\* A variant of StartRefresh: nothing is done without a refresh token.
StartRefreshWithToken(r) ==
    LET t == TabOf[r]
    IN  /\ Got(r, {"expired"})
        /\ refresher[t] = NoOne
        /\ hasRefresh
        /\ st' = [st EXCEPT ![r] = "waiting"]
        /\ refresher' = [refresher EXCEPT ![t] = r]
        /\ refresh' = [refresh EXCEPT ![t] = "asked"]
        /\ UNCHANGED <<tokens, header, wire, reply, runs, answer, grant, queue, late, place, dialog, faults>>

\* The first request of a tab whose token has expired refreshes it, with the refresh
\* token that is stored.
StartRefresh(r) ==
    LET t == TabOf[r]
    IN  /\ Got(r, {"expired"})
        /\ refresher[t] = NoOne
        /\ st' = [st EXCEPT ![r] = "waiting"]
        /\ refresher' = [refresher EXCEPT ![t] = r]
        /\ refresh' = [refresh EXCEPT ![t] = IF hasRefresh THEN "asked" ELSE "askedWithout"]
        /\ UNCHANGED <<tokens, header, wire, reply, runs, answer, grant, queue, late, place, dialog, faults>>

\* The others wait for it.  So do those whose answer comes when the token has been
\* refreshed and the first request is under way again, and that request itself.
Enqueue(r) ==
    LET t == TabOf[r]
    IN  /\ Got(r, {"expired"})
        /\ refresher[t] # NoOne
        /\ st' = [st EXCEPT ![r] = "queued"]
        /\ queue' = [queue EXCEPT ![t] = @ \cup {r}]
        /\ late' = IF refresh[t] = "none" THEN late \cup {r} ELSE late
        /\ UNCHANGED <<tokens, header, wire, reply, runs, answer, refresher, refresh, grant, place, dialog, faults>>

-----------------------------------------------------------------------------
(* The tokens *)

\* The server gives a new access token for a refresh token that has not expired.
ServeRefresh(t) ==
    /\ refresh[t] \in {"asked", "askedWithout"}
    /\ IF refresh[t] = "asked" /\ ~ over
       THEN /\ issued < MaxTokens
            /\ issued' = issued + 1
            /\ grant' = [grant EXCEPT ![t] = issued + 1]
            /\ refresh' = [refresh EXCEPT ![t] = "granted"]
       ELSE /\ refresh' = [refresh EXCEPT ![t] = "refused"]
            /\ UNCHANGED <<issued, grant>>
    /\ UNCHANGED <<token, hasRefresh, dead, over, requests, refresher, queue, late, place, dialog, faults>>

LoseRefresh(t) ==
    /\ refresh[t] \in {"asked", "askedWithout", "granted"}
    /\ faults < MaxFault
    /\ faults' = faults + 1
    /\ refresh' = [refresh EXCEPT ![t] = "refused"]
    /\ UNCHANGED <<tokens, requests, refresher, grant, queue, late, place, dialog>>

\* A variant of Granted: only the request that refreshed is sent again.
GrantedToOne(t) ==
    LET again == {refresher[t]}
    IN  /\ refresh[t] = "granted"
        /\ token' = grant[t]
        /\ hasRefresh' = TRUE
        /\ Transmit(again, grant[t])
        /\ late' = late \ again
        /\ refresh' = [refresh EXCEPT ![t] = "none"]
        /\ UNCHANGED <<issued, dead, over, reply, runs, answer, refresher, grant, queue, place, dialog, faults>>

\* The tokens are stored, and all that waited is sent again.  isRefreshing remains
\* until the first request is settled.  The server grants a token or fails: only to an
\* access token in place of the refresh token, which nobody stores there, would it answer
\* with neither, and the interceptor give null.
Granted(t) ==
    LET again == queue[t] \cup {refresher[t]}
    IN  /\ refresh[t] = "granted"
        /\ token' = grant[t]
        /\ hasRefresh' = TRUE
        /\ Transmit(again, grant[t])
        /\ queue' = [queue EXCEPT ![t] = {}]
        /\ late' = late \ again
        /\ refresh' = [refresh EXCEPT ![t] = "none"]
        /\ UNCHANGED <<issued, dead, over, reply, runs, answer, refresher, grant, place, dialog, faults>>

\* The user is asked to log in.  What waited is not settled.
Refused(t) ==
    /\ refresh[t] = "refused"
    /\ AskLogin(t)
    /\ Tell(refresher[t], "undefined")
    /\ refresh' = [refresh EXCEPT ![t] = "none"]
    /\ UNCHANGED <<tokens, header, wire, reply, runs, grant, queue, late, place, faults>>

Expire ==
    /\ dead < issued
    /\ dead' = dead + 1
    /\ UNCHANGED <<token, hasRefresh, issued, over, requests, refreshing, place, dialog, faults>>

RefreshTokenExpires ==
    /\ ~ over
    /\ over' = TRUE
    /\ UNCHANGED <<token, hasRefresh, issued, dead, requests, refreshing, place, dialog, faults>>

-----------------------------------------------------------------------------
(* The user *)

\* The page is not loaded anew.
Logout(t) ==
    /\ place[t] = "page"
    /\ dialog[t] # "shown"
    /\ place' = [place EXCEPT ![t] = "login"]
    /\ token' = 0
    /\ hasRefresh' = FALSE
    /\ UNCHANGED <<issued, dead, over, requests, refreshing, dialog, faults>>

Login(t) ==
    /\ place[t] = "login"
    /\ issued < MaxTokens
    /\ place' = [place EXCEPT ![t] = "page"]
    /\ issued' = issued + 1
    /\ token' = issued + 1
    /\ hasRefresh' = TRUE
    /\ over' = FALSE
    /\ UNCHANGED <<dead, requests, refreshing, dialog, faults>>

\* The user confirms the dialog: the tokens are removed and the login page is loaded,
\* with which all the tab was doing is gone.
Confirm(t) ==
    LET mine == {r \in Requests : TabOf[r] = t /\ st[r] \notin {"new", "told"}}
    IN  /\ dialog[t] = "shown"
        /\ token' = 0
        /\ hasRefresh' = FALSE
        /\ st' = [r \in Requests |-> IF r \in mine THEN "gone" ELSE st[r]]
        /\ refresher' = [refresher EXCEPT ![t] = NoOne]
        /\ refresh' = [refresh EXCEPT ![t] = "none"]
        /\ queue' = [queue EXCEPT ![t] = {}]
        /\ late' = late \ mine
        /\ place' = [place EXCEPT ![t] = "login"]
        /\ dialog' = [dialog EXCEPT ![t] = "none"]
        /\ UNCHANGED <<issued, dead, over, header, wire, reply, runs, answer, grant, faults>>

-----------------------------------------------------------------------------

Handle(r) == HandleOk(r) \/ HandleError(r) \/ HandleInvalid(r) \/ StartRefresh(r) \/ Enqueue(r)

Next ==
    \/ \E r \in Requests : Send(r) \/ Serve(r) \/ Lost(r) \/ Handle(r)
    \/ \E t \in Tabs :
          \/ ServeRefresh(t) \/ LoseRefresh(t) \/ Granted(t) \/ Refused(t)
          \/ Logout(t) \/ Login(t) \/ Confirm(t)
    \/ Expire
    \/ RefreshTokenExpires

Spec == Init /\ [][Next]_vars

\* Requests reach the server, the server answers, and the browser runs the callbacks.
Fairness ==
    /\ \A r \in Requests : WF_vars(Serve(r)) /\ WF_vars(Handle(r))
    /\ \A t \in Tabs : WF_vars(ServeRefresh(t)) /\ WF_vars(Granted(t)) /\ WF_vars(Refused(t))

FairSpec == Spec /\ Fairness

-----------------------------------------------------------------------------
(* Properties *)

FlagsOK == hasRefresh \in BOOLEAN /\ over \in BOOLEAN

DataOK ==
    /\ token \in Nat /\ issued \in Nat /\ dead \in Nat
    /\ st \in [Requests -> {"new", "sent", "replied", "waiting", "queued", "told", "gone"}]
    /\ header \in [Requests -> Nat]
    /\ wire \subseteq Requests
    /\ reply \in [Requests -> {"none", "ok", "failed", "error", "expired", "invalid"}]
    /\ runs \in [Requests -> Nat]
    /\ answer \in [Requests -> {"none", "ok", "undefined"}]
    /\ refresher \in [Tabs -> Requests \cup {NoOne}]
    /\ refresh \in [Tabs -> {"none", "asked", "askedWithout", "granted", "refused"}]
    /\ grant \in [Tabs -> Nat]
    /\ queue \in [Tabs -> SUBSET Requests]
    /\ late \subseteq Requests
    /\ place \in [Tabs -> {"page", "login"}]
    /\ dialog \in [Tabs -> {"none", "shown", "silent"}]
    /\ faults \in Nat

\* The state has its type.
TypeOK == FlagsOK /\ DataOK

\* A tab has one refresh under way, for one request of its own, and the requests that
\* wait for it are those in retryRequests.
OneRefresh ==
    \A r \in Requests :
        LET t == TabOf[r]
        IN  /\ st[r] = "waiting" => refresher[t] = r /\ refresh[t] # "none"
            /\ st[r] = "queued" <=> r \in queue[t]

\* A request waits in the queue only while a refresh is under way that will send it
\* again, unless it came late or a refresh was refused.
QueueIsServed ==
    \A t \in Tabs : \A r \in queue[t] : refresh[t] # "none" \/ r \in late \/ dialog[t] # "none"

\* The interceptors keep the promise of the API.
Api == INSTANCE Calls WITH asked <- {r \in Requests : st[r] # "new"}
KeepsPromise == Api!Spec

\* The refresh of a tab waits for a token beyond the bound.
OutOfTokens(t) == refresh[t] = "asked" /\ issued = MaxTokens

\* Every request that is sent is answered, unless it came late to the queue or its tab
\* asks for a login.
AllAnswered ==
    \A r \in Requests :
        st[r] = "sent" ~> \/ st[r] \in {"told", "gone"}
                          \/ r \in late
                          \/ dialog[TabOf[r]] # "none"
                          \/ OutOfTokens(TabOf[r])

=============================================================================
