---------------------------- MODULE SessionProofs ----------------------------
(***************************************************************************)
(* Proofs about Session, for any tabs, requests and bounds: its types, one *)
(* refresh at a time with everyone who waits for it known, and that it     *)
(* keeps the promise of Calls.                                             *)
(***************************************************************************)
EXTENDS Session, TLAPS

\* What a request has been through says where it is: one that waits, or is on its way,
\* has not been carried out, and one that was answered is told so.
RequestInv ==
    \A r \in Requests :
        /\ st[r] = "new" => r \notin wire
        /\ st[r] \in {"new", "waiting", "queued"} => runs[r] = 0 /\ r \notin wire
        /\ r \in wire => runs[r] = 0
        /\ st[r] = "replied" => r \notin wire
        /\ st[r] = "replied" /\ reply[r] = "ok" => runs[r] = 1
        /\ st[r] = "replied" /\ reply[r] = "expired" => runs[r] = 0
        /\ runs[r] \in {0, 1}
        /\ answer[r] # "none" <=> st[r] = "told"

\* While the tokens are being refreshed, the one for whom it is done waits, and belongs
\* to the tab.
RefreshInv ==
    \A t \in Tabs :
        /\ refresh[t] # "none" => refresher[t] \in Requests /\ st[refresher[t]] = "waiting"
        /\ refresher[t] \in Requests => TabOf[refresher[t]] = t
        /\ \A r \in queue[t] : TabOf[r] = t

Inv == TypeOK /\ RequestInv /\ RefreshInv /\ OneRefresh /\ QueueIsServed

-----------------------------------------------------------------------------
(* Types *)

LEMMA InitType == Init => TypeOK
<1>1. Init => FlagsOK
  BY Zenon DEF Init, FlagsOK
<1>2. Init => DataOK
  BY NoOneAssumption DEF Init, DataOK
<1> QED
  BY <1>1, <1>2 DEF TypeOK

LEMMA NextFlags == FlagsOK /\ [Next]_vars => FlagsOK'
BY Zenon DEF FlagsOK, Next, Handle, vars, tokens, requests, refreshing, Send, Serve, Lost, HandleOk,
             HandleError, HandleInvalid, StartRefresh, Enqueue, ServeRefresh, LoseRefresh, Granted,
             Refused, Logout, Login, Confirm, Expire, RefreshTokenExpires

LEMMA NextData == DataOK /\ RefreshInv /\ [Next]_vars => DataOK'
<1> SUFFICES ASSUME DataOK, RefreshInv, [Next]_vars PROVE DataOK'
  OBVIOUS
<1> USE TabAssumption, NoOneAssumption DEF DataOK
<1>1. ASSUME NEW r \in Requests, Send(r) PROVE DataOK'
  BY <1>1 DEF Send, Transmit, tokens, refreshing
<1>2. ASSUME NEW r \in Requests, Serve(r) PROVE DataOK'
  BY <1>2 DEF Serve, Verdicts, tokens, refreshing
<1>3. ASSUME NEW r \in Requests, Lost(r) PROVE DataOK'
  BY <1>3 DEF Lost, Reject, Tell, AskLogin, tokens
<1>4. ASSUME NEW r \in Requests, HandleOk(r) PROVE DataOK'
  BY <1>4 DEF HandleOk, Tell, tokens
<1>5. ASSUME NEW r \in Requests, HandleError(r) PROVE DataOK'
  BY <1>5 DEF HandleError, Reject, Tell, AskLogin, tokens
<1>6. ASSUME NEW r \in Requests, HandleInvalid(r) PROVE DataOK'
  BY <1>6 DEF HandleInvalid, Tell, AskLogin, tokens
<1>7. ASSUME NEW r \in Requests, StartRefresh(r) PROVE DataOK'
  BY <1>7 DEF StartRefresh, tokens
<1>8. ASSUME NEW r \in Requests, Enqueue(r) PROVE DataOK'
  BY <1>8 DEF Enqueue, tokens
<1>9. ASSUME NEW t \in Tabs, ServeRefresh(t) PROVE DataOK'
  BY <1>9 DEF ServeRefresh, requests
<1>10. ASSUME NEW t \in Tabs, LoseRefresh(t) PROVE DataOK'
  BY <1>10 DEF LoseRefresh, tokens, requests
<1>11. ASSUME NEW t \in Tabs, Granted(t) PROVE DataOK'
  BY <1>11 DEF Granted, Transmit, RefreshInv
<1>12. ASSUME NEW t \in Tabs, Refused(t) PROVE DataOK'
  BY <1>12 DEF Refused, Tell, AskLogin, tokens
<1>13. ASSUME NEW t \in Tabs, Logout(t) PROVE DataOK'
  BY <1>13 DEF Logout, requests, refreshing
<1>14. ASSUME NEW t \in Tabs, Login(t) PROVE DataOK'
  BY <1>14 DEF Login, requests, refreshing
<1>15. ASSUME NEW t \in Tabs, Confirm(t) PROVE DataOK'
  BY <1>15 DEF Confirm
<1>16. CASE Expire \/ RefreshTokenExpires
  BY <1>16 DEF Expire, RefreshTokenExpires, requests, refreshing
<1>17. CASE UNCHANGED vars
  BY <1>17 DEF vars, tokens, requests, refreshing
<1> QED
  BY <1>1, <1>2, <1>3, <1>4, <1>5, <1>6, <1>7, <1>8, <1>9, <1>10, <1>11, <1>12, <1>13, <1>14, <1>15, <1>16, <1>17
     DEF Next, Handle

-----------------------------------------------------------------------------
(* The invariant *)

LEMMA InitInv == Init => Inv
<1> SUFFICES ASSUME Init PROVE RequestInv /\ RefreshInv /\ OneRefresh /\ QueueIsServed
  BY InitType DEF Inv
<1> QED
  BY TabAssumption, NoOneAssumption DEF Init, RequestInv, RefreshInv, OneRefresh, QueueIsServed

LEMMA NextRequest == Inv /\ [Next]_vars => RequestInv'
<1> SUFFICES ASSUME DataOK, RequestInv, RefreshInv, OneRefresh, [Next]_vars PROVE RequestInv'
  BY DEF Inv, TypeOK
<1> USE TabAssumption, NoOneAssumption DEF DataOK, RequestInv
<1>1. ASSUME NEW r \in Requests, Send(r) PROVE RequestInv'
  BY <1>1 DEF Send, Transmit, tokens, refreshing
<1>2. ASSUME NEW r \in Requests, Serve(r) PROVE RequestInv'
  BY <1>2 DEF Serve, Verdicts, tokens, refreshing
<1>3. ASSUME NEW r \in Requests, Lost(r) PROVE RequestInv'
  BY <1>3 DEF Lost, Reject, Tell, AskLogin, tokens
<1>4. ASSUME NEW r \in Requests, HandleOk(r) PROVE RequestInv'
  BY <1>4 DEF HandleOk, Got, Tell, tokens
<1>5. ASSUME NEW r \in Requests, HandleError(r) PROVE RequestInv'
  BY <1>5 DEF HandleError, Got, Reject, Tell, AskLogin, tokens
<1>6. ASSUME NEW r \in Requests, HandleInvalid(r) PROVE RequestInv'
  BY <1>6 DEF HandleInvalid, Got, Tell, AskLogin, tokens
<1>7. ASSUME NEW r \in Requests, StartRefresh(r) PROVE RequestInv'
  BY <1>7 DEF StartRefresh, Got, tokens
<1>8. ASSUME NEW r \in Requests, Enqueue(r) PROVE RequestInv'
  BY <1>8 DEF Enqueue, Got, tokens
<1>9. ASSUME NEW t \in Tabs, ServeRefresh(t) PROVE RequestInv'
  BY <1>9 DEF ServeRefresh, requests
<1>10. ASSUME NEW t \in Tabs, LoseRefresh(t) PROVE RequestInv'
  BY <1>10 DEF LoseRefresh, tokens, requests
<1>11. ASSUME NEW t \in Tabs, Granted(t) PROVE RequestInv'
  BY <1>11 DEF Granted, Transmit, RefreshInv, OneRefresh
<1>12. ASSUME NEW t \in Tabs, Refused(t) PROVE RequestInv'
  BY <1>12 DEF Refused, Tell, AskLogin, tokens, RefreshInv
<1>13. ASSUME NEW t \in Tabs, Logout(t) PROVE RequestInv'
  BY <1>13 DEF Logout, requests, refreshing
<1>14. ASSUME NEW t \in Tabs, Login(t) PROVE RequestInv'
  BY <1>14 DEF Login, requests, refreshing
<1>15. ASSUME NEW t \in Tabs, Confirm(t) PROVE RequestInv'
  BY <1>15 DEF Confirm
<1>16. CASE Expire \/ RefreshTokenExpires
  BY <1>16 DEF Expire, RefreshTokenExpires, requests, refreshing
<1>17. CASE UNCHANGED vars
  BY <1>17 DEF vars, tokens, requests, refreshing
<1> QED
  BY <1>1, <1>2, <1>3, <1>4, <1>5, <1>6, <1>7, <1>8, <1>9, <1>10, <1>11, <1>12, <1>13, <1>14, <1>15, <1>16, <1>17
     DEF Next, Handle

LEMMA NextRefresh == Inv /\ [Next]_vars => RefreshInv'
<1> SUFFICES ASSUME DataOK, RefreshInv, OneRefresh, [Next]_vars PROVE RefreshInv'
  BY DEF Inv, TypeOK
<1> USE TabAssumption, NoOneAssumption DEF DataOK, RefreshInv
<1>1. ASSUME NEW r \in Requests, Send(r) PROVE RefreshInv'
  BY <1>1 DEF Send, Transmit, tokens, refreshing
<1>2. ASSUME NEW r \in Requests, Serve(r) PROVE RefreshInv'
  BY <1>2 DEF Serve, Verdicts, tokens, refreshing
<1>3. ASSUME NEW r \in Requests, Lost(r) PROVE RefreshInv'
  BY <1>3 DEF Lost, Reject, Tell, AskLogin, tokens, OneRefresh
<1>4. ASSUME NEW r \in Requests, HandleOk(r) PROVE RefreshInv'
  BY <1>4 DEF HandleOk, Got, Tell, tokens
<1>5. ASSUME NEW r \in Requests, HandleError(r) PROVE RefreshInv'
  BY <1>5 DEF HandleError, Got, Reject, Tell, AskLogin, tokens
<1>6. ASSUME NEW r \in Requests, HandleInvalid(r) PROVE RefreshInv'
  BY <1>6 DEF HandleInvalid, Got, Tell, AskLogin, tokens
<1>7. ASSUME NEW r \in Requests, StartRefresh(r) PROVE RefreshInv'
  BY <1>7 DEF StartRefresh, Got, tokens
<1>8. ASSUME NEW r \in Requests, Enqueue(r) PROVE RefreshInv'
  BY <1>8 DEF Enqueue, Got, tokens
<1>9. ASSUME NEW t \in Tabs, ServeRefresh(t) PROVE RefreshInv'
  BY <1>9 DEF ServeRefresh, requests
<1>10. ASSUME NEW t \in Tabs, LoseRefresh(t) PROVE RefreshInv'
  BY <1>10 DEF LoseRefresh, tokens, requests
<1>11. ASSUME NEW t \in Tabs, Granted(t) PROVE RefreshInv'
  BY <1>11 DEF Granted, Transmit, OneRefresh
<1>12. ASSUME NEW t \in Tabs, Refused(t) PROVE RefreshInv'
  BY <1>12 DEF Refused, Tell, AskLogin, tokens
<1>13. ASSUME NEW t \in Tabs, Logout(t) PROVE RefreshInv'
  BY <1>13 DEF Logout, requests, refreshing
<1>14. ASSUME NEW t \in Tabs, Login(t) PROVE RefreshInv'
  BY <1>14 DEF Login, requests, refreshing
<1>15. ASSUME NEW t \in Tabs, Confirm(t) PROVE RefreshInv'
  BY <1>15 DEF Confirm
<1>16. CASE Expire \/ RefreshTokenExpires
  BY <1>16 DEF Expire, RefreshTokenExpires, requests, refreshing
<1>17. CASE UNCHANGED vars
  BY <1>17 DEF vars, tokens, requests, refreshing
<1> QED
  BY <1>1, <1>2, <1>3, <1>4, <1>5, <1>6, <1>7, <1>8, <1>9, <1>10, <1>11, <1>12, <1>13, <1>14, <1>15, <1>16, <1>17
     DEF Next, Handle

LEMMA NextOne == Inv /\ [Next]_vars => OneRefresh'
<1> SUFFICES ASSUME DataOK, RefreshInv, OneRefresh, [Next]_vars PROVE OneRefresh'
  BY DEF Inv, TypeOK
<1> USE TabAssumption, NoOneAssumption DEF DataOK, OneRefresh, RefreshInv
<1>1. ASSUME NEW r \in Requests, Send(r) PROVE OneRefresh'
  BY <1>1 DEF Send, Transmit, tokens, refreshing
<1>2. ASSUME NEW r \in Requests, Serve(r) PROVE OneRefresh'
  BY <1>2 DEF Serve, Verdicts, tokens, refreshing
<1>3. ASSUME NEW r \in Requests, Lost(r) PROVE OneRefresh'
  BY <1>3 DEF Lost, Reject, Tell, AskLogin, tokens
<1>4. ASSUME NEW r \in Requests, HandleOk(r) PROVE OneRefresh'
  BY <1>4 DEF HandleOk, Got, Tell, tokens
<1>5. ASSUME NEW r \in Requests, HandleError(r) PROVE OneRefresh'
  BY <1>5 DEF HandleError, Got, Reject, Tell, AskLogin, tokens
<1>6. ASSUME NEW r \in Requests, HandleInvalid(r) PROVE OneRefresh'
  BY <1>6 DEF HandleInvalid, Got, Tell, AskLogin, tokens
<1>7. ASSUME NEW r \in Requests, StartRefresh(r) PROVE OneRefresh'
  BY <1>7 DEF StartRefresh, Got, tokens
<1>8. ASSUME NEW r \in Requests, Enqueue(r) PROVE OneRefresh'
  BY <1>8 DEF Enqueue, Got, tokens
<1>9. ASSUME NEW t \in Tabs, ServeRefresh(t) PROVE OneRefresh'
  BY <1>9 DEF ServeRefresh, requests
<1>10. ASSUME NEW t \in Tabs, LoseRefresh(t) PROVE OneRefresh'
  BY <1>10 DEF LoseRefresh, tokens, requests
<1>11. ASSUME NEW t \in Tabs, Granted(t) PROVE OneRefresh'
  BY <1>11 DEF Granted, Transmit
<1>12. ASSUME NEW t \in Tabs, Refused(t) PROVE OneRefresh'
  BY <1>12 DEF Refused, Tell, AskLogin, tokens
<1>13. ASSUME NEW t \in Tabs, Logout(t) PROVE OneRefresh'
  BY <1>13 DEF Logout, requests, refreshing
<1>14. ASSUME NEW t \in Tabs, Login(t) PROVE OneRefresh'
  BY <1>14 DEF Login, requests, refreshing
<1>15. ASSUME NEW t \in Tabs, Confirm(t) PROVE OneRefresh'
  BY <1>15 DEF Confirm
<1>16. CASE Expire \/ RefreshTokenExpires
  BY <1>16 DEF Expire, RefreshTokenExpires, requests, refreshing
<1>17. CASE UNCHANGED vars
  BY <1>17 DEF vars, tokens, requests, refreshing
<1> QED
  BY <1>1, <1>2, <1>3, <1>4, <1>5, <1>6, <1>7, <1>8, <1>9, <1>10, <1>11, <1>12, <1>13, <1>14, <1>15, <1>16, <1>17
     DEF Next, Handle

LEMMA NextQueue == Inv /\ [Next]_vars => QueueIsServed'
<1> SUFFICES ASSUME DataOK, RefreshInv, QueueIsServed, [Next]_vars PROVE QueueIsServed'
  BY DEF Inv, TypeOK
<1> USE TabAssumption, NoOneAssumption DEF DataOK, QueueIsServed, RefreshInv
<1>1. ASSUME NEW r \in Requests, Send(r) PROVE QueueIsServed'
  BY <1>1 DEF Send, Transmit, tokens, refreshing
<1>2. ASSUME NEW r \in Requests, Serve(r) PROVE QueueIsServed'
  BY <1>2 DEF Serve, Verdicts, tokens, refreshing
<1>3. ASSUME NEW r \in Requests, Lost(r) PROVE QueueIsServed'
  BY <1>3 DEF Lost, Reject, Tell, AskLogin, tokens
<1>4. ASSUME NEW r \in Requests, HandleOk(r) PROVE QueueIsServed'
  BY <1>4 DEF HandleOk, Got, Tell, tokens
<1>5. ASSUME NEW r \in Requests, HandleError(r) PROVE QueueIsServed'
  BY <1>5 DEF HandleError, Got, Reject, Tell, AskLogin, tokens
<1>6. ASSUME NEW r \in Requests, HandleInvalid(r) PROVE QueueIsServed'
  BY <1>6 DEF HandleInvalid, Got, Tell, AskLogin, tokens
<1>7. ASSUME NEW r \in Requests, StartRefresh(r) PROVE QueueIsServed'
  BY <1>7 DEF StartRefresh, Got, tokens
<1>8. ASSUME NEW r \in Requests, Enqueue(r) PROVE QueueIsServed'
  BY <1>8 DEF Enqueue, Got, tokens
<1>9. ASSUME NEW t \in Tabs, ServeRefresh(t) PROVE QueueIsServed'
  BY <1>9 DEF ServeRefresh, requests
<1>10. ASSUME NEW t \in Tabs, LoseRefresh(t) PROVE QueueIsServed'
  BY <1>10 DEF LoseRefresh, tokens, requests
<1>11. ASSUME NEW t \in Tabs, Granted(t) PROVE QueueIsServed'
  BY <1>11 DEF Granted, Transmit
<1>12. ASSUME NEW t \in Tabs, Refused(t) PROVE QueueIsServed'
  BY <1>12 DEF Refused, Tell, AskLogin, tokens
<1>13. ASSUME NEW t \in Tabs, Logout(t) PROVE QueueIsServed'
  BY <1>13 DEF Logout, requests, refreshing
<1>14. ASSUME NEW t \in Tabs, Login(t) PROVE QueueIsServed'
  BY <1>14 DEF Login, requests, refreshing
<1>15. ASSUME NEW t \in Tabs, Confirm(t) PROVE QueueIsServed'
  BY <1>15 DEF Confirm
<1>16. CASE Expire \/ RefreshTokenExpires
  BY <1>16 DEF Expire, RefreshTokenExpires, requests, refreshing
<1>17. CASE UNCHANGED vars
  BY <1>17 DEF vars, tokens, requests, refreshing
<1> QED
  BY <1>1, <1>2, <1>3, <1>4, <1>5, <1>6, <1>7, <1>8, <1>9, <1>10, <1>11, <1>12, <1>13, <1>14, <1>15, <1>16, <1>17
     DEF Next, Handle

LEMMA Invariance == Spec => []Inv
<1>1. Init => Inv
  BY InitInv
<1>2. Inv /\ [Next]_vars => Inv'
  BY NextFlags, NextData, NextRequest, NextRefresh, NextOne, NextQueue DEF Inv, TypeOK
<1> QED
  BY <1>1, <1>2, PTL DEF Spec

\* Whatever the tabs, requests and bounds, the variables keep their types: also a token
\* that is granted is given to a request.
THEOREM TypeCorrect == Spec => []TypeOK
BY Invariance, PTL DEF Inv

\* A tab refreshes for one request at a time, and those that wait are in its queue: the
\* interceptor looks at isRefreshing and sets it in one callback.
THEOREM RefreshCorrect == Spec => []OneRefresh
BY Invariance, PTL DEF Inv

\* A request that waits is sent again by a refresh under way, unless it came late or a
\* refresh was refused.
THEOREM QueueCorrect == Spec => []QueueIsServed
BY Invariance, PTL DEF Inv

-----------------------------------------------------------------------------
(* The promise *)

\* A step that leaves alone who has asked, what was done and what was told is none of
\* the promise's business.
LEMMA Stutters ==
    ASSUME runs' = runs, answer' = answer,
           \A r \in Requests : st'[r] = "new" <=> st[r] = "new"
    PROVE  UNCHANGED Api!vars
BY DEF Api!vars

LEMMA TellResolves ==
    ASSUME Inv, NEW r \in Requests, NEW a \in {"ok", "undefined"}, Tell(r, a),
           st[r] \notin {"new", "told"}, a = "ok" => runs[r] = 1, runs' = runs
    PROVE  Api!Next
<1>1. {x \in Requests : st'[x] # "new"} = {x \in Requests : st[x] # "new"}
  BY DEF Tell, Inv, TypeOK, DataOK
<1>2. Api!Resolve(r, a)
  BY <1>1 DEF Tell, Api!Resolve, Inv, TypeOK, DataOK, RequestInv
<1> QED
  BY <1>2 DEF Api!Next

LEMMA NextKeeps == Inv /\ [Next]_vars => [Api!Next]_(Api!vars)
<1> SUFFICES ASSUME Inv, [Next]_vars PROVE Api!Next \/ UNCHANGED Api!vars
  OBVIOUS
<1>0. DataOK /\ RequestInv /\ RefreshInv /\ OneRefresh
  BY DEF Inv, TypeOK
<1>1. ASSUME NEW r \in Requests, Send(r) PROVE Api!Next
  <2>1. {x \in Requests : st'[x] # "new"} = {x \in Requests : st[x] # "new"} \cup {r}
    BY <1>0, <1>1 DEF Send, Transmit, DataOK
  <2>2. Api!Ask(r)
    BY <1>1, <2>1 DEF Send, Api!Ask
  <2> QED
    BY <2>2 DEF Api!Next
<1>2. ASSUME NEW r \in Requests, Serve(r) PROVE Api!Next \/ UNCHANGED Api!vars
  <2>1. \A x \in Requests : st'[x] = "new" <=> st[x] = "new"
    BY <1>0, <1>2 DEF Serve, DataOK
  <2>2. {x \in Requests : st'[x] # "new"} = {x \in Requests : st[x] # "new"}
    BY <2>1
  <2>3. st[r] # "new" /\ runs[r] = 0 /\ answer' = answer
    BY <1>0, <1>2 DEF Serve, RequestInv
  <2>4. runs' = runs \/ runs' = [runs EXCEPT ![r] = 1]
    BY <1>0, <1>2, <2>3 DEF Serve, DataOK
  <2>5. CASE runs' = runs
    BY <2>1, <2>3, <2>5, Stutters
  <2>6. CASE runs' = [runs EXCEPT ![r] = 1]
    BY <2>2, <2>3, <2>6 DEF Api!Next, Api!Execute
  <2> QED
    BY <2>4, <2>5, <2>6
<1>3. ASSUME NEW r \in Requests, Lost(r) PROVE Api!Next
  BY <1>3, TellResolves DEF Lost, Reject
<1>4. ASSUME NEW r \in Requests, HandleOk(r) PROVE Api!Next
  <2>1. st[r] = "replied" /\ runs[r] = 1
    BY <1>0, <1>4 DEF HandleOk, Got, RequestInv
  <2> QED
    BY <1>4, <2>1, TellResolves DEF HandleOk
<1>5. ASSUME NEW r \in Requests, HandleError(r) PROVE Api!Next
  BY <1>5, TellResolves DEF HandleError, Got, Reject
<1>6. ASSUME NEW r \in Requests, HandleInvalid(r) PROVE Api!Next
  BY <1>6, TellResolves DEF HandleInvalid, Got
<1>7. ASSUME NEW r \in Requests, StartRefresh(r) PROVE UNCHANGED Api!vars
  <2>1. \A x \in Requests : st'[x] = "new" <=> st[x] = "new"
    BY <1>0, <1>7 DEF StartRefresh, Got, DataOK
  <2> QED
    BY <1>7, <2>1, Stutters DEF StartRefresh
<1>8. ASSUME NEW r \in Requests, Enqueue(r) PROVE UNCHANGED Api!vars
  <2>1. \A x \in Requests : st'[x] = "new" <=> st[x] = "new"
    BY <1>0, <1>8 DEF Enqueue, Got, DataOK
  <2> QED
    BY <1>8, <2>1, Stutters DEF Enqueue
<1>9. ASSUME NEW t \in Tabs, ServeRefresh(t) \/ LoseRefresh(t) \/ Logout(t) \/ Login(t)
      PROVE  UNCHANGED Api!vars
  BY <1>9, Stutters DEF ServeRefresh, LoseRefresh, Logout, Login, requests
<1>10. ASSUME NEW t \in Tabs, Granted(t) PROVE UNCHANGED Api!vars
  <2>1. \A x \in Requests : st'[x] = "new" <=> st[x] = "new"
    BY <1>0, <1>10 DEF Granted, Transmit, DataOK, RefreshInv, OneRefresh
  <2> QED
    BY <1>10, <2>1, Stutters DEF Granted
<1>11. ASSUME NEW t \in Tabs, Refused(t) PROVE Api!Next
  <2>1. refresher[t] \in Requests /\ st[refresher[t]] = "waiting"
    BY <1>0, <1>11 DEF Refused, RefreshInv
  <2> QED
    BY <1>11, <2>1, TellResolves DEF Refused
<1>12. ASSUME NEW t \in Tabs, Confirm(t) PROVE UNCHANGED Api!vars
  <2>1. \A x \in Requests : st'[x] = "new" <=> st[x] = "new"
    BY <1>0, <1>12 DEF Confirm, DataOK
  <2> QED
    BY <1>12, <2>1, Stutters DEF Confirm
<1>13. CASE Expire \/ RefreshTokenExpires \/ UNCHANGED vars
  BY <1>13, Stutters DEF Expire, RefreshTokenExpires, vars, requests
<1> QED
  BY <1>1, <1>2, <1>3, <1>4, <1>5, <1>6, <1>7, <1>8, <1>9, <1>10, <1>11, <1>12, <1>13 DEF Next, Handle

\* The interceptors, with tokens expiring and being refreshed at any time, requests lost
\* and users logging out, keep the promise of Calls: a request is carried out at most
\* once although it may be sent several times, and answered at most once and truly.
THEOREM PromiseKept == Spec => KeepsPromise
<1>1. Init => Api!Init
  BY DEF Init, Api!Init
<1>2. Inv /\ [Next]_vars => [Api!Next]_(Api!vars)
  BY NextKeeps
<1> QED
  BY <1>1, <1>2, Invariance, PTL DEF Spec, KeepsPromise, Api!Spec

=============================================================================
