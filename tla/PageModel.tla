------------------------------ MODULE PageModel ------------------------------
(***************************************************************************)
(* The vocabulary in which the pages of the web interface are written      *)
(* down.  A page is made of surfaces: the page itself and the dialogs and  *)
(* drawers it opens, each a React component with a state of its own.  A    *)
(* handler of a surface may set spinners, make one call of the API, and    *)
(* has effects when the answer comes.  api/request.ts turns a failed call  *)
(* into the answer undefined, so that `then` runs for it too: what a       *)
(* handler does after a failure is an effect like any other.               *)
(*                                                                         *)
(* Effects are sets, joined with \cup.                                     *)
(***************************************************************************)
EXTENDS Integers, TLC

\* The answer is put into the state that is rendered.
Show == {<<"show", "">>}
\* It is put into what other handlers read.
Fill(names) == {<<"fill", n>> : n \in names}
\* It fills a form, which is the user's from then on.
FillForm == {}
\* A spinner is switched on, or off.
Spin(flag) == {<<"spin", flag>>}
Clear(flag) == {<<"clear", flag>>}
\* Surfaces are opened and closed.
Open(surface) == {<<"open", surface>>}
Close(surfaces) == {<<"close", s>> : s \in surfaces}
\* Other handlers are called.
Run(names) == {<<"run", n>> : n \in names}
\* They are called without the parameters that are set.
RunPlain(names) == {<<"runPlain", n>> : n \in names}
\* They are called silently: without their spinners.
RunSilently(names) == {<<"runSilently", n>> : n \in names}
\* The parameters of handlers that search change; the handlers then search again.
Requery(names) == {<<"requery", n>> : n \in names}
Reload(names) == Requery(names) \cup Run(names)
\* Another page is pushed onto the history.
Leave == {<<"leave", "">>}
\* A handler is called again later: unless what it reads has ended or its timer is
\* set already (poll), in the same way unless the component is gone (pollOnce), or
\* whatever it reads (tick).  The timer set last is cleared.
Poll(name) == {<<"poll", name>>}
PollOnce(name) == {<<"pollOnce", name>>}
Tick(name) == {<<"tick", name>>}
Stop(names) == {<<"stop", n>> : n \in names}

\* What a function of the API does: it reads a collection, or it changes some.
Reads(collection) == [kind |-> "fetch", of |-> {collection}]
Changes(collections) == [kind |-> "write", of |-> collections]

Handler(on, kind, of, flags, ok, err) ==
    [on |-> on, kind |-> kind, of |-> of, flags |-> flags, ok |-> ok, err |-> err,
     latest |-> FALSE, unless |-> {}]

\* A handler that calls the API, one that searches with the parameters of its
\* surface, and one that makes no call.
Call(on, api, flags, ok, err) == Handler(on, api.kind, api.of, flags, ok, err)
Search(on, api, flags, ok, err) == Handler(on, "search", api.of, flags, ok, err)
Act(on, then) == Handler(on, "act", {}, {}, then, {})

\* setInterval: from when it is called until it is stopped, it calls the handlers
\* again and again.
Interval(on, names) == Handler(on, "interval", {}, {}, Run(names), {})

\* Only the answer to the last request made is used.
LatestOnly(handler) == [handler EXCEPT !.latest = TRUE]

\* The handler returns at once while the spinner is on.
Unless(flag, handler) == [handler EXCEPT !.unless = {flag}]

\* Handlers a surface offers in what it renders, unless one of the spinners is on.
Offer(on, names, unless) == {[on |-> on, do |-> n, unless |-> unless] : n \in names}

\* Surfaces drawn in the page: they leave the rest of it to the user.  The others are
\* dialogs and drawers, which lie over it.
PartsOfPage == {"page", "WorkflowRecord", "StepPanel", "PodDetail"}

\* mount: what each surface calls when it appears; stops: the handlers whose timer
\* it clears when it goes.
Page(handlers, mount, offers, stops) ==
    [handlers |-> handlers, mount |-> mount, offers |-> offers, stops |-> stops]

=============================================================================
