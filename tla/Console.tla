------------------------------- MODULE Console -------------------------------
(***************************************************************************)
(* The web interface at run time: one page with its dialogs, the user, and *)
(* the answers of the server.  What each page does is the constant Pages,  *)
(* described with the vocabulary of PageModel.                             *)
(*                                                                         *)
(* JavaScript runs one callback at a time; between two of them the user    *)
(* clicks, answers arrive, timers fire and components are unmounted.  The  *)
(* callback of a component that is gone still runs: what it sets is lost,  *)
(* what it calls is called.                                                *)
(***************************************************************************)
EXTENDS Integers, FiniteSets, PageModel

CONSTANTS
    Pages,       \* name of a page -> the page
    MaxClicks,   \* bound: what the user does on each page
    MaxFault,    \* bound: calls that fail
    MaxCalls,    \* bound: requests under way when a timer fires
    KnownStale,  \* the handlers, with their page, that the code leaves stale,
    KnownRaces,  \* those whose answers it uses in whatever order they come,
    KnownStuck,  \* the spinners it leaves on, and
    KnownTwice,  \* the requests it sends twice, and
    KnownLeak    \* the timers it does not clear: exceptions to the properties

VARIABLES
    page,        \* the page that was opened, with its code (which never changes)
    away,        \* the user has left it
    open,        \* the surfaces that are mounted
    query,       \* the parameters each searching handler would search with
    busy,        \* the spinners that are on, with their surface
    shown,       \* what each reading handler put on the screen
    server,      \* how often each collection was changed
    ended,       \* what the page watches has ended
    calls,       \* requests without an answer
    timers,      \* timers that are set
    clicks, faults

vars == <<page, away, open, query, busy, shown, server, ended, calls, timers, clicks, faults>>

Names == DOMAIN page.handlers
H(n) == page.handlers[n]
Surfaces == DOMAIN page.mount

Of(effects, kind) == {e[2] : e \in {x \in effects : x[1] = kind}}

\* What is told of a page from its handlers h and its offers alone: the handlers that
\* read, those timers call, those that read until what they watch has ended, and the writing handlers
\* whose button is blocked while a spinner is on (other than one of what is read for
\* the same surface, under which the button waits for that).
ReadersOf(h) == {n \in DOMAIN h : h[n].kind \in {"fetch", "search"}}
OfKind(h, kind) == {n \in DOMAIN h : h[n].kind = kind}
TimedOf(h) ==
    OfKind(h, "interval")
        \cup UNION {UNION {Of(h[n].ok \cup h[n].err, e) : e \in {"tick", "poll", "pollOnce"}} : n \in DOMAIN h}
WatchersOf(h) == {n \in ReadersOf(h) : Of(h[n].ok, "poll") \cup Of(h[n].ok, "pollOnce") # {}}

ReadSpinners(h, surface) == UNION {h[n].flags : n \in {m \in ReadersOf(h) : h[m].on = surface}}
GuardedOf(h, offers) ==
    {o.do : o \in {x \in offers : h[x.do].kind = "write" /\ x.unless \ ReadSpinners(h, x.on) # {}}}

\* A page that is opened: its name, what it is made of, and what is told from that.
Opened(p) ==
    LET h == Pages[p].handlers
    IN  [name |-> p, handlers |-> h, mount |-> Pages[p].mount, offers |-> Pages[p].offers,
         stops |-> Pages[p].stops, readers |-> ReadersOf(h), searchers |-> OfKind(h, "search"),
         intervals |-> OfKind(h, "interval"), collections |-> UNION {h[n].of : n \in DOMAIN h},
         watchers |-> WatchersOf(h), timed |-> TimedOf(h),
         guarded |-> GuardedOf(h, Pages[p].offers)]

Readers == page.readers
Searchers == page.searchers
Intervals == page.intervals
Collections == page.collections
Watchers == page.watchers
Guarded == page.guarded

\* The handlers a handler's effects name.
HandlersIn(effects) ==
    UNION {Of(effects, kind) : kind \in {"run", "runPlain", "runSilently", "poll", "pollOnce", "tick",
                                         "stop", "fill", "requery"}}

\* A page names handlers it has and opens surfaces it has; what a handler reads is
\* one collection; it is the page that numbers requests.
PageIsSound(pg) ==
    LET h == pg.handlers
    IN  /\ "page" \in DOMAIN pg.mount
        /\ pg.stops \subseteq DOMAIN h
        /\ \A s \in DOMAIN pg.mount : pg.mount[s] \subseteq DOMAIN h
        /\ \A o \in pg.offers : o.do \in DOMAIN h /\ o.on \in DOMAIN pg.mount
        /\ \A n \in DOMAIN h :
              /\ h[n].on \in DOMAIN pg.mount
              /\ HandlersIn(h[n].ok \cup h[n].err) \subseteq DOMAIN h
              /\ Of(h[n].ok \cup h[n].err, "open") \subseteq DOMAIN pg.mount
              /\ "page" \notin Of(h[n].ok \cup h[n].err, "close")
              /\ n \in ReadersOf(h) => \E r \in h[n].of : h[n].of = {r}
              /\ h[n].latest => h[n].on = "page"

\* The handler switches the spinner off whatever the answer is, and whether or not it
\* is the last one.
Clears(handler, f) == ~ handler.latest /\ f \in Of(handler.ok, "clear") \cap Of(handler.err, "clear")

\* A handler switches its spinners off, and where one is switched on without a call, a
\* handler that switches it off is called: else the spinner is a known one.
ClearsItsSpinners(p) ==
    LET h == Pages[p].handlers
        Covers(effects, on, f) ==
            \E m \in Of(effects, "run") :
                h[m].on = on /\ h[m].kind # "interval" /\ h[m].unless = {} /\ Clears(h[m], f)
    IN  \A n \in DOMAIN h :
          /\ \A f \in h[n].flags : Clears(h[n], f) \/ <<p, f>> \in KnownStuck
          /\ \A effects \in {h[n].ok, h[n].err} :
                \A f \in Of(effects, "spin") :
                    Covers(effects, h[n].on, f) \/ <<p, f>> \in KnownStuck

\* The handlers that effects call at once.
CalledIn(effects) == UNION {Of(effects, kind) : kind \in {"run", "runPlain", "runSilently"}}

\* Of the handlers h, those that make a call and switch the spinner f of the surface s on
\* or off, and those that make none and switch it off or call one of the former.
Senders(h, s, f) ==
    {m \in DOMAIN h : h[m].on = s /\ h[m].kind # "act"
                         /\ f \in h[m].flags \cup Of(h[m].ok \cup h[m].err, "clear")}
Retries(h, s, f) ==
    {m \in OfKind(h, "act") : \/ h[m].on = s /\ f \in Of(h[m].ok, "clear")
                              \/ CalledIn(h[m].ok) \cap Senders(h, s, f) # {}}

\* Neither a surface that appears nor a timer calls n.
OnlyClicked(pg, n) ==
    /\ \A s \in DOMAIN pg.mount : n \notin pg.mount[s]
    /\ n \notin TimedOf(pg.handlers)

\* The spinner f lets one request through at a time: who sends one is only offered while
\* the spinner is off, and switches it on.
\* A failed request may open the dialog r over the page, with the spinner still on, and
\* what is offered there closes it.
LetsOneThrough(pg, s, f, r) ==
    LET h == pg.handlers
        senders == Senders(h, s, f)
        retries == Retries(h, s, f)
    IN  /\ \A m \in senders :
              /\ f \in h[m].flags
              /\ h[m].kind # "interval"
              /\ OnlyClicked(pg, m)
              /\ \A o \in pg.offers : o.do = m => o.on = s /\ f \in o.unless
        /\ \A k \in DOMAIN h :
              /\ k \notin retries => CalledIn(h[k].ok \cup h[k].err) \cap senders = {}
              /\ CalledIn(h[k].ok \cup h[k].err) \cap retries = {}
        /\ \A k \in retries :
              /\ OnlyClicked(pg, k)
              /\ \A o \in pg.offers : o.do = k => o.on = r
              /\ r \in Of(h[k].ok, "close")
              /\ Of(h[k].ok, "runSilently") \cap senders = {}
              /\ \A m, n \in CalledIn(h[k].ok) \cap senders : m = n
        /\ retries # {} =>
              /\ s = "page" /\ r # "page"
              /\ \A k \in DOMAIN h : \A effects \in {h[k].ok, h[k].err} :
                    r \in Of(effects, "open") => k \in senders /\ f \notin Of(effects, "clear")

\* A button that is blocked while its request is under way is blocked by its own spinner:
\* else the request is a known one.
BlocksItsButtons(p) ==
    LET h == Pages[p].handlers
    IN  \A n \in GuardedOf(h, Pages[p].offers) :
          \/ <<p, n>> \in KnownTwice
          \/ \E f \in h[n].flags : \E r \in DOMAIN Pages[p].mount :
                LetsOneThrough(Pages[p], h[n].on, f, r)

\* A timer is an interval that the page starts when it appears, or is set by those who see
\* that it is not set already: else the timer is a known one.
SetsOneTimer(p) ==
    LET h == Pages[p].handlers
        Among(kinds, n) == \E k \in DOMAIN h : \E kind \in kinds : n \in Of(h[k].ok \cup h[k].err, kind)
    IN  \A n \in TimedOf(h) :
          \/ <<p, n>> \in KnownLeak
          \/ /\ ~ Among({"tick", "poll"}, n)
             /\ h[n].kind = "interval" =>
                   /\ h[n].on = "page"
                   /\ ~ Among({"run", "runPlain", "runSilently", "pollOnce"}, n)
                   /\ \A s \in DOMAIN Pages[p].mount : n \in Pages[p].mount[s] => s = "page"
                   /\ \A o \in Pages[p].offers : o.do # n

\* The handler n puts what it reads on the screen; another handler does.
Shows(h, n) == Of(h[n].ok, "show") # {}
Filled(h, n) == \E k \in DOMAIN h : n \in Of(h[k].ok \cup h[k].err, "fill")

\* Effects that take n off the screen, or that call one of the handlers R in any case, or n
\* unless it waits for a spinner, and with the parameters that are set.
Renews(h, n, R, effects) ==
    \/ Of(effects, "leave") # {}
    \/ h[n].on \in Of(effects, "close")
    \/ \E m \in R : /\ h[m].unless = {} \/ m = n
                    /\ h[m].kind # "interval"
                    /\ \/ m \in Of(effects, "run") \cup Of(effects, "runSilently")
                       \/ m \in Of(effects, "runPlain") /\ h[m].kind # "search"

\* The handlers whose answer shows n anew, or renews it by way of R; and those that come
\* to that in at most four calls.
Renewing(h, n, R) == {m \in DOMAIN h : (m = n /\ Shows(h, n)) \/ Renews(h, n, R, h[m].ok)}
Renewers(h, n) ==
    LET steps[i \in 0..4] == IF i = 0 THEN {} ELSE Renewing(h, n, steps[i - 1])
    IN  steps[4]

\* Of the handlers R, those that k reaches even when its component is gone and n is shown
\* by the next one of the kind: what is gone only calls its own.
Reached(h, n, k, R) == IF h[k].on = h[n].on /\ h[n].on # "page" THEN {m \in R : h[m].on # h[n].on} ELSE R

\* Who changes what n shows, or the parameters it is asked with, or switches the spinner
\* off that n waits for, renews n.
Rereads(h, n, R) ==
    /\ \A k \in DOMAIN h :
          h[k].on = h[n].on /\ Of(h[k].ok, "clear") \cap h[n].unless # {} => Renews(h, n, R, h[k].ok)
    /\ \A k \in OfKind(h, "write") :
          h[k].of \cap h[n].of # {} => ~ h[k].latest /\ Renews(h, n, Reached(h, n, k, R), h[k].ok)
    /\ n \in OfKind(h, "search") =>
          \A k \in DOMAIN h :
             /\ n \notin Of(h[k].ok \cup h[k].err, "runPlain")
             /\ n \in Of(h[k].ok, "requery") => Renews(h, n, R, h[k].ok)

\* n has itself called again by a timer, and who stops the timer renews n.
Repeats(h, n, R) ==
    /\ h[n].unless = {}
    /\ \E kind \in {"tick", "poll", "pollOnce"} : n \in Of(h[n].ok, kind)
    /\ \A k \in DOMAIN h : n \in Of(h[k].ok, "stop") => Renews(h, n, Reached(h, n, k, R), h[k].ok)

\* Only the surface of n calls it, when it appears.
OnlyMounted(pg, n) ==
    LET h == pg.handlers
    IN  /\ \A s \in DOMAIN pg.mount : n \in pg.mount[s] => s = h[n].on
        /\ \A k \in DOMAIN h : n \notin CalledIn(h[k].ok \cup h[k].err)
        /\ n \notin TimedOf(h)
        /\ \A o \in pg.offers : o.do # n

\* n is always answered the same: nobody changes what it reads, or its parameters.
Unchanging(h, n) ==
    /\ \A k \in OfKind(h, "write") : h[k].of \cap h[n].of = {}
    /\ \A k \in DOMAIN h : n \notin Of(h[k].ok \cup h[k].err, "requery")

\* It does not matter in which order answers to n come, or the handler is a known one.
InAnyOrder(p, n) ==
    LET h == Pages[p].handlers
    IN  \/ h[n].latest
        \/ OnlyMounted(Pages[p], n)
        \/ Unchanging(h, n)
        \/ <<p, n>> \in KnownRaces

\* What a handler shows is read again when it changes, or is read again and again: else the
\* handler is a known one.
KeepsFresh(p) ==
    LET h == Pages[p].handlers
    IN  \A n \in ReadersOf(h) :
          \/ <<p, n>> \in KnownStale
          \/ /\ ~ Filled(h, n)
             /\ Shows(h, n) =>
                   \E R \in {Renewers(h, n)} :
                      /\ R \subseteq Renewing(h, n, R)
                      /\ \/ Rereads(h, n, R) /\ InAnyOrder(p, n)
                         \/ Repeats(h, n, R)

ASSUME PagesAssumption == \A p \in DOMAIN Pages : PageIsSound(Pages[p])
ASSUME SpinnerAssumption == \A p \in DOMAIN Pages : ClearsItsSpinners(p)
ASSUME SubmitAssumption == \A p \in DOMAIN Pages : BlocksItsButtons(p)
ASSUME TimerAssumption == \A p \in DOMAIN Pages : SetsOneTimer(p)
ASSUME FreshAssumption == \A p \in DOMAIN Pages : KeepsFresh(p)
ASSUME BoundAssumption ==
    /\ MaxClicks \in [DOMAIN Pages -> Nat]
    /\ MaxFault \in Nat
    /\ MaxCalls \in Nat

\* A reading handler has not shown anything yet.
Nothing == [q |-> 0, v |-> 0 - 1, ended |-> FALSE, late |-> FALSE]

\* What the server would answer the handler n.
Version(n, contents) == contents[CHOOSE r \in H(n).of : TRUE]

-----------------------------------------------------------------------------
(* Handlers that are called *)

\* A component is there, its page is there, or neither.
Life(s, up) == IF s \in up THEN "surface" ELSE IF away THEN "none" ELSE "page"

\* The parameters q of a handler; one that does not search, or is called plainly,
\* has none.
ParameterOf(n, q) == IF n \in DOMAIN q THEN q[n] ELSE 0

\* The requests the handlers ns send, in a state in which the surfaces up are mounted and
\* search with q, and the server has the contents.  since is the version a request would
\* read now, over whether it would find the end of what the page watches; late says that
\* a later one has been answered; k counts the requests a handler has open.
Sent(ns, up, q, pending, contents) ==
    {[do |-> n, q |-> ParameterOf(n, q), life |-> Life(H(n).on, up),
      since |-> IF n \in Readers THEN Version(n, contents) ELSE 0,
      over |-> n \in Watchers /\ ended, late |-> FALSE,
      k |-> 1 + Cardinality({c \in pending : c.do = n})] : n \in ns}

\* The versions that the answer of c may bring: the server reads at some moment between
\* the request and the answer.
Carried(c) == IF c.do \in Readers THEN c.since..Version(c.do, server') ELSE {0}

\* Whether the answer of c finds the end, likewise.
Found(c) == IF c.do \in Watchers THEN {c.over, ended} ELSE {ended}

\* The callback of a click on n, or of its timer: no request has gone before.
Now(n, life) == [do |-> n, q |-> 0, since |-> 0, over |-> ended, late |-> FALSE, life |-> life]

\* The timers that are set for the handlers ns.
Set(ns, up, set) ==
    {[do |-> n, life |-> Life(H(n).on, up), k |-> 1 + Cardinality({t \in set : t.do = n})] :
       n \in ns}

\* A variant of Spinning: the state is not set before the call.
SpinningNot(ns, up) == {}

Spinning(ns, up) ==
    UNION {{<<H(n).on, f>> : f \in H(n).flags} : n \in {m \in ns : H(m).on \in up}}

\* A variant of Outlives: the callback is not told.
OutlivesUnchanged(c, up) == c

\* The life of a callback once only the surfaces up are left.
Outlives(c, up) ==
    IF c.life = "surface" /\ H(c.do).on \notin up THEN [c EXCEPT !.life = "page"] ELSE c

\* What is left of the timers set when those of the handlers ns are cleared: a
\* handler knows the timer it set last.
Cleared(set, ns) == {t \in set : t.do \notin ns \/ \E u \in set : u.do = t.do /\ u.k > t.k}

\* A handler's effects, with the answer of the call c removed from pending:
\* surfaces open and close, parameters change, other handlers run.  Of the surfaces up
\* that are mounted then, c reaches those within: one that was mounted again since c was
\* sent has a state of its own.
Effects(effects, c, pending, ticking) ==
    LET there == c.life # "none"
        closed == IF there THEN Of(effects, "close") ELSE {}
        opened == IF there THEN Of(effects, "open") \ open ELSE {}
        up == (open \ closed) \cup opened
        leaves == there /\ Of(effects, "leave") # {}
        plain == Of(effects, "runPlain")
        mine == c.life = "surface"
        within == IF mine \/ H(c.do).on = "page" THEN up ELSE (up \ {H(c.do).on}) \cup opened
        cleared == {<<H(c.do).on, f>> : f \in IF mine THEN Of(effects, "clear") ELSE {}}
        silent == Of(effects, "runSilently")
        called == Of(effects, "run") \cup silent \cup plain \cup UNION {page.mount[s] : s \in opened}
        starts == called \cap Intervals
        runs == {n \in called \ Intervals :
                   \A f \in H(n).unless : <<H(n).on, f>> \notin busy \ cleared}
        changed == {n \in Of(effects, "requery") \cap Searchers : there /\ H(n).on \in within}
        spun == {<<H(c.do).on, f>> : f \in IF mine THEN Of(effects, "spin") ELSE {}}
        gone == {n \in page.stops : leaves \/ H(n).on \in open \ up}
        set == Cleared(ticking, Of(effects, "stop") \cup gone)
        polls == Of(effects, "poll") \cup IF mine THEN Of(effects, "pollOnce") ELSE {}
        again(over) == Of(effects, "tick") \cup starts
                           \cup IF over THEN {} ELSE {n \in polls : \A t \in set : t.do # n \/ t.life # c.life}
        left == IF leaves THEN {} ELSE up
        kept == left \cap open
        fresh == [n \in Searchers |-> IF H(n).on \in kept THEN query[n] ELSE 0]
    IN  \E new \in [changed -> 0..1], carried \in Carried(c), over \in Found(c) :
          LET q == [n \in Searchers |->
                      IF n \in changed /\ H(n).on \in left THEN new[n] ELSE fresh[n]]
          IN  /\ away' = (away \/ leaves)
              /\ open' = left
              /\ query' = q
              /\ calls' = {IF leaves THEN [d EXCEPT !.life = "none"] ELSE Outlives(d, up) :
                             d \in pending \cup Sent(runs, within, [n \in Searchers \ plain |-> q[n]], pending, server')}
              /\ timers' = {IF leaves THEN [t EXCEPT !.life = "none"] ELSE Outlives(t, up) :
                              t \in set \cup Set(again(over), within, set)}
              /\ busy' = {b \in (busy \ cleared) \cup Spinning(runs \ silent, within) \cup spun : b[1] \in left}
              /\ shown' = [n \in Readers |->
                             IF H(n).on \notin kept THEN Nothing
                             ELSE IF \/ n = c.do /\ mine /\ Of(effects, "show") # {}
                                     \/ n \in Of(effects, "fill") /\ H(n).on \in within
                               THEN [q |-> IF n = c.do THEN c.q ELSE ParameterOf(n, q),
                                     v |-> IF c.do \in Readers THEN carried ELSE Version(n, server'),
                                     ended |-> over, late |-> c.late]
                             ELSE shown[n]]

-----------------------------------------------------------------------------

Init ==
    /\ page \in {Opened(p) : p \in DOMAIN Pages}
    /\ away = FALSE
    /\ open = {"page"}
    /\ query = [n \in Searchers |-> 0]
    /\ busy = Spinning(page.mount["page"] \ Intervals, {"page"})
    /\ shown = [n \in Readers |-> Nothing]
    /\ server = [r \in Collections |-> 0]
    /\ ended = FALSE
    /\ calls = Sent(page.mount["page"] \ Intervals, {"page"}, query, {}, server)
    /\ timers = Set(page.mount["page"] \cap Intervals, {"page"}, {})
    /\ clicks = 0
    /\ faults = 0

\* The surfaces the user can use: what dialogs lie over is out of reach.
Top == IF open \subseteq PartsOfPage THEN open ELSE open \ PartsOfPage

\* The user clicks something a surface offers.
Click(o) ==
    /\ clicks < MaxClicks[page.name]
    /\ o.on \in Top
    /\ \A f \in o.unless : <<o.on, f>> \notin busy
    /\ clicks' = clicks + 1
    /\ UNCHANGED <<page, server, ended, faults>>
    /\ Effects(IF H(o.do).kind = "act" THEN H(o.do).ok ELSE Run({o.do}),
               Now(o.do, "surface"), calls, timers)

\* A variant of GoAway: the page clears no timer when it goes.
GoAwayKeepsTimers ==
    /\ clicks < MaxClicks[page.name]
    /\ ~ away
    /\ clicks' = clicks + 1
    /\ away' = TRUE
    /\ open' = {}
    /\ busy' = {}
    /\ calls' = {[c EXCEPT !.life = "none"] : c \in calls}
    /\ timers' = {[t EXCEPT !.life = "none"] : t \in timers}
    /\ query' = [n \in Searchers |-> 0]
    /\ shown' = [n \in Readers |-> Nothing]
    /\ UNCHANGED <<page, server, ended, faults>>

\* The user goes to another page.
GoAway ==
    /\ clicks < MaxClicks[page.name]
    /\ ~ away
    /\ clicks' = clicks + 1
    /\ away' = TRUE
    /\ open' = {}
    /\ busy' = {}
    /\ calls' = {[c EXCEPT !.life = "none"] : c \in calls}
    /\ timers' = {[t EXCEPT !.life = "none"] : t \in Cleared(timers, page.stops)}
    /\ query' = [n \in Searchers |-> 0]
    /\ shown' = [n \in Readers |-> Nothing]
    /\ UNCHANGED <<page, server, ended, faults>>

\* A variant of Overtaken: what was asked before may still be answered.
NeverOvertaken(d, c) == FALSE

\* The answer to d is dropped when it comes: LatestOnly has used that to the later c.
Overtaken(d, c) == H(c.do).latest /\ d.do = c.do /\ d.k < c.k

\* How many places the later ones move up when c is gone, with what it overtakes.
Places(c) == IF H(c.do).latest THEN c.k ELSE 1
Renumbered(d, c) == IF d.do = c.do /\ d.k > c.k THEN [d EXCEPT !.k = d.k - Places(c)] ELSE d

\* Once the component that asked has the answer to c, what it asked before is late.
Lagging(d, c) ==
    IF c.life = "surface" /\ d.do = c.do /\ d.k < c.k THEN [d EXCEPT !.late = TRUE] ELSE d

\* What remains of S when c is gone, and when c was answered.
Remaining(S, c) == {d \in S \ {c} : ~ Overtaken(d, c)}
Without(S, c) == {Renumbered(d, c) : d \in Remaining(S, c)}
Answered(S, c) == {Renumbered(Lagging(d, c), c) : d \in Remaining(S, c)}

\* An answer that is not the last of its handler's is dropped by LatestOnly.
Dropped(c) == H(c.do).latest /\ \E d \in calls : d.do = c.do /\ d.k > c.k

\* The server does what it was asked and answers, in whatever order it comes to it.
Answer(c) ==
    /\ server' = [r \in Collections |->
                    IF H(c.do).kind = "write" /\ r \in H(c.do).of THEN server[r] + 1 ELSE server[r]]
    /\ UNCHANGED <<page, ended, clicks, faults>>
    /\ Effects(IF Dropped(c) THEN {} ELSE H(c.do).ok, c, Answered(calls, c), timers)

\* A variant of Fail: the promise is rejected, and no `then` runs.
FailRejects(c) ==
    /\ H(c.do).kind # "act"
    /\ faults < MaxFault
    /\ faults' = faults + 1
    /\ UNCHANGED <<page, server, ended, clicks>>
    /\ Effects({}, c, Without(calls, c), timers)

\* The call fails: nothing was done.
Fail(c) ==
    /\ H(c.do).kind # "act"
    /\ faults < MaxFault
    /\ faults' = faults + 1
    /\ UNCHANGED <<page, server, ended, clicks>>
    /\ Effects(IF Dropped(c) THEN {} ELSE H(c.do).err, c, Without(calls, c), timers)

\* A variant of Fire: the timer is set again although it was not gone.
FireTwice(t) ==
    /\ Cardinality(calls) < MaxCalls
    /\ UNCHANGED <<page, server, ended, clicks, faults>>
    /\ Effects(IF t.do \in Intervals THEN H(t.do).ok \cup Tick(t.do) ELSE Run({t.do}),
               Now(t.do, t.life), calls, timers)

\* A variant of Fire: a timer that fires under a dialog is forgotten.
FireUnderDialog(t) ==
    /\ Cardinality(calls) < MaxCalls
    /\ UNCHANGED <<page, server, ended, clicks, faults>>
    /\ Effects(IF t.do \in Intervals THEN H(t.do).ok \cup Tick(t.do)
               ELSE IF open = {"page"} THEN Run({t.do}) ELSE {},
               Now(t.do, t.life), calls, Without(timers, t))

\* A timer calls its handler; an interval goes on.
Fire(t) ==
    /\ Cardinality(calls) < MaxCalls
    /\ UNCHANGED <<page, server, ended, clicks, faults>>
    /\ Effects(IF t.do \in Intervals THEN H(t.do).ok \cup Tick(t.do) ELSE Run({t.do}),
               Now(t.do, t.life), calls, Without(timers, t))

\* What the page watches, if it watches something, comes to its end in the cluster.
End ==
    /\ Watchers # {}
    /\ ~ ended
    /\ ended' = TRUE
    /\ UNCHANGED <<page, away, open, query, busy, shown, server, calls, timers, clicks, faults>>

Next ==
    \/ \E o \in page.offers : Click(o)
    \/ GoAway
    \/ \E c \in calls : Answer(c) \/ Fail(c)
    \/ \E t \in timers : Fire(t)
    \/ End

Spec == Init /\ [][Next]_vars

\* The handlers, of all pages, that timers call.
Timed == UNION {TimedOf(Pages[p].handlers) : p \in DOMAIN Pages}

\* The server answers every request, the oldest of a handler's too, and timers fire.
Fairness ==
    /\ \A n \in Timed : WF_vars(\E c \in calls : c.do = n /\ c.k = 1 /\ Answer(c))
    /\ \A n \in Timed : WF_vars(\E t \in timers : t.do = n /\ Fire(t))
    /\ WF_vars(\E c \in calls : c.do \notin Timed /\ Answer(c))

FairSpec == Spec /\ Fairness

-----------------------------------------------------------------------------
(* Properties *)

\* The state has its type, and spinners and callbacks belong to surfaces that are
\* mounted: nothing is rendered for one that is gone, whatever closed it.
TypeOK ==
    /\ page.name \in DOMAIN Pages
    /\ away \in BOOLEAN
    /\ open \subseteq Surfaces
    /\ "page" \in open <=> ~ away
    /\ query \in [Searchers -> 0..1]
    /\ \A b \in busy : b[1] \in open
    /\ DOMAIN shown = Readers
    /\ \A n \in Readers : shown[n] # Nothing => H(n).on \in open
    /\ server \in [Collections -> Nat]
    /\ ended \in BOOLEAN
    /\ \A c \in calls \cup timers :
          /\ c.do \in Names
          /\ c.life = "surface" => H(c.do).on \in open
          /\ c.life = "none" => away
    /\ clicks \in 0..MaxClicks[page.name]
    /\ faults \in 0..MaxFault

Quiet == calls = {}

\* n waits for a spinner to be switched off.
Waits(n) == \E f \in H(n).unless : <<H(n).on, f>> \in busy

\* What n read is on the screen, and neither has it ended nor will it be read again, by a
\* timer of its surface or after a spinner.
Displayed(n) ==
    /\ H(n).on \in Top
    /\ ~ Waits(n)
    /\ shown[n] # Nothing
    /\ ~ shown[n].ended \/ n \notin Watchers
    /\ \A t \in timers : t.do # n \/ t.life # "surface"

\* What is on the screen when nothing is under way and no call has failed is
\* what the server has, for the parameters that are set: whoever changes a
\* collection or a parameter also reads again what shows it, or a timer does.  Only
\* where the code uses answers in whatever order they come may an older one have come
\* after a newer one, and be on the screen instead.
FreshWhenQuiet ==
    Quiet /\ ~ away /\ faults = 0
        => \A n \in Readers :
              Displayed(n) /\ <<page.name, n>> \notin KnownStale
                  => \/ /\ shown[n].v = Version(n, server)
                        /\ n \in Searchers => shown[n].q = query[n]
                     \/ shown[n].late /\ <<page.name, n>> \in KnownRaces

\* No spinner is left on, and no button blocked by one, once every call has been
\* answered, well or badly.
SpinnersEnd == Quiet => \A b \in busy : <<page.name, b[2]>> \in KnownStuck

\* A button that is blocked while its request is under way sends one at a time.
OneSubmit ==
    \A n \in Guarded :
        <<page.name, n>> \notin KnownTwice
            => Cardinality({c \in calls : c.do = n /\ c.life = "surface"}) <= 1

\* A page that polls has one timer or request of a kind at a time.
OnePoll ==
    \A t \in timers, u \in timers :
        t.do = u.do /\ t.life = "surface" /\ u.life = "surface" /\ <<page.name, t.do>> \notin KnownLeak
            => t = u

\* A component is gone and its timer, or a request of it, is still there.
Restless ==
    \E c \in calls \cup timers :
        c.do \in page.timed /\ H(c.do).on \notin open /\ <<page.name, c.do>> \notin KnownLeak

\* What polls for a component stops when the component is gone.
PollingEnds == Restless ~> ~ Restless

\* What the page watches has ended, and the page shows it as it was before.
Outdated == ended /\ \E n \in Watchers : H(n).on \in open /\ ~ shown[n].ended

\* What a page watches is read again until its end is on the screen, whatever the
\* user does there, unless a call fails.
ShowsTheEnd == (Outdated /\ faults = 0) ~> (~ Outdated \/ faults > 0)

=============================================================================
