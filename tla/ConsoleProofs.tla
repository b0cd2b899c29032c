---------------------------- MODULE ConsoleProofs ----------------------------
(***************************************************************************)
(* Proofs about Console, for any pages and bounds, however often the user  *)
(* clicks, whatever fails, and whichever surfaces are closed and opened    *)
(* meanwhile: the state keeps its type; a page whose handlers switch their *)
(* spinners off whatever the answer is leaves none on; a button that its   *)
(* own spinner blocks sends one request at a time; a page that looks       *)
(* before it sets a timer has one of a kind; and a page that reads again   *)
(* what it changes shows what the server has once nothing is under way, in *)
(* whatever order the answers came, unless an older one came last and the  *)
(* page is known to let it in.                                             *)
(***************************************************************************)
EXTENDS Console, FiniteSetTheorems, TLAPS

\* A request is a record, of a handler of the page.
CallShape(d) ==
    \E n \in Names : \E q, l, w, ov, lt, k :
        d = [do |-> n, q |-> q, life |-> l, since |-> w, over |-> ov, late |-> lt, k |-> k]

\* Requests and timers are records, of handlers of the page.
CallsOK ==
    \A c \in calls : \E n \in Names : \E q, l, w, ov, lt, k : c = [do |-> n, q |-> q, life |-> l, since |-> w, over |-> ov, late |-> lt, k |-> k]
TimersOK ==
    \A t \in timers : \E n \in Names : \E l, k : t = [do |-> n, life |-> l, k |-> k]

\* The request c will switch the spinner f of the surface s off.
WillClear(c, s, f) == c.life = "surface" /\ H(c.do).on = s /\ Clears(H(c.do), f)

\* A spinner that is on is a known one, or a request under way will switch it off.
SpinInv ==
    \A b \in busy :
        \E s, f :
            /\ b = <<s, f>>
            /\ <<page.name, f>> \in KnownStuck \/ \E c \in calls : WillClear(c, s, f)

\* The code of the page is one of the pages'.
IsOpened == \E p \in DOMAIN Pages : page = Opened(p)

Inv == IsOpened /\ CallsOK /\ TimersOK /\ SpinInv

\* Effects the page may have: they name its handlers and surfaces, and where one
\* switches a spinner of the surface `on` on, a handler is called that will switch it off.
EffectsOK(effects, on) ==
    /\ HandlersIn(effects) \subseteq Names
    /\ Of(effects, "open") \subseteq Surfaces
    /\ \A f \in Of(effects, "spin") :
          \/ <<page.name, f>> \in KnownStuck
          \/ \E m \in Of(effects, "run") :
                H(m).on = on /\ H(m).kind # "interval" /\ H(m).unless = {} /\ Clears(H(m), f)

-----------------------------------------------------------------------------
(* What the assumptions say of the page that is open *)

LEMMA SoundPage ==
    ASSUME IsOpened
    PROVE  /\ \A s \in Surfaces : page.mount[s] \subseteq Names
           /\ "page" \in Surfaces
           /\ \A o \in page.offers : o.do \in Names
           /\ Intervals = {n \in Names : H(n).kind = "interval"}
           /\ \A n \in Names : EffectsOK(H(n).ok, H(n).on) /\ EffectsOK(H(n).err, H(n).on)
           /\ \A n \in Names : \A f \in H(n).flags : Clears(H(n), f) \/ <<page.name, f>> \in KnownStuck
<1>0. PICK p \in DOMAIN Pages : page = Opened(p)
  BY DEF IsOpened
<1>0a. /\ page.name = p
       /\ page.handlers = Pages[p].handlers
       /\ page.mount = Pages[p].mount
       /\ page.offers = Pages[p].offers
       /\ page.stops = Pages[p].stops
       /\ page.intervals = OfKind(Pages[p].handlers, "interval")
  BY <1>0 DEF Opened
<1>1. PageIsSound(Pages[p])
  BY PagesAssumption
<1>2. ClearsItsSpinners(p)
  BY SpinnerAssumption
<1>2a. /\ Names = DOMAIN Pages[p].handlers
       /\ Surfaces = DOMAIN Pages[p].mount
       /\ \A n : H(n) = Pages[p].handlers[n]
       /\ \A f : <<page.name, f>> = <<p, f>>
  BY <1>0a DEF Names, Surfaces, H
<1>3. Intervals = {n \in Names : H(n).kind = "interval"}
  BY <1>0a DEF Intervals, OfKind, Names, H
<1>4. ASSUME NEW n \in Names PROVE EffectsOK(H(n).ok, H(n).on) /\ EffectsOK(H(n).err, H(n).on)
  <2>1. /\ HandlersIn(H(n).ok) \subseteq Names /\ HandlersIn(H(n).err) \subseteq Names
        /\ Of(H(n).ok, "open") \subseteq Surfaces /\ Of(H(n).err, "open") \subseteq Surfaces
    BY <1>1, <1>2a DEF PageIsSound, HandlersIn, Of
  <2>2. \A effects \in {H(n).ok, H(n).err} :
          \A f \in Of(effects, "spin") :
              \/ <<page.name, f>> \in KnownStuck
              \/ \E m \in Of(effects, "run") :
                    H(m).on = H(n).on /\ H(m).kind # "interval" /\ H(m).unless = {} /\ Clears(H(m), f)
    BY <1>2, <1>2a, Zenon DEF ClearsItsSpinners
  <2> QED
    BY <2>1, <2>2 DEF EffectsOK
<1>5. \A n \in Names : \A f \in H(n).flags : Clears(H(n), f) \/ <<page.name, f>> \in KnownStuck
  BY <1>2, <1>2a, Zenon DEF ClearsItsSpinners
<1>6. /\ \A s \in Surfaces : page.mount[s] \subseteq Names
      /\ "page" \in Surfaces
      /\ \A o \in page.offers : o.do \in Names
  BY <1>0a, <1>1, <1>2a DEF PageIsSound
<1> QED
  BY <1>3, <1>4, <1>5, <1>6

-----------------------------------------------------------------------------
(* A callback *)

\* The answer of c is removed from pending, and its effects happen: if each spinner was
\* accounted for by another request, or is switched off now, it is accounted for again.
LEMMA EffectsKeep ==
    ASSUME IsOpened, UNCHANGED page,
           NEW effects, NEW c, NEW pending, NEW ticking,
           EffectsOK(effects, H(c.do).on),
           \A d \in pending : \E n \in Names : \E q, l, w, ov, lt, k : d = [do |-> n, q |-> q, life |-> l, since |-> w, over |-> ov, late |-> lt, k |-> k],
           \A t \in ticking : \E n \in Names : \E l, k : t = [do |-> n, life |-> l, k |-> k],
           \A b \in busy :
              \E s, f :
                  /\ b = <<s, f>>
                  /\ \/ <<page.name, f>> \in KnownStuck
                     \/ \E d \in pending : WillClear(d, s, f)
                     \/ c.life = "surface" /\ s = H(c.do).on /\ f \in Of(effects, "clear"),
           Effects(effects, c, pending, ticking)
    PROVE  Inv'
<1> DEFINE there == c.life # "none"
           closed == IF there THEN Of(effects, "close") ELSE {}
           opened == IF there THEN Of(effects, "open") \ open ELSE {}
           up == (open \ closed) \cup opened
           leaves == there /\ Of(effects, "leave") # {}
           plain == Of(effects, "runPlain")
           mine == c.life = "surface"
           within == IF mine \/ H(c.do).on = "page" THEN up ELSE (up \ {H(c.do).on}) \cup opened
           cleared == {<<H(c.do).on, f>> : f \in IF mine THEN Of(effects, "clear") ELSE {}}
           silent == Of(effects, "runSilently")
           called == Of(effects, "run") \cup silent \cup plain \cup UNION {page.mount[s] : s \in opened}
           starts == called \cap Intervals
           runs == {n \in called \ Intervals :
                      \A f \in H(n).unless : <<H(n).on, f>> \notin busy \ cleared}
           spun == {<<H(c.do).on, f>> : f \in IF mine THEN Of(effects, "spin") ELSE {}}
           gone == {n \in page.stops : leaves \/ H(n).on \in open \ up}
           set == Cleared(ticking, Of(effects, "stop") \cup gone)
           polls == Of(effects, "poll") \cup IF mine THEN Of(effects, "pollOnce") ELSE {}
           again(over) == Of(effects, "tick") \cup starts
                              \cup IF over THEN {} ELSE {n \in polls : \A t \in set : t.do # n \/ t.life # c.life}
           left == IF leaves THEN {} ELSE up
<1>1. PICK qs :
        calls' = {IF leaves THEN [d EXCEPT !.life = "none"] ELSE Outlives(d, up) :
                    d \in pending \cup Sent(runs, within, qs, pending, server')}
  BY Zenon DEF Effects
<1>2. PICK over :
        timers' = {IF leaves THEN [t EXCEPT !.life = "none"] ELSE Outlives(t, up) :
                   t \in set \cup Set(again(over), within, set)}
  BY Zenon DEF Effects
<1>3. busy' = {b \in (busy \ cleared) \cup Spinning(runs \ silent, within) \cup spun : b[1] \in left}
  BY Zenon DEF Effects
<1>4. UNCHANGED <<page, Names>> /\ \A n : UNCHANGED H(n)
  BY DEF Names, H
<1>5. called \subseteq Names
  <2>1. UNION {page.mount[s] : s \in opened} \subseteq Names
    BY SoundPage DEF EffectsOK
  <2>2. Of(effects, "run") \cup silent \cup plain \subseteq Names
    BY DEF EffectsOK, HandlersIn
  <2> QED
    BY <2>1, <2>2
<1>6. again(over) \subseteq Names
  <2>1. Of(effects, "tick") \cup polls \subseteq Names
    BY DEF EffectsOK, HandlersIn
  <2> QED
    BY <1>5, <2>1
<1>7. \A d \in Sent(runs, within, qs, pending, server') :
        \E n \in Names : \E q, l, w, ov, lt, k : d = [do |-> n, q |-> q, life |-> l, since |-> w, over |-> ov, late |-> lt, k |-> k]
  <2>1. runs \subseteq Names
    BY <1>5
  <2> HIDE DEF runs, within
  <2> TAKE d \in Sent(runs, within, qs, pending, server')
  <2>2. PICK n \in runs :
          d = [do |-> n, q |-> ParameterOf(n, qs), life |-> Life(H(n).on, within),
               since |-> IF n \in Readers THEN Version(n, server') ELSE 0,
               over |-> n \in Watchers /\ ended, late |-> FALSE,
               k |-> 1 + Cardinality({x \in pending : x.do = n})]
    BY Zenon DEF Sent
  <2> QED
    BY <2>1, <2>2, Zenon
<1>8. \A t \in set \cup Set(again(over), within, set) :
        \E n \in Names : \E l, k : t = [do |-> n, life |-> l, k |-> k]
  <2>1. set \subseteq ticking
    BY DEF Cleared
  <2> HIDE DEF again, set, within
  <2>2. ASSUME NEW t \in Set(again(over), within, set)
        PROVE  \E n \in Names : \E l, k : t = [do |-> n, life |-> l, k |-> k]
    <3>1. PICK n \in again(over) :
            t = [do |-> n, life |-> Life(H(n).on, within), k |-> 1 + Cardinality({x \in set : x.do = n})]
      BY Zenon DEF Set
    <3>2. n \in Names
      BY <1>6
    <3> QED
      BY <3>1, <3>2, Zenon
  <2> QED
    BY <2>1, <2>2
<1>8a. within \subseteq up /\ (mine => within = up)
  OBVIOUS
<1> HIDE DEF called, again, set, runs, spun, cleared, up, within, leaves
<1>9. CallsOK'
  <2> SUFFICES ASSUME NEW e \in calls'
               PROVE  \E n \in Names : \E q, l, w, ov, lt, k : e = [do |-> n, q |-> q, life |-> l, since |-> w, over |-> ov, late |-> lt, k |-> k]
    BY <1>4 DEF CallsOK
  <2>1. PICK d \in pending \cup Sent(runs, within, qs, pending, server') :
          e = IF leaves THEN [d EXCEPT !.life = "none"] ELSE Outlives(d, up)
    BY <1>1
  <2>2. PICK n \in Names : \E q, l, w, ov, lt, k : d = [do |-> n, q |-> q, life |-> l, since |-> w, over |-> ov, late |-> lt, k |-> k]
    BY <1>7
  <2>2a. PICK q, l, w, ov, lt, k : d = [do |-> n, q |-> q, life |-> l, since |-> w, over |-> ov, late |-> lt, k |-> k]
    BY <2>2
  <2>3. e \in {[do |-> n, q |-> q, life |-> x, since |-> w, over |-> ov, late |-> lt, k |-> k] : x \in {l, "none", "page"}}
    BY <2>1, <2>2a DEF Outlives
  <2> QED
    BY <2>3
<1>10. TimersOK'
  <2> SUFFICES ASSUME NEW e \in timers'
               PROVE  \E n \in Names : \E l, k : e = [do |-> n, life |-> l, k |-> k]
    BY <1>4 DEF TimersOK
  <2>1. PICK t \in set \cup Set(again(over), within, set) :
          e = IF leaves THEN [t EXCEPT !.life = "none"] ELSE Outlives(t, up)
    BY <1>2
  <2>2. PICK n \in Names : \E l, k : t = [do |-> n, life |-> l, k |-> k]
    BY <1>8
  <2>2a. PICK l, k : t = [do |-> n, life |-> l, k |-> k]
    BY <2>2
  <2>3. e \in {[do |-> n, life |-> x, k |-> k] : x \in {l, "none", "page"}}
    BY <2>1, <2>2a DEF Outlives
  <2> QED
    BY <2>3
<1>11. SpinInv'
  <2> SUFFICES ASSUME NEW b \in busy'
               PROVE  \E s, f : /\ b = <<s, f>>
                                /\ \/ <<page.name, f>> \in KnownStuck
                                   \/ \E d \in calls' : WillClear(d, s, f)
    BY <1>4 DEF SpinInv, WillClear
  <2>1. b[1] \in up /\ ~ leaves
    BY <1>3
  \* A request that will clear a spinner of a surface that remains, still will.
  <2>2. ASSUME NEW d \in pending \cup Sent(runs, within, qs, pending, server'), WillClear(d, b[1], b[2])
        PROVE  d \in calls'
    <3>1. Outlives(d, up) = d
      BY <2>1, <2>2 DEF Outlives, WillClear
    <3> QED
      BY <1>1, <2>1, <3>1
  \* What is called for a surface that is there will clear what it is to clear.
  <2>3. ASSUME NEW n \in runs, H(n).on = b[1], b[1] \in within, Clears(H(n), b[2])
        PROVE  \E d \in calls' : WillClear(d, b[1], b[2])
    <3> DEFINE d == [do |-> n, q |-> ParameterOf(n, qs), life |-> Life(H(n).on, within),
                     since |-> IF n \in Readers THEN Version(n, server') ELSE 0,
                     over |-> n \in Watchers /\ ended, late |-> FALSE,
                     k |-> 1 + Cardinality({x \in pending : x.do = n})]
    <3>1. d \in Sent(runs, within, qs, pending, server')
      BY <2>3 DEF Sent
    <3>2. d.do = n /\ d.life = "surface"
      BY <2>1, <2>3 DEF Life
    <3>3. WillClear(d, b[1], b[2])
      BY <2>3, <3>2 DEF WillClear
    <3> HIDE DEF d
    <3> QED
      BY <2>2, <3>1, <3>3
  <2>4. CASE b \in busy \ cleared
    <3>1. PICK s, f :
            /\ b = <<s, f>>
            /\ \/ <<page.name, f>> \in KnownStuck
               \/ \E d \in pending : WillClear(d, s, f)
               \/ c.life = "surface" /\ s = H(c.do).on /\ f \in Of(effects, "clear")
      BY <2>4
    <3>2. ~ (c.life = "surface" /\ s = H(c.do).on /\ f \in Of(effects, "clear"))
      BY <2>4, <3>1 DEF cleared
    <3>3. b[1] = s /\ b[2] = f
      BY <3>1
    <3> QED
      BY <2>2, <3>1, <3>2, <3>3
  <2>5. CASE b \in Spinning(runs \ silent, within)
    <3>1. PICK n \in runs : H(n).on \in within /\ \E f \in H(n).flags : b = <<H(n).on, f>>
      BY <2>5 DEF Spinning
    <3>2. PICK f \in H(n).flags : b = <<H(n).on, f>>
      BY <3>1
    <3>3. n \in Names
      BY <1>5 DEF runs
    <3>4. Clears(H(n), f) \/ <<page.name, f>> \in KnownStuck
      BY <3>3, SoundPage
    <3> QED
      BY <2>3, <3>1, <3>2, <3>4
  <2>6. CASE b \in spun
    <3>1. PICK f \in Of(effects, "spin") : b = <<H(c.do).on, f>> /\ b[1] \in within
      BY <1>8a, <2>1, <2>6 DEF spun
    <3>2. CASE <<page.name, f>> \in KnownStuck
      BY <3>1, <3>2
    <3>3. CASE \E m \in Of(effects, "run") :
                 H(m).on = H(c.do).on /\ H(m).kind # "interval" /\ H(m).unless = {} /\ Clears(H(m), f)
      <4>1. PICK m \in Of(effects, "run") :
              H(m).on = H(c.do).on /\ H(m).kind # "interval" /\ H(m).unless = {} /\ Clears(H(m), f)
        BY <3>3
      <4>2. m \in runs
        BY <1>5, <4>1, SoundPage DEF runs, called
      <4> QED
        BY <2>3, <3>1, <4>1, <4>2
    <3> QED
      BY <3>1, <3>2, <3>3 DEF EffectsOK
  <2> QED
    BY <1>3, <2>4, <2>5, <2>6
<1>12. IsOpened'
  BY DEF IsOpened
<1> QED
  BY <1>9, <1>10, <1>11, <1>12 DEF Inv

-----------------------------------------------------------------------------
(* The steps *)

\* The effects that are made of one kind.
LEMMA OfRun ==
    ASSUME NEW n, NEW kind
    PROVE  Of(Run({n}), kind) = IF kind = "run" THEN {n} ELSE {}
<1>1. {x \in Run({n}) : x[1] = kind} = IF kind = "run" THEN {<<"run", n>>} ELSE {}
  BY DEF Run
<1>2. CASE kind = "run"
  <2>1. Of(Run({n}), kind) = {e[2] : e \in {<<"run", n>>}}
    BY <1>1, <1>2 DEF Of
  <2>2. <<"run", n>>[2] = n
    OBVIOUS
  <2>3. {e[2] : e \in {<<"run", n>>}} = {n}
    BY <2>2, Zenon
  <2> QED
    BY <1>2, <2>1, <2>3
<1>3. CASE kind # "run"
  BY <1>1, <1>3 DEF Of
<1> QED
  BY <1>2, <1>3

LEMMA OfTick ==
    ASSUME NEW n, NEW kind, NEW effects
    PROVE  Of(effects \cup Tick(n), kind) = Of(effects, kind) \cup IF kind = "tick" THEN {n} ELSE {}
<1>1. Of(effects \cup Tick(n), kind) = Of(effects, kind) \cup Of(Tick(n), kind)
  BY DEF Of
<1>2. {x \in Tick(n) : x[1] = kind} = IF kind = "tick" THEN {<<"tick", n>>} ELSE {}
  BY DEF Tick
<1>3. CASE kind = "tick"
  <2>1. Of(Tick(n), kind) = {e[2] : e \in {<<"tick", n>>}}
    BY <1>2, <1>3 DEF Of
  <2>2. <<"tick", n>>[2] = n
    OBVIOUS
  <2>3. {e[2] : e \in {<<"tick", n>>}} = {n}
    BY <2>2, Zenon
  <2> QED
    BY <1>1, <1>3, <2>1, <2>3
<1>4. CASE kind # "tick"
  <2>1. Of(Tick(n), kind) = {}
    BY <1>2, <1>4 DEF Of
  <2> QED
    BY <1>1, <1>4, <2>1
<1> QED
  BY <1>3, <1>4

LEMMA OfNothing == \A kind : Of({}, kind) = {}
  BY DEF Of

LEMMA RunOK ==
    ASSUME NEW n \in Names, NEW on
    PROVE  EffectsOK(Run({n}), on)
<1>1. /\ \A kind : kind # "run" => Of(Run({n}), kind) = {}
      /\ Of(Run({n}), "run") = {n}
  <2>1. \A kind : Of(Run({n}), kind) = IF kind = "run" THEN {n} ELSE {}
    BY OfRun, Zenon
  <2> QED
    BY <2>1
<1> QED
  BY <1>1 DEF EffectsOK, HandlersIn

LEMMA NothingOK == \A on : EffectsOK({}, on)
  BY OfNothing DEF EffectsOK, HandlersIn

LEMMA TickOK ==
    ASSUME NEW n \in Names, NEW on, NEW effects, EffectsOK(effects, on)
    PROVE  EffectsOK(effects \cup Tick(n), on)
<1>1. /\ \A kind : kind # "tick" => Of(effects \cup Tick(n), kind) = Of(effects, kind)
      /\ Of(effects \cup Tick(n), "tick") = Of(effects, "tick") \cup {n}
  <2>1. \A kind : Of(effects \cup Tick(n), kind) = Of(effects, kind) \cup IF kind = "tick" THEN {n} ELSE {}
    BY OfTick, Zenon
  <2> QED
    BY <2>1
<1>2. HandlersIn(effects \cup Tick(n)) \subseteq HandlersIn(effects) \cup {n}
  BY <1>1 DEF HandlersIn
<1> QED
  BY <1>1, <1>2 DEF EffectsOK

LEMMA InitInv == Init => Inv
<1> SUFFICES ASSUME Init PROVE Inv
  OBVIOUS
<1> DEFINE first == page.mount["page"] \ Intervals
<1>1. IsOpened /\ busy = Spinning(first, {"page"}) /\ calls = Sent(first, {"page"}, query, {}, server)
  BY DEF Init, IsOpened
<1>2. page.mount["page"] \subseteq Names
  BY <1>1, SoundPage
<1>3. CallsOK
  <2> SUFFICES ASSUME NEW d \in calls
               PROVE  \E n \in Names : \E q, l, w, ov, lt, k : d = [do |-> n, q |-> q, life |-> l, since |-> w, over |-> ov, late |-> lt, k |-> k]
    BY DEF CallsOK
  <2>1. PICK n \in first :
          d = [do |-> n, q |-> ParameterOf(n, query), life |-> Life(H(n).on, {"page"}),
               since |-> IF n \in Readers THEN Version(n, server) ELSE 0,
               over |-> n \in Watchers /\ ended, late |-> FALSE,
               k |-> 1 + Cardinality({x \in {} : x.do = n})]
    BY <1>1, Zenon DEF Sent
  <2>2. n \in Names
    BY <1>2
  <2> QED
    BY <2>1, <2>2, Zenon
<1>4. TimersOK
  <2> SUFFICES ASSUME NEW t \in timers
               PROVE  \E n \in Names : \E l, k : t = [do |-> n, life |-> l, k |-> k]
    BY DEF TimersOK
  <2>1. timers = Set(page.mount["page"] \cap Intervals, {"page"}, {})
    BY DEF Init
  <2>2. PICK n \in page.mount["page"] \cap Intervals :
          t = [do |-> n, life |-> Life(H(n).on, {"page"}), k |-> 1 + Cardinality({x \in {} : x.do = n})]
    BY <2>1, Zenon DEF Set
  <2>3. n \in Names
    BY <1>2
  <2> QED
    BY <2>2, <2>3, Zenon
<1>5. SpinInv
  <2> SUFFICES ASSUME NEW b \in busy
               PROVE  \E s, f : /\ b = <<s, f>>
                                /\ <<page.name, f>> \in KnownStuck \/ \E c \in calls : WillClear(c, s, f)
    BY DEF SpinInv
  <2>1. PICK n \in first : H(n).on = "page" /\ \E f \in H(n).flags : b = <<H(n).on, f>>
    BY <1>1 DEF Spinning
  <2>2. PICK f \in H(n).flags : b = <<H(n).on, f>>
    BY <2>1
  <2>3. Clears(H(n), f) \/ <<page.name, f>> \in KnownStuck
    BY <1>1, <1>2, SoundPage
  <2> DEFINE d == [do |-> n, q |-> ParameterOf(n, query), life |-> Life(H(n).on, {"page"}),
                   since |-> IF n \in Readers THEN Version(n, server) ELSE 0,
                   over |-> n \in Watchers /\ ended, late |-> FALSE,
                   k |-> 1 + Cardinality({x \in {} : x.do = n})]
  <2>4. d \in calls
    BY <1>1 DEF Sent
  <2>5. d.do = n /\ d.life = "surface"
    BY <2>1 DEF Life
  <2> HIDE DEF d
  <2>6. Clears(H(n), f) => WillClear(d, H(n).on, f)
    BY <2>5 DEF WillClear
  <2> QED
    BY <2>2, <2>3, <2>4, <2>6
<1> QED
  BY <1>1, <1>3, <1>4, <1>5 DEF Inv

\* What a click and a timer do: no request is answered.
LEMMA CalledKeeps ==
    ASSUME Inv, UNCHANGED page, NEW effects, NEW c, NEW ticking,
           EffectsOK(effects, H(c.do).on),
           \A t \in ticking : \E n \in Names : \E l, k : t = [do |-> n, life |-> l, k |-> k],
           Effects(effects, c, calls, ticking)
    PROVE  Inv'
<1>1. IsOpened
  BY DEF Inv
<1>2. \A d \in calls : \E n \in Names : \E q, l, w, ov, lt, k : d = [do |-> n, q |-> q, life |-> l, since |-> w, over |-> ov, late |-> lt, k |-> k]
  BY DEF Inv, CallsOK
<1>3. \A b \in busy :
         \E s, f : /\ b = <<s, f>>
                   /\ \/ <<page.name, f>> \in KnownStuck
                      \/ \E d \in calls : WillClear(d, s, f)
                      \/ c.life = "surface" /\ s = H(c.do).on /\ f \in Of(effects, "clear")
  BY DEF Inv, SpinInv
<1> QED
  BY <1>1, <1>2, <1>3, EffectsKeep

\* The requests under way without c, which was answered, well if behind is true; and what
\* becomes of one of them.
Rest(c, behind) == IF behind THEN Answered(calls, c) ELSE Without(calls, c)
Goes(d, c, behind) == Renumbered(IF behind THEN Lagging(d, c) ELSE d, c)

LEMMA RestIs ==
    ASSUME NEW c, NEW behind \in BOOLEAN
    PROVE  Rest(c, behind) = {Goes(d, c, behind) : d \in Remaining(calls, c)}
<1>1. CASE behind
  BY <1>1 DEF Rest, Answered, Goes
<1>2. CASE ~ behind
  BY <1>2 DEF Rest, Without, Goes
<1> QED
  BY <1>1, <1>2

\* It is late, or has another number, and is otherwise the same.
LEMMA GoesSame ==
    ASSUME NEW d, NEW c, NEW behind \in BOOLEAN, CallShape(d)
    PROVE  /\ CallShape(Goes(d, c, behind))
           /\ Goes(d, c, behind).do = d.do /\ Goes(d, c, behind).life = d.life
           /\ Goes(d, c, behind).q = d.q /\ Goes(d, c, behind).since = d.since
           /\ Goes(d, c, behind).k = IF d.do = c.do /\ d.k > c.k THEN d.k - Places(c) ELSE d.k
           /\ Goes(d, c, behind).late
                = IF behind /\ c.life = "surface" /\ d.do = c.do /\ d.k < c.k THEN TRUE ELSE d.late
<1> DEFINE x == IF behind THEN Lagging(d, c) ELSE d
<1>1. PICK n \in Names : \E q, l, w, ov, lt, k : d = [do |-> n, q |-> q, life |-> l, since |-> w, over |-> ov, late |-> lt, k |-> k]
  BY DEF CallShape
<1>2. PICK q, l, w, ov, lt, k : d = [do |-> n, q |-> q, life |-> l, since |-> w, over |-> ov, late |-> lt, k |-> k]
  BY <1>1
<1> DEFINE late == IF behind /\ c.life = "surface" /\ d.do = c.do /\ d.k < c.k THEN TRUE ELSE d.late
           rank == IF d.do = c.do /\ d.k > c.k THEN d.k - Places(c) ELSE d.k
<1>3. x = [do |-> n, q |-> q, life |-> l, since |-> w, over |-> ov, late |-> late, k |-> k]
  BY <1>2 DEF Lagging
<1>4. x.do = d.do /\ x.k = d.k
  BY <1>2, <1>3
<1>5. Goes(d, c, behind) = [do |-> n, q |-> q, life |-> l, since |-> w, over |-> ov, late |-> late, k |-> rank]
  <2>1. Goes(d, c, behind) = IF x.do = c.do /\ x.k > c.k THEN [x EXCEPT !.k = x.k - Places(c)] ELSE x
    BY DEF Goes, Renumbered
  <2> HIDE DEF x, late
  <2>2. CASE d.do = c.do /\ d.k > c.k
    BY <1>3, <1>4, <2>1, <2>2
  <2>3. CASE ~ (d.do = c.do /\ d.k > c.k)
    BY <1>2, <1>3, <1>4, <2>1, <2>3
  <2> QED
    BY <2>2, <2>3
<1> HIDE DEF late, rank
<1>6. CallShape(Goes(d, c, behind))
  BY <1>5, Zenon DEF CallShape
<1>7. d.do = n /\ d.q = q /\ d.life = l /\ d.since = w
  BY <1>2
<1>8. LET e == Goes(d, c, behind)
      IN  e.do = n /\ e.q = q /\ e.life = l /\ e.since = w /\ e.late = late /\ e.k = rank
  BY <1>5
<1>9. LET e == Goes(d, c, behind)
      IN  e.do = d.do /\ e.q = d.q /\ e.life = d.life /\ e.since = d.since /\ e.late = late /\ e.k = rank
  BY <1>7, <1>8
<1> QED
  BY <1>6, <1>9, Zenon DEF late, rank

\* What an answer does: the effects are those of a good answer, those of a bad one, or
\* none because a later answer is still to come.
LEMMA AnsweredKeeps ==
    ASSUME Inv, UNCHANGED page, NEW c \in calls, NEW effects, NEW behind \in BOOLEAN,
           effects \in {H(c.do).ok, H(c.do).err} \/ (effects = {} /\ H(c.do).latest),
           Effects(effects, c, Rest(c, behind), timers)
    PROVE  Inv'
<1>1. IsOpened /\ c.do \in Names
  BY DEF Inv, CallsOK
<1>2. EffectsOK(effects, H(c.do).on)
  BY <1>1, SoundPage, NothingOK
<1>3. ASSUME NEW e \in Rest(c, behind) PROVE CallShape(e)
  <2>1. PICK d \in calls : e = Goes(d, c, behind)
    BY <1>3, RestIs DEF Remaining
  <2>2. CallShape(d)
    BY DEF Inv, CallsOK, CallShape
  <2> QED
    BY <2>1, <2>2, GoesSame
<1>4. ASSUME NEW d \in calls, d # c, NEW s, NEW f, WillClear(d, s, f)
      PROVE  \E e \in Rest(c, behind) : WillClear(e, s, f)
  <2>1. CallShape(d)
    BY DEF Inv, CallsOK, CallShape
  <2>2. Goes(d, c, behind) \in Rest(c, behind)
    BY <1>4, RestIs DEF Remaining, Overtaken, WillClear, Clears
  <2>3. Goes(d, c, behind).do = d.do /\ Goes(d, c, behind).life = d.life
    BY <2>1, GoesSame
  <2> QED
    BY <1>4, <2>2, <2>3 DEF WillClear
<1>5. ASSUME NEW s, NEW f, WillClear(c, s, f)
      PROVE  c.life = "surface" /\ s = H(c.do).on /\ f \in Of(effects, "clear")
  BY <1>5 DEF WillClear, Clears
<1>6. \A b \in busy :
         \E s, f : /\ b = <<s, f>>
                   /\ \/ <<page.name, f>> \in KnownStuck
                      \/ \E d \in Rest(c, behind) : WillClear(d, s, f)
                      \/ c.life = "surface" /\ s = H(c.do).on /\ f \in Of(effects, "clear")
  <2> TAKE b \in busy
  <2>1. PICK s, f : /\ b = <<s, f>>
                    /\ <<page.name, f>> \in KnownStuck \/ \E d \in calls : WillClear(d, s, f)
    BY DEF Inv, SpinInv
  <2>2. \/ <<page.name, f>> \in KnownStuck
        \/ \E d \in Rest(c, behind) : WillClear(d, s, f)
        \/ c.life = "surface" /\ s = H(c.do).on /\ f \in Of(effects, "clear")
    <3>1. CASE <<page.name, f>> \in KnownStuck
      BY <3>1
    <3>2. ASSUME NEW d \in calls, WillClear(d, s, f)
          PROVE  \/ \E e \in Rest(c, behind) : WillClear(e, s, f)
                 \/ c.life = "surface" /\ s = H(c.do).on /\ f \in Of(effects, "clear")
      BY <1>4, <1>5, <3>2
    <3> QED
      BY <2>1, <3>1, <3>2
  <2> QED
    BY <2>1, <2>2
<1>7. \A t \in timers : \E n \in Names : \E l, k : t = [do |-> n, life |-> l, k |-> k]
  BY DEF Inv, TimersOK
<1> DEFINE pending == Rest(c, behind)
<1>8. \A d \in pending : \E n \in Names : \E q, l, w, ov, lt, k : d = [do |-> n, q |-> q, life |-> l, since |-> w, over |-> ov, late |-> lt, k |-> k]
  BY <1>3, Zenon DEF CallShape
<1>9. Effects(effects, c, pending, timers)
  OBVIOUS
<1> HIDE DEF pending
<1> QED
  BY <1>1, <1>2, <1>6, <1>7, <1>8, <1>9, EffectsKeep DEF pending

LEMMA FireKeeps == ASSUME Inv, NEW t \in timers, Fire(t) PROVE Inv'
<1> DEFINE effects == IF t.do \in Intervals THEN H(t.do).ok \cup Tick(t.do) ELSE Run({t.do})
           c == Now(t.do, t.life)
<1>1. IsOpened /\ t.do \in Names
  BY DEF Inv, TimersOK
<1>2. c.do = t.do
  BY DEF Now
<1>3. UNCHANGED page /\ Effects(effects, c, calls, Without(timers, t))
  BY DEF Fire
<1>4. EffectsOK(effects, H(t.do).on)
  BY <1>1, SoundPage, TickOK, RunOK
<1>5. ASSUME NEW u \in Without(timers, t)
      PROVE  \E n \in Names : \E l, k : u = [do |-> n, life |-> l, k |-> k]
  <2>1. PICK v \in timers : u = Renumbered(v, t)
    BY <1>5 DEF Without, Remaining
  <2>2. PICK n \in Names : \E l, k : v = [do |-> n, life |-> l, k |-> k]
    BY DEF Inv, TimersOK
  <2>2a. PICK l, k : v = [do |-> n, life |-> l, k |-> k]
    BY <2>2
  <2>3. u \in {[do |-> n, life |-> l, k |-> x] : x \in {k, k - Places(t)}}
    BY <2>1, <2>2a DEF Renumbered
  <2> QED
    BY <2>3
<1> HIDE DEF effects, c
<1> QED
  BY <1>2, <1>3, <1>4, <1>5, CalledKeeps

LEMMA ClickKeeps == ASSUME Inv, NEW o \in page.offers, Click(o) PROVE Inv'
<1> DEFINE effects == IF H(o.do).kind = "act" THEN H(o.do).ok ELSE Run({o.do})
           c == Now(o.do, "surface")
<1>1. IsOpened /\ o.do \in Names
  BY SoundPage DEF Inv
<1>2. c.do = o.do
  BY DEF Now
<1>3. UNCHANGED page /\ Effects(effects, c, calls, timers)
  BY DEF Click
<1>4. EffectsOK(effects, H(o.do).on)
  BY <1>1, SoundPage, RunOK
<1>5. \A t \in timers : \E n \in Names : \E l, k : t = [do |-> n, life |-> l, k |-> k]
  BY DEF Inv, TimersOK
<1> HIDE DEF effects, c
<1> QED
  BY <1>2, <1>3, <1>4, <1>5, CalledKeeps

LEMMA GoAwayKeeps == ASSUME Inv, GoAway PROVE Inv'
<1>1. UNCHANGED <<page, Names>> /\ busy' = {}
  BY DEF GoAway, Names
<1>2. CallsOK'
  <2> SUFFICES ASSUME NEW e \in calls'
               PROVE  \E n \in Names : \E q, l, w, ov, lt, k : e = [do |-> n, q |-> q, life |-> l, since |-> w, over |-> ov, late |-> lt, k |-> k]
    BY <1>1 DEF CallsOK
  <2>1. PICK d \in calls : e = [d EXCEPT !.life = "none"]
    BY DEF GoAway
  <2>2. PICK n \in Names : \E q, l, w, ov, lt, k : d = [do |-> n, q |-> q, life |-> l, since |-> w, over |-> ov, late |-> lt, k |-> k]
    BY DEF Inv, CallsOK
  <2>2a. PICK q, l, w, ov, lt, k : d = [do |-> n, q |-> q, life |-> l, since |-> w, over |-> ov, late |-> lt, k |-> k]
    BY <2>2
  <2>3. e = [do |-> n, q |-> q, life |-> "none", since |-> w, over |-> ov, late |-> lt, k |-> k]
    BY <2>1, <2>2a
  <2> QED
    BY <2>3
<1>3. TimersOK'
  <2> SUFFICES ASSUME NEW e \in timers'
               PROVE  \E n \in Names : \E l, k : e = [do |-> n, life |-> l, k |-> k]
    BY <1>1 DEF TimersOK
  <2>1. PICK t \in timers : e = [t EXCEPT !.life = "none"]
    BY DEF GoAway, Cleared
  <2>2. PICK n \in Names : \E l, k : t = [do |-> n, life |-> l, k |-> k]
    BY DEF Inv, TimersOK
  <2>2a. PICK l, k : t = [do |-> n, life |-> l, k |-> k]
    BY <2>2
  <2>3. e = [do |-> n, life |-> "none", k |-> k]
    BY <2>1, <2>2a
  <2> QED
    BY <2>3
<1> QED
  BY <1>1, <1>2, <1>3 DEF Inv, IsOpened, SpinInv

LEMMA NextInv == Inv /\ [Next]_vars => Inv'
<1> SUFFICES ASSUME Inv, [Next]_vars PROVE Inv'
  OBVIOUS
<1>1. ASSUME NEW o \in page.offers, Click(o) PROVE Inv'
  BY <1>1, ClickKeeps
<1>2. CASE GoAway
  BY <1>2, GoAwayKeeps
<1>3. ASSUME NEW c \in calls, Answer(c) PROVE Inv'
  <2> DEFINE effects == IF Dropped(c) THEN {} ELSE H(c.do).ok
  <2>1. UNCHANGED page /\ Effects(effects, c, Rest(c, TRUE), timers)
    BY <1>3 DEF Answer, Rest
  <2>2. effects \in {H(c.do).ok, H(c.do).err} \/ (effects = {} /\ H(c.do).latest)
    BY DEF Dropped
  <2> HIDE DEF effects
  <2> QED
    BY <2>1, <2>2, AnsweredKeeps
<1>4. ASSUME NEW c \in calls, Fail(c) PROVE Inv'
  <2> DEFINE effects == IF Dropped(c) THEN {} ELSE H(c.do).err
  <2>1. UNCHANGED page /\ Effects(effects, c, Rest(c, FALSE), timers)
    BY <1>4 DEF Fail, Rest
  <2>2. effects \in {H(c.do).ok, H(c.do).err} \/ (effects = {} /\ H(c.do).latest)
    BY DEF Dropped
  <2> HIDE DEF effects
  <2> QED
    BY <2>1, <2>2, AnsweredKeeps
<1>5. ASSUME NEW t \in timers, Fire(t) PROVE Inv'
  BY <1>5, FireKeeps
<1>6. CASE End \/ UNCHANGED vars
  BY <1>6 DEF End, vars, Inv, IsOpened, CallsOK, TimersOK, SpinInv, WillClear, H, Names
<1> QED
  BY <1>1, <1>2, <1>3, <1>4, <1>5, <1>6 DEF Next

\* On a page whose handlers switch their spinners off on every answer, as the assumption
\* that TLC checks for the pages of the web interface says, no spinner is left on when no
\* request is under way, except the known ones: for any number of clicks, failures and
\* timers.
THEOREM SpinnersCorrect == Spec => []SpinnersEnd
<1>1. Init => Inv
  BY InitInv
<1>2. Inv /\ [Next]_vars => Inv'
  BY NextInv
<1>3. Inv => SpinnersEnd
  <2> SUFFICES ASSUME Inv, calls = {}, NEW b \in busy PROVE <<page.name, b[2]>> \in KnownStuck
    BY DEF SpinnersEnd, Quiet
  <2>1. PICK s, f : b = <<s, f>> /\ <<page.name, f>> \in KnownStuck
    BY DEF Inv, SpinInv
  <2> QED
    BY <2>1
<1> QED
  BY <1>1, <1>2, <1>3, PTL DEF Spec

-----------------------------------------------------------------------------
(* What a callback does, piece by piece *)

\* The names that the definition of Effects gives to its parts.
Leaves(effects, c) == c.life # "none" /\ Of(effects, "leave") # {}
OpenedBy(effects, c) == IF c.life # "none" THEN Of(effects, "open") \ open ELSE {}
UpAfter(effects, c) ==
    (open \ (IF c.life # "none" THEN Of(effects, "close") ELSE {})) \cup OpenedBy(effects, c)
\* Of the surfaces that are there after it, those that the callback reaches.
WithinOf(effects, c) ==
    IF c.life = "surface" \/ H(c.do).on = "page" THEN UpAfter(effects, c)
    ELSE (UpAfter(effects, c) \ {H(c.do).on}) \cup OpenedBy(effects, c)
SwitchedOff(effects, c) ==
    {<<H(c.do).on, f>> : f \in IF c.life = "surface" THEN Of(effects, "clear") ELSE {}}
CalledBy(effects, c) ==
    Of(effects, "run") \cup Of(effects, "runSilently") \cup Of(effects, "runPlain")
        \cup UNION {page.mount[s] : s \in OpenedBy(effects, c)}
RunBy(effects, c) ==
    {n \in CalledBy(effects, c) \ Intervals :
       \A f \in H(n).unless : <<H(n).on, f>> \notin busy \ SwitchedOff(effects, c)}
SpunBy(effects, c) ==
    {<<H(c.do).on, f>> : f \in IF c.life = "surface" THEN Of(effects, "spin") ELSE {}}
StillSet(effects, c, ticking) ==
    Cleared(ticking,
            Of(effects, "stop")
                \cup {n \in page.stops : Leaves(effects, c) \/ H(n).on \in open \ UpAfter(effects, c)})
SetAgain(effects, c, ticking, over) ==
    Of(effects, "tick") \cup (CalledBy(effects, c) \cap Intervals)
        \cup IF over THEN {}
             ELSE {n \in Of(effects, "poll")
                            \cup IF c.life = "surface" THEN Of(effects, "pollOnce") ELSE {} :
                     \A t \in StillSet(effects, c, ticking) : t.do # n \/ t.life # c.life}
\* A callback after the surfaces have changed, or the page was left.
Kept(d, leaves, up) == IF leaves THEN [d EXCEPT !.life = "none"] ELSE Outlives(d, up)

\* What Effects says of the next state, with these names.
Parts(effects, c, pending, ticking) ==
    /\ away' = (away \/ Leaves(effects, c))
    /\ open' = IF Leaves(effects, c) THEN {} ELSE UpAfter(effects, c)
    /\ \E qs : calls' = {Kept(d, Leaves(effects, c), UpAfter(effects, c)) :
                          d \in pending \cup Sent(RunBy(effects, c), WithinOf(effects, c), qs, pending, server')}
    /\ \E over : timers' = {Kept(t, Leaves(effects, c), UpAfter(effects, c)) :
                            t \in StillSet(effects, c, ticking)
                                     \cup Set(SetAgain(effects, c, ticking, over), WithinOf(effects, c),
                                              StillSet(effects, c, ticking))}
    /\ busy' = {b \in (busy \ SwitchedOff(effects, c))
                       \cup Spinning(RunBy(effects, c) \ Of(effects, "runSilently"), WithinOf(effects, c))
                       \cup SpunBy(effects, c) : b[1] \in open'}

LEMMA EffectsParts ==
    ASSUME NEW effects, NEW c, NEW pending, NEW ticking, Effects(effects, c, pending, ticking)
    PROVE  Parts(effects, c, pending, ticking)
<1> USE DEF Effects, Leaves, OpenedBy, UpAfter, WithinOf, SwitchedOff, CalledBy, RunBy, SpunBy, StillSet, SetAgain, Kept
<1>1. away' = (away \/ Leaves(effects, c))
  BY Zenon
<1>2. open' = IF Leaves(effects, c) THEN {} ELSE UpAfter(effects, c)
  BY Zenon
<1>3. \E qs : calls' = {Kept(d, Leaves(effects, c), UpAfter(effects, c)) :
                        d \in pending \cup Sent(RunBy(effects, c), WithinOf(effects, c), qs, pending, server')}
  BY Zenon
<1>4. \E over : timers' = {Kept(t, Leaves(effects, c), UpAfter(effects, c)) :
                          t \in StillSet(effects, c, ticking)
                                   \cup Set(SetAgain(effects, c, ticking, over), WithinOf(effects, c),
                                            StillSet(effects, c, ticking))}
  BY Zenon
<1>5. busy' = {b \in (busy \ SwitchedOff(effects, c))
                     \cup Spinning(RunBy(effects, c) \ Of(effects, "runSilently"), WithinOf(effects, c))
                     \cup SpunBy(effects, c) : b[1] \in open'}
  BY Zenon
<1> QED
  BY <1>1, <1>2, <1>3, <1>4, <1>5 DEF Parts

LEMMA WithinUp ==
    ASSUME NEW effects, NEW c
    PROVE  /\ WithinOf(effects, c) \subseteq UpAfter(effects, c)
           /\ "page" \in UpAfter(effects, c) => "page" \in WithinOf(effects, c)
  BY DEF WithinOf, UpAfter, OpenedBy

\* The parameters and what is shown.
LEMMA EffectsShown ==
    ASSUME NEW effects, NEW c, NEW pending, NEW ticking, Effects(effects, c, pending, ticking),
           query \in [Searchers -> 0..1]
    PROVE  /\ query' \in [Searchers -> 0..1]
           /\ DOMAIN shown' = Readers
           /\ \A n \in Readers : shown'[n] # Nothing => H(n).on \in open'
<1> DEFINE there == c.life # "none"
           closed == IF there THEN Of(effects, "close") ELSE {}
           opened == IF there THEN Of(effects, "open") \ open ELSE {}
           up == (open \ closed) \cup opened
           leaves == there /\ Of(effects, "leave") # {}
           left == IF leaves THEN {} ELSE up
           kept == left \cap open
           within == IF c.life = "surface" \/ H(c.do).on = "page" THEN up ELSE (up \ {H(c.do).on}) \cup opened
           changed == {n \in Of(effects, "requery") \cap Searchers : there /\ H(n).on \in within}
           fresh == [n \in Searchers |-> IF H(n).on \in kept THEN query[n] ELSE 0]
<1>1. open' = left
  BY Zenon DEF Effects
<1>2. \E new \in [changed -> 0..1] :
        query' = [n \in Searchers |-> IF n \in changed /\ H(n).on \in left THEN new[n] ELSE fresh[n]]
  BY ZenonT(60) DEF Effects
<1>3. DOMAIN shown' = Readers /\ \A n \in Readers : H(n).on \notin kept => shown'[n] = Nothing
  BY Zenon DEF Effects
<1> HIDE DEF left
<1>4. query' \in [Searchers -> 0..1]
  <2>1. PICK new \in [changed -> 0..1] :
          query' = [n \in Searchers |-> IF n \in changed /\ H(n).on \in left THEN new[n] ELSE fresh[n]]
    BY <1>2
  <2> HIDE DEF changed
  <2> QED
    BY <2>1
<1> QED
  BY <1>1, <1>3, <1>4

-----------------------------------------------------------------------------
(* Callbacks *)

TimerShape(t) == \E n \in Names : \E l, k : t = [do |-> n, life |-> l, k |-> k]
Shape(d) == CallShape(d) \/ TimerShape(d)

\* A callback with another life, or another number, is otherwise the same.
LEMMA Relabelled ==
    ASSUME NEW d, Shape(d)
    PROVE  /\ d.do \in Names
           /\ \A l : [d EXCEPT !.life = l].do = d.do /\ [d EXCEPT !.life = l].life = l
           /\ \A k : [d EXCEPT !.k = k].do = d.do /\ [d EXCEPT !.k = k].life = d.life
<1>1. CASE CallShape(d)
  <2>1. PICK n \in Names : \E q, l, w, ov, lt, k : d = [do |-> n, q |-> q, life |-> l, since |-> w, over |-> ov, late |-> lt, k |-> k]
    BY <1>1 DEF CallShape
  <2>2. PICK q, l, w, ov, lt, k : d = [do |-> n, q |-> q, life |-> l, since |-> w, over |-> ov, late |-> lt, k |-> k]
    BY <2>1
  <2> QED
    BY <2>2
<1>2. CASE TimerShape(d)
  <2>1. PICK n \in Names : \E l, k : d = [do |-> n, life |-> l, k |-> k]
    BY <1>2 DEF TimerShape
  <2>2. PICK l, k : d = [do |-> n, life |-> l, k |-> k]
    BY <2>1
  <2> QED
    BY <2>2
<1> QED
  BY <1>1, <1>2 DEF Shape

\* What Kept makes of a callback.
LEMMA KeptLife ==
    ASSUME NEW d, Shape(d), NEW leaves \in BOOLEAN, NEW up
    PROVE  /\ Kept(d, leaves, up).do = d.do
           /\ leaves => Kept(d, leaves, up).life = "none"
           /\ ~ leaves => Kept(d, leaves, up).life
                           = IF d.life = "surface" /\ H(d.do).on \notin up THEN "page" ELSE d.life
  BY Relabelled DEF Kept, Outlives

\* The requests that are sent, and the timers that are set.
LEMMA SentLife ==
    ASSUME NEW ns \in SUBSET Names, NEW up, NEW qs, NEW pending, NEW contents,
           NEW d \in Sent(ns, up, qs, pending, contents)
    PROVE  Shape(d) /\ d.do \in ns /\ d.life = Life(H(d.do).on, up)
<1>1. PICK n \in ns :
        d = [do |-> n, q |-> ParameterOf(n, qs), life |-> Life(H(n).on, up),
             since |-> IF n \in Readers THEN Version(n, contents) ELSE 0,
             over |-> n \in Watchers /\ ended, late |-> FALSE,
             k |-> 1 + Cardinality({x \in pending : x.do = n})]
  BY Zenon DEF Sent
<1>2. CallShape(d)
  BY <1>1, Zenon DEF CallShape
<1>3. d.do = n /\ d.life = Life(H(n).on, up)
  BY <1>1
<1> QED
  BY <1>2, <1>3 DEF Shape

LEMMA SetLife ==
    ASSUME NEW ns \in SUBSET Names, NEW up, NEW set, NEW t \in Set(ns, up, set)
    PROVE  Shape(t) /\ t.do \in ns /\ t.life = Life(H(t.do).on, up)
<1>1. PICK n \in ns :
        t = [do |-> n, life |-> Life(H(n).on, up), k |-> 1 + Cardinality({x \in set : x.do = n})]
  BY Zenon DEF Set
<1>2. TimerShape(t)
  BY <1>1, Zenon DEF TimerShape
<1>3. t.do = n /\ t.life = Life(H(n).on, up)
  BY <1>1
<1> QED
  BY <1>2, <1>3 DEF Shape

\* One handler has one request, or timer, more.
LEMMA SentOnce ==
    ASSUME NEW ns, NEW up, NEW qs, NEW pending, NEW contents,
           NEW d \in Sent(ns, up, qs, pending, contents), NEW e \in Sent(ns, up, qs, pending, contents), d.do = e.do
    PROVE  d = e
<1> DEFINE F(n) == [do |-> n, q |-> ParameterOf(n, qs), life |-> Life(H(n).on, up),
                    since |-> IF n \in Readers THEN Version(n, contents) ELSE 0,
                    over |-> n \in Watchers /\ ended, late |-> FALSE,
                    k |-> 1 + Cardinality({c \in pending : c.do = n})]
<1>1. PICK m \in ns : d = F(m)
  BY Zenon DEF Sent
<1>2. PICK n \in ns : e = F(n)
  BY Zenon DEF Sent
<1>3. d.do = m /\ e.do = n
  BY <1>1, <1>2
<1> QED
  BY <1>1, <1>2, <1>3

LEMMA SetOnce ==
    ASSUME NEW ns, NEW up, NEW set, NEW t \in Set(ns, up, set), NEW u \in Set(ns, up, set), t.do = u.do
    PROVE  t = u
<1> DEFINE F(n) == [do |-> n, life |-> Life(H(n).on, up), k |-> 1 + Cardinality({x \in set : x.do = n})]
<1>1. PICK m \in ns : t = F(m)
  BY Zenon DEF Set
<1>2. PICK n \in ns : u = F(n)
  BY Zenon DEF Set
<1>3. t.do = m /\ u.do = n
  BY <1>1, <1>2
<1> QED
  BY <1>1, <1>2, <1>3

\* The callbacks of S other than c, which follow each other more closely now.
LEMMA WithoutLife ==
    ASSUME NEW S, NEW c, \A d \in S : Shape(d)
    PROVE  \A e \in Without(S, c) :
              \E d \in S \ {c} : e = Renumbered(d, c) /\ Shape(e) /\ e.do = d.do /\ e.life = d.life
<1> TAKE e \in Without(S, c)
<1>1. PICK d \in S \ {c} : e = Renumbered(d, c)
  BY DEF Without, Remaining
<1>2. e.do = d.do /\ e.life = d.life
  BY <1>1, Relabelled DEF Renumbered
<1>3. Shape(e)
  <2>1. CASE CallShape(d)
    <3>1. PICK n \in Names : \E q, l, w, ov, lt, k : d = [do |-> n, q |-> q, life |-> l, since |-> w, over |-> ov, late |-> lt, k |-> k]
      BY <2>1 DEF CallShape
    <3>2. PICK q, l, w, ov, lt, k : d = [do |-> n, q |-> q, life |-> l, since |-> w, over |-> ov, late |-> lt, k |-> k]
      BY <3>1
    <3>3. e \in {[do |-> n, q |-> q, life |-> l, since |-> w, over |-> ov, late |-> lt, k |-> x] : x \in {k, k - Places(c)}}
      BY <1>1, <3>2 DEF Renumbered
    <3> QED
      BY <3>3 DEF Shape, CallShape
  <2>2. CASE TimerShape(d)
    <3>1. PICK n \in Names : \E l, k : d = [do |-> n, life |-> l, k |-> k]
      BY <2>2 DEF TimerShape
    <3>2. PICK l, k : d = [do |-> n, life |-> l, k |-> k]
      BY <3>1
    <3>3. e \in {[do |-> n, life |-> l, k |-> x] : x \in {k, k - Places(c)}}
      BY <1>1, <3>2 DEF Renumbered
    <3> QED
      BY <3>3 DEF Shape, TimerShape
  <2> QED
    BY <2>1, <2>2 DEF Shape
<1> QED
  BY <1>1, <1>2, <1>3

-----------------------------------------------------------------------------
(* Types *)

\* A callback without a life belongs to a page that was left, and only those do; the one
\* of a surface belongs to a surface that is there; the page itself is there until it is left.
LifeOK(c) ==
    /\ c.life \in {"surface", "page", "none"}
    /\ c.life = "none" <=> away
    /\ c.life = "surface" => H(c.do).on \in open
    /\ H(c.do).on = "page" => c.life # "page"

\* TypeOK is inductive together with: a page that was left has nothing open, and its
\* callbacks know it.
TypeInv ==
    /\ TypeOK
    /\ away => open = {}
    /\ \A c \in calls \cup timers : LifeOK(c)

\* The page that is open: what it names, and that none of its handlers closes it.
LEMMA SoundSurfaces ==
    ASSUME IsOpened
    PROVE  /\ page.name \in DOMAIN Pages
           /\ \A n \in Names : "page" \notin Of(H(n).ok, "close") /\ "page" \notin Of(H(n).err, "close")
           /\ \A o \in page.offers : o.on \in Surfaces
<1>0. PICK p \in DOMAIN Pages : page = Opened(p)
  BY DEF IsOpened
<1>1. /\ page.name = p
      /\ page.handlers = Pages[p].handlers
      /\ page.mount = Pages[p].mount
      /\ page.offers = Pages[p].offers
  BY <1>0 DEF Opened
<1>2. PageIsSound(Pages[p])
  BY PagesAssumption
<1>3. ASSUME NEW n \in Names PROVE "page" \notin Of(H(n).ok, "close") /\ "page" \notin Of(H(n).err, "close")
  <2>1. "page" \notin Of(H(n).ok \cup H(n).err, "close")
    BY <1>1, <1>2 DEF PageIsSound, Names, H
  <2> QED
    BY <2>1 DEF Of
<1> QED
  BY <1>1, <1>2, <1>3 DEF PageIsSound, Surfaces

\* A callback leaves the types as they are, and knows what it belongs to.
LEMMA EffectsTyped ==
    ASSUME IsOpened, UNCHANGED page,
           away \in BOOLEAN, open \subseteq Surfaces, "page" \in open <=> ~ away, away => open = {},
           query \in [Searchers -> 0..1],
           NEW effects, NEW c, NEW pending, NEW ticking,
           EffectsOK(effects, H(c.do).on), "page" \notin Of(effects, "close"),
           away => c.life = "none",
           \A d \in pending \cup ticking : Shape(d) /\ LifeOK(d),
           Effects(effects, c, pending, ticking)
    PROVE  /\ away' \in BOOLEAN /\ open' \subseteq Surfaces
           /\ "page" \in open' <=> ~ away'
           /\ away' => open' = {}
           /\ query' \in [Searchers -> 0..1]
           /\ \A b \in busy' : b[1] \in open'
           /\ DOMAIN shown' = Readers
           /\ \A n \in Readers : shown'[n] # Nothing => H(n).on \in open'
           /\ \A d \in calls' \cup timers' : d.do \in Names /\ LifeOK(d)'
<1> DEFINE up == UpAfter(effects, c)
           within == WithinOf(effects, c)
           leaves == Leaves(effects, c)
           set == StillSet(effects, c, ticking)
           again(over) == SetAgain(effects, c, ticking, over)
<1>0. Parts(effects, c, pending, ticking)
  BY EffectsParts
<1>1. leaves \in BOOLEAN /\ away' = (away \/ leaves) /\ open' = IF leaves THEN {} ELSE up
  BY <1>0 DEF Parts, Leaves
<1>1a. \E qs : calls' = {Kept(d, leaves, up) :
                         d \in pending \cup Sent(RunBy(effects, c), within, qs, pending, server')}
  BY <1>0, Zenon DEF Parts
<1>1b. \E over : timers' = {Kept(t, leaves, up) : t \in set \cup Set(again(over), within, set)}
  BY <1>0, Zenon DEF Parts
<1>2. up \subseteq Surfaces /\ ("page" \in up <=> ~ away) /\ (away => up = {}) /\ (leaves => ~ away)
  BY DEF UpAfter, OpenedBy, EffectsOK, Leaves
<1>3. CalledBy(effects, c) \subseteq Names
  <2>1. UNION {page.mount[s] : s \in OpenedBy(effects, c)} \subseteq Names
    BY SoundPage DEF EffectsOK, OpenedBy
  <2>2. Of(effects, "run") \cup Of(effects, "runSilently") \cup Of(effects, "runPlain") \subseteq Names
    BY DEF EffectsOK, HandlersIn
  <2> QED
    BY <2>1, <2>2 DEF CalledBy
<1>4. RunBy(effects, c) \subseteq Names
  BY <1>3 DEF RunBy
<1>5. \A over : again(over) \subseteq Names
  <2>1. Of(effects, "tick") \cup Of(effects, "poll") \cup Of(effects, "pollOnce") \subseteq Names
    BY DEF EffectsOK, HandlersIn
  <2> QED
    BY <1>3, <2>1 DEF SetAgain
<1>6. set \subseteq ticking
  BY DEF StillSet, Cleared
<1>2a. within \subseteq up /\ ("page" \in up => "page" \in within)
  BY WithinUp
<1>7. \A n : Life(H(n).on, within) \in {"surface", "page", "none"} /\ (Life(H(n).on, within) = "none" <=> away)
  BY <1>2, <1>2a DEF Life
<1>8. \A n : UNCHANGED H(n)
  BY DEF H
<1> HIDE DEF up, within, leaves, set, again
\* What has a life now has the right one after the step.
<1>9. ASSUME NEW d, Shape(d), d.life \in {"surface", "page", "none"},
             d.life = "none" <=> away, H(d.do).on = "page" => d.life # "page",
             NEW e, e = Kept(d, leaves, up)
      PROVE  e.do \in Names /\ LifeOK(e)'
  <2>1. /\ e.do = d.do /\ d.do \in Names
        /\ leaves => e.life = "none"
        /\ ~ leaves => e.life = IF d.life = "surface" /\ H(d.do).on \notin up THEN "page" ELSE d.life
    BY <1>1, <1>9, KeptLife, Relabelled
  <2> QED
    BY <1>1, <1>2, <1>8, <1>9, <2>1 DEF LifeOK
<1>10. \A n : H(n).on = "page" => Life(H(n).on, within) # "page"
  BY <1>2, <1>2a DEF Life
<1>11. ASSUME NEW e \in calls' PROVE e.do \in Names /\ LifeOK(e)'
  <2>1. PICK qs : calls' = {Kept(d, leaves, up) :
                              d \in pending \cup Sent(RunBy(effects, c), within, qs, pending, server')}
    BY <1>1a
  <2>2. PICK d \in pending \cup Sent(RunBy(effects, c), within, qs, pending, server') : e = Kept(d, leaves, up)
    BY <1>11, <2>1
  <2>3. CASE d \in pending
    BY <1>9, <2>2, <2>3 DEF LifeOK
  <2>4. CASE d \in Sent(RunBy(effects, c), within, qs, pending, server')
    <3>1. Shape(d) /\ d.life = Life(H(d.do).on, within)
      BY <1>4, <2>4, SentLife
    <3>2. d.life \in {"surface", "page", "none"} /\ (d.life = "none" <=> away) /\ (H(d.do).on = "page" => d.life # "page")
      BY <1>7, <1>10, <3>1
    <3> QED
      BY <1>9, <2>2, <3>1, <3>2
  <2> QED
    BY <2>3, <2>4
<1>12. ASSUME NEW e \in timers' PROVE e.do \in Names /\ LifeOK(e)'
  <2>1. PICK over : timers' = {Kept(t, leaves, up) : t \in set \cup Set(again(over), within, set)}
    BY <1>1b
  <2>2. PICK t \in set \cup Set(again(over), within, set) : e = Kept(t, leaves, up)
    BY <1>12, <2>1
  <2>3. CASE t \in set
    BY <1>6, <1>9, <2>2, <2>3 DEF LifeOK
  <2>4. CASE t \in Set(again(over), within, set)
    <3>1. Shape(t) /\ t.life = Life(H(t.do).on, within)
      BY <1>5, <2>4, SetLife
    <3>2. t.life \in {"surface", "page", "none"} /\ (t.life = "none" <=> away) /\ (H(t.do).on = "page" => t.life # "page")
      BY <1>7, <1>10, <3>1
    <3> QED
      BY <1>9, <2>2, <3>1, <3>2
  <2> QED
    BY <2>3, <2>4
<1>13. \A b \in busy' : b[1] \in open'
  <2>1. \E S : busy' = {b \in S : b[1] \in open'}
    BY <1>0, Zenon DEF Parts
  <2> QED
    BY <2>1
<1>14. /\ query' \in [Searchers -> 0..1]
       /\ DOMAIN shown' = Readers
       /\ \A n \in Readers : shown'[n] # Nothing => H(n).on \in open'
  BY EffectsShown
<1> QED
  BY <1>1, <1>2, <1>11, <1>12, <1>13, <1>14

\* Requests and timers have the shape and the life of callbacks.
LEMMA CallbacksOK == ASSUME Inv, TypeInv PROVE \A d \in calls \cup timers : Shape(d) /\ LifeOK(d)
  BY DEF Inv, TypeInv, CallsOK, TimersOK, Shape, CallShape, TimerShape

LEMMA OthersOK ==
    ASSUME Inv, TypeInv, NEW S \in {calls, timers}, NEW c
    PROVE  \A e \in Without(S, c) : Shape(e) /\ LifeOK(e)
<1>1. \A d \in S : Shape(d) /\ LifeOK(d)
  BY CallbacksOK
<1>2. \A e \in Without(S, c) : \E d \in S : Shape(e) /\ e.do = d.do /\ e.life = d.life
  BY <1>1, WithoutLife
<1> QED
  BY <1>1, <1>2 DEF LifeOK

LEMMA RestLife ==
    ASSUME CallsOK, NEW c, NEW behind \in BOOLEAN
    PROVE  \A e \in Rest(c, behind) :
              \E d \in calls \ {c} : e = Goes(d, c, behind) /\ Shape(e) /\ e.do = d.do /\ e.life = d.life
<1> TAKE e \in Rest(c, behind)
<1>1. PICK d \in calls \ {c} : e = Goes(d, c, behind)
  BY RestIs DEF Remaining
<1>2. CallShape(d)
  BY DEF CallsOK, CallShape
<1>3. CallShape(e) /\ e.do = d.do /\ e.life = d.life
  BY <1>1, <1>2, GoesSame
<1> QED
  BY <1>1, <1>3 DEF Shape

LEMMA RestOK ==
    ASSUME Inv, TypeInv, NEW c, NEW behind \in BOOLEAN
    PROVE  \A e \in Rest(c, behind) : Shape(e) /\ LifeOK(e)
<1>1. \A d \in calls : LifeOK(d)
  BY CallbacksOK
<1>2. \A e \in Rest(c, behind) : \E d \in calls : Shape(e) /\ e.do = d.do /\ e.life = d.life
  BY RestLife DEF Inv
<1> QED
  BY <1>1, <1>2 DEF LifeOK

\* What a callback leaves of TypeInv, when it leaves the counters to the action.
LEMMA CallbackTyped ==
    ASSUME Inv, TypeInv, UNCHANGED <<page, ended>>,
           server' \in [Collections -> Nat], clicks' \in 0..MaxClicks[page.name], faults' \in 0..MaxFault,
           NEW effects, NEW c, NEW pending, NEW ticking,
           EffectsOK(effects, H(c.do).on), "page" \notin Of(effects, "close"),
           away => c.life = "none",
           \A d \in pending : Shape(d) /\ LifeOK(d),
           \A t \in ticking : Shape(t) /\ LifeOK(t),
           Effects(effects, c, pending, ticking)
    PROVE  TypeInv'
<1>1. /\ IsOpened
      /\ away \in BOOLEAN /\ open \subseteq Surfaces /\ ("page" \in open <=> ~ away) /\ (away => open = {})
      /\ query \in [Searchers -> 0..1]
  BY DEF Inv, TypeInv, TypeOK
<1>2. /\ away' \in BOOLEAN /\ open' \subseteq Surfaces
      /\ "page" \in open' <=> ~ away'
      /\ away' => open' = {}
      /\ query' \in [Searchers -> 0..1]
      /\ \A b \in busy' : b[1] \in open'
      /\ DOMAIN shown' = Readers
      /\ \A n \in Readers : shown'[n] # Nothing => H(n).on \in open'
      /\ \A d \in calls' \cup timers' : d.do \in Names /\ LifeOK(d)'
  BY <1>1, EffectsTyped
<1>3. page.name \in DOMAIN Pages /\ ended \in BOOLEAN
  BY DEF TypeInv, TypeOK
<1>4. /\ UNCHANGED <<page.name, Surfaces, Names, Searchers, Readers, Collections, MaxClicks[page.name]>>
      /\ \A n : UNCHANGED H(n)
      /\ UNCHANGED Nothing
  BY DEF Surfaces, Names, Searchers, Readers, Collections, H, Nothing
<1>5. \A d \in calls' \cup timers' :
         /\ d.do \in Names
         /\ d.life = "surface" => H(d.do).on \in open'
         /\ d.life = "none" => away'
  BY <1>2, <1>4 DEF LifeOK
<1>6. TypeOK'
  BY <1>2, <1>3, <1>4, <1>5 DEF TypeOK
<1> QED
  BY <1>2, <1>6 DEF TypeInv

\* The names and bounds a step counts with.
LEMMA CountersOK ==
    ASSUME Inv, TypeInv
    PROVE  /\ IsOpened /\ page.name \in DOMAIN Pages
           /\ MaxClicks[page.name] \in Nat /\ MaxFault \in Nat
           /\ clicks \in 0..MaxClicks[page.name] /\ faults \in 0..MaxFault
           /\ server \in [Collections -> Nat]
           /\ \A n : "page" \notin Of(Run({n}), "close")
           /\ "page" \notin Of({}, "close")
<1>1. IsOpened /\ page.name \in DOMAIN Pages
  BY SoundSurfaces DEF Inv
<1>2. \A n : Of(Run({n}), "close") = {}
  BY OfRun, Zenon
<1>3. Of({}, "close") = {}
  BY OfNothing
<1> QED
  BY <1>1, <1>2, <1>3, BoundAssumption DEF TypeInv, TypeOK

LEMMA ClickTyped == ASSUME Inv, TypeInv, NEW o \in page.offers, Click(o) PROVE TypeInv'
<1> DEFINE effects == IF H(o.do).kind = "act" THEN H(o.do).ok ELSE Run({o.do})
           c == Now(o.do, "surface")
<1>1. IsOpened /\ o.do \in Names
  BY SoundPage DEF Inv
<1>2. c.do = o.do
  BY DEF Now
<1>3. UNCHANGED <<page, server, ended, faults>> /\ Effects(effects, c, calls, timers)
  BY DEF Click
<1>4. EffectsOK(effects, H(o.do).on)
  BY <1>1, SoundPage, RunOK
<1>5. "page" \notin Of(effects, "close")
  BY <1>1, SoundSurfaces, CountersOK
<1>6. ~ away
  <2>1. o.on \in open
    BY DEF Click, Top
  <2> QED
    BY <2>1 DEF TypeInv
<1>7. clicks' \in 0..MaxClicks[page.name]
  BY CountersOK DEF Click
<1>8. faults' \in 0..MaxFault /\ server' \in [Collections -> Nat]
  BY <1>3, CountersOK
<1> HIDE DEF effects, c
<1> QED
  BY <1>2, <1>3, <1>4, <1>5, <1>6, <1>7, <1>8, CallbacksOK, CallbackTyped

LEMMA AnswerTyped ==
    ASSUME Inv, TypeInv, NEW c \in calls, NEW effects, NEW behind \in BOOLEAN, UNCHANGED <<page, ended>>,
           server' \in [Collections -> Nat], clicks' \in 0..MaxClicks[page.name], faults' \in 0..MaxFault,
           effects \in {H(c.do).ok, H(c.do).err, {}},
           Effects(effects, c, Rest(c, behind), timers)
    PROVE  TypeInv'
<1>1. IsOpened /\ c.do \in Names
  BY DEF Inv, CallsOK
<1>2. EffectsOK(effects, H(c.do).on) /\ "page" \notin Of(effects, "close")
  BY <1>1, SoundPage, NothingOK, SoundSurfaces, CountersOK
<1>3. away => c.life = "none"
  BY DEF TypeInv, LifeOK
<1>4. /\ \A d \in Rest(c, behind) : Shape(d) /\ LifeOK(d)
      /\ \A t \in timers : Shape(t) /\ LifeOK(t)
  BY RestOK, CallbacksOK
<1> DEFINE pending == Rest(c, behind)
<1>5. Effects(effects, c, pending, timers) /\ \A d \in pending : Shape(d) /\ LifeOK(d)
  BY <1>4
<1> HIDE DEF pending
<1> QED
  BY <1>2, <1>3, <1>4, <1>5, CallbackTyped

LEMMA FireTyped == ASSUME Inv, TypeInv, NEW t \in timers, Fire(t) PROVE TypeInv'
<1> DEFINE effects == IF t.do \in Intervals THEN H(t.do).ok \cup Tick(t.do) ELSE Run({t.do})
           c == Now(t.do, t.life)
<1>1. IsOpened /\ t.do \in Names
  BY DEF Inv, TimersOK
<1>2. c.do = t.do /\ c.life = t.life
  BY DEF Now
<1>3. UNCHANGED <<page, server, ended, clicks, faults>> /\ Effects(effects, c, calls, Without(timers, t))
  BY DEF Fire
<1>4. EffectsOK(effects, H(t.do).on)
  BY <1>1, SoundPage, TickOK, RunOK
<1>5. "page" \notin Of(effects, "close")
  <2>1. Of(H(t.do).ok \cup Tick(t.do), "close")
          = Of(H(t.do).ok, "close") \cup IF "close" = "tick" THEN {t.do} ELSE {}
    BY OfTick, Zenon
  <2> QED
    BY <1>1, <2>1, SoundSurfaces, CountersOK
<1>6. away => c.life = "none"
  BY <1>2 DEF TypeInv, LifeOK
<1>7. /\ \A d \in calls : Shape(d) /\ LifeOK(d)
      /\ \A u \in Without(timers, t) : Shape(u) /\ LifeOK(u)
  BY OthersOK, CallbacksOK
<1>8. /\ clicks' \in 0..MaxClicks[page.name] /\ faults' \in 0..MaxFault
      /\ server' \in [Collections -> Nat]
  BY <1>3, CountersOK
<1> HIDE DEF effects, c
<1> QED
  BY <1>2, <1>3, <1>4, <1>5, <1>6, <1>7, <1>8, CallbackTyped

LEMMA GoAwayTyped == ASSUME Inv, TypeInv, GoAway PROVE TypeInv'
<1>1. /\ UNCHANGED <<page, Surfaces, Names, Searchers, Readers, Collections, server, ended, faults>>
      /\ \A n : UNCHANGED H(n)
  BY DEF GoAway, Surfaces, Names, Searchers, Readers, Collections, H
<1>2. away' = TRUE /\ open' = {} /\ busy' = {} /\ query' = [n \in Searchers |-> 0]
      /\ shown' = [n \in Readers |-> Nothing]
  BY DEF GoAway
<1>3. ASSUME NEW e \in calls' \cup timers' PROVE e.do \in Names /\ e.life = "none"
  <2>1. PICK d \in calls \cup timers : e = [d EXCEPT !.life = "none"]
    BY <1>3 DEF GoAway, Cleared
  <2> QED
    BY <2>1, CallbacksOK, Relabelled
<1>4. clicks' \in 0..MaxClicks[page.name]
  BY CountersOK DEF GoAway
<1>5. TypeOK'
  BY <1>1, <1>2, <1>3, <1>4, CountersOK DEF TypeInv, TypeOK
<1> QED
  BY <1>1, <1>2, <1>3, <1>5 DEF TypeInv, LifeOK

LEMMA InitTyped == Init => TypeInv
<1> SUFFICES ASSUME Init PROVE TypeInv
  OBVIOUS
<1>1. Inv
  BY InitInv
<1>2. /\ away = FALSE /\ open = {"page"} /\ query = [n \in Searchers |-> 0]
      /\ shown = [n \in Readers |-> Nothing] /\ server = [r \in Collections |-> 0]
      /\ ended = FALSE /\ clicks = 0 /\ faults = 0
  BY DEF Init
<1>3. /\ page.name \in DOMAIN Pages /\ "page" \in Surfaces /\ page.mount["page"] \subseteq Names
      /\ MaxClicks[page.name] \in Nat /\ MaxFault \in Nat
  BY <1>1, SoundPage, SoundSurfaces, BoundAssumption DEF Inv
<1>4. ASSUME NEW d \in calls \cup timers PROVE d.do \in Names /\ d.life = Life(H(d.do).on, {"page"})
  <2>1. CASE d \in calls
    <3>1. d \in Sent(page.mount["page"] \ Intervals, {"page"}, query, {}, server)
      BY <2>1 DEF Init
    <3>2. page.mount["page"] \ Intervals \in SUBSET Names
      BY <1>3
    <3> QED
      BY <3>1, <3>2, SentLife
  <2>2. CASE d \in timers
    <3>1. d \in Set(page.mount["page"] \cap Intervals, {"page"}, {})
      BY <2>2 DEF Init
    <3>2. page.mount["page"] \cap Intervals \in SUBSET Names
      BY <1>3
    <3> QED
      BY <3>1, <3>2, SetLife
  <2> QED
    BY <2>1, <2>2
<1>5. \A d \in calls \cup timers : LifeOK(d)
  BY <1>2, <1>4 DEF Life, LifeOK
<1>6. \A b \in busy : b[1] = "page"
  BY DEF Init, Spinning
<1>7. /\ query \in [Searchers -> 0..1] /\ server \in [Collections -> Nat]
      /\ DOMAIN shown = Readers /\ \A n \in Readers : shown[n] = Nothing
  BY <1>2
<1>8. clicks \in 0..MaxClicks[page.name] /\ faults \in 0..MaxFault
  BY <1>2, <1>3
<1>9. TypeOK
  BY <1>2, <1>3, <1>4, <1>5, <1>6, <1>7, <1>8 DEF TypeOK, LifeOK
<1> QED
  BY <1>2, <1>5, <1>9 DEF TypeInv

LEMMA NextTyped == Inv /\ TypeInv /\ [Next]_vars => TypeInv'
<1> SUFFICES ASSUME Inv, TypeInv, [Next]_vars PROVE TypeInv'
  OBVIOUS
<1>1. ASSUME NEW o \in page.offers, Click(o) PROVE TypeInv'
  BY <1>1, ClickTyped
<1>2. CASE GoAway
  BY <1>2, GoAwayTyped
<1>3. ASSUME NEW c \in calls, Answer(c) PROVE TypeInv'
  <2> DEFINE effects == IF Dropped(c) THEN {} ELSE H(c.do).ok
  <2>1. UNCHANGED <<page, ended, clicks, faults>> /\ Effects(effects, c, Rest(c, TRUE), timers)
    BY <1>3 DEF Answer, Rest
  <2>2. effects \in {H(c.do).ok, H(c.do).err, {}}
    OBVIOUS
  <2>3. server' \in [Collections -> Nat]
    BY <1>3, CountersOK DEF Answer
  <2>4. clicks' \in 0..MaxClicks[page.name] /\ faults' \in 0..MaxFault
    BY <2>1, CountersOK
  <2> HIDE DEF effects
  <2> QED
    BY <2>1, <2>2, <2>3, <2>4, AnswerTyped
<1>4. ASSUME NEW c \in calls, Fail(c) PROVE TypeInv'
  <2> DEFINE effects == IF Dropped(c) THEN {} ELSE H(c.do).err
  <2>1. UNCHANGED <<page, server, ended, clicks>> /\ Effects(effects, c, Rest(c, FALSE), timers)
    BY <1>4 DEF Fail, Rest
  <2>2. effects \in {H(c.do).ok, H(c.do).err, {}}
    OBVIOUS
  <2>3. /\ server' \in [Collections -> Nat] /\ clicks' \in 0..MaxClicks[page.name]
        /\ faults' \in 0..MaxFault
    BY <1>4, <2>1, CountersOK DEF Fail
  <2> HIDE DEF effects
  <2> QED
    BY <2>1, <2>2, <2>3, AnswerTyped
<1>5. ASSUME NEW t \in timers, Fire(t) PROVE TypeInv'
  BY <1>5, FireTyped
<1>6. CASE End \/ UNCHANGED vars
  <2>1. /\ UNCHANGED <<page, away, open, query, busy, shown, server, calls, timers, clicks, faults>>
        /\ ended' \in BOOLEAN
    BY <1>6 DEF End, vars, TypeInv, TypeOK
  <2>2. /\ UNCHANGED <<Surfaces, Names, Searchers, Readers, Collections, Nothing>>
        /\ \A n : UNCHANGED H(n)
    BY <2>1 DEF H, Names, Surfaces, Searchers, Readers, Collections, Nothing
  <2>3. TypeOK'
    BY <2>1, <2>2 DEF TypeInv, TypeOK
  <2> QED
    BY <2>1, <2>2, <2>3 DEF TypeInv, LifeOK
<1> QED
  BY <1>1, <1>2, <1>3, <1>4, <1>5, <1>6 DEF Next

\* On any pages that name the handlers and surfaces they have and do not close themselves:
\* whatever the user opens, closes and leaves, and in whatever order answers come and timers
\* fire, spinners and what is shown belong to surfaces that are mounted, a callback that
\* would set the state of a surface belongs to one that is mounted, and only the callbacks
\* of a page that was left belong to none.
THEOREM TypeCorrect == Spec => []TypeOK
<1>1. Init => Inv /\ TypeInv
  BY InitInv, InitTyped
<1>2. Inv /\ TypeInv /\ [Next]_vars => Inv' /\ TypeInv'
  BY NextInv, NextTyped
<1>3. TypeInv => TypeOK
  BY DEF TypeInv
<1> QED
  BY <1>1, <1>2, <1>3, PTL DEF Spec

-----------------------------------------------------------------------------
(* One request at a time *)

\* The request c is one that the spinner f of the surface s holds back others for.
Out(c, s, f) == c.life = "surface" /\ c.do \in Senders(page.handlers, s, f)

\* At most one of them is under way, its spinner is on while it is, and while the dialog
\* that a failed one opened is there, the spinner is on and none is under way.
OneOut(s, f, r) ==
    /\ \A c, d \in calls : Out(c, s, f) /\ Out(d, s, f) => c = d
    /\ \A c \in calls : Out(c, s, f) => <<s, f>> \in busy
    /\ Retries(page.handlers, s, f) # {} /\ r \in open =>
          <<s, f>> \in busy /\ \A c \in calls : ~ Out(c, s, f)
    /\ \A c \in calls : c.do \notin Retries(page.handlers, s, f)

\* This holds of every spinner that lets one request through, and timers call only what
\* timers are set for.
SubmitInv ==
    /\ \A t \in timers : t.do \in page.timed
    /\ \A s, f, r : LetsOneThrough(page, s, f, r) => OneOut(s, f, r)

\* What is told of the page that is open.
LEMMA OpenedPage ==
    ASSUME IsOpened
    PROVE  /\ page.timed = TimedOf(page.handlers)
           /\ Guarded = GuardedOf(page.handlers, page.offers)
           /\ \A n \in Guarded :
                 \/ <<page.name, n>> \in KnownTwice
                 \/ \E f \in H(n).flags : \E r : LetsOneThrough(page, H(n).on, f, r)
<1>0. PICK p \in DOMAIN Pages : page = Opened(p)
  BY DEF IsOpened
<1>1. /\ page.name = p
      /\ page.handlers = Pages[p].handlers
      /\ page.mount = Pages[p].mount
      /\ page.offers = Pages[p].offers
      /\ page.timed = TimedOf(Pages[p].handlers)
      /\ page.guarded = GuardedOf(Pages[p].handlers, Pages[p].offers)
  BY <1>0 DEF Opened
<1>2. BlocksItsButtons(p)
  BY SubmitAssumption
<1>3. \A s, f, r : LetsOneThrough(Pages[p], s, f, r) <=> LetsOneThrough(page, s, f, r)
  BY <1>1 DEF LetsOneThrough, OnlyClicked
<1>4. \A n \in Guarded :
         \/ <<page.name, n>> \in KnownTwice
         \/ \E f \in H(n).flags : \E r : LetsOneThrough(page, H(n).on, f, r)
  BY <1>1, <1>2, <1>3 DEF BlocksItsButtons, Guarded, H
<1> QED
  BY <1>1, <1>4 DEF Guarded

\* What LetsOneThrough says of the senders s, and of the retries.
LEMMA SendersAre ==
    ASSUME NEW s, NEW f, NEW r, LetsOneThrough(page, s, f, r), IsOpened,
           NEW m \in Senders(page.handlers, s, f)
    PROVE  /\ m \in Names /\ H(m).on = s /\ H(m).kind # "act" /\ H(m).kind # "interval"
           /\ f \in H(m).flags
           /\ m \notin page.timed
           /\ \A t \in Surfaces : m \notin page.mount[t]
           /\ \A o \in page.offers : o.do = m => o.on = s /\ f \in o.unless
           /\ m \notin Retries(page.handlers, s, f)
<1>1. /\ m \in Names /\ H(m).on = s /\ H(m).kind # "act"
      /\ m \notin Retries(page.handlers, s, f)
  BY DEF Senders, Retries, OfKind, Names, H
<1>2. /\ f \in page.handlers[m].flags
      /\ page.handlers[m].kind # "interval"
      /\ OnlyClicked(page, m)
      /\ \A o \in page.offers : o.do = m => o.on = s /\ f \in o.unless
  BY Zenon DEF LetsOneThrough
<1>3. page.timed = TimedOf(page.handlers)
  BY OpenedPage
<1> QED
  BY <1>1, <1>2, <1>3 DEF OnlyClicked, Surfaces, H

LEMMA RetriesAre ==
    ASSUME NEW s, NEW f, NEW r, LetsOneThrough(page, s, f, r), IsOpened,
           NEW k \in Retries(page.handlers, s, f)
    PROVE  /\ k \in Names /\ H(k).kind = "act"
           /\ k \notin page.timed
           /\ \A t \in Surfaces : k \notin page.mount[t]
           /\ \A o \in page.offers : o.do = k => o.on = r
           /\ r \in Of(H(k).ok, "close")
           /\ Of(H(k).ok, "runSilently") \cap Senders(page.handlers, s, f) = {}
           /\ \A m, n \in CalledIn(H(k).ok) \cap Senders(page.handlers, s, f) : m = n
           /\ s = "page" /\ r # "page"
<1>1. k \in Names /\ H(k).kind = "act"
  BY DEF Retries, OfKind, Names, H
<1>2. /\ OnlyClicked(page, k)
      /\ \A o \in page.offers : o.do = k => o.on = r
      /\ r \in Of(page.handlers[k].ok, "close")
      /\ Of(page.handlers[k].ok, "runSilently") \cap Senders(page.handlers, s, f) = {}
      /\ \A m, n \in CalledIn(page.handlers[k].ok) \cap Senders(page.handlers, s, f) : m = n
  BY Zenon DEF LetsOneThrough
<1>3. Retries(page.handlers, s, f) # {}
  OBVIOUS
<1>3a. s = "page" /\ r # "page"
  BY <1>3, Zenon DEF LetsOneThrough
<1>4. page.timed = TimedOf(page.handlers)
  BY OpenedPage
<1> QED
  BY <1>1, <1>2, <1>3a, <1>4 DEF OnlyClicked, Surfaces, H

\* What the handler k may do: the effects of an answer, good or bad.
LEMMA HandlersAre ==
    ASSUME NEW s, NEW f, NEW r, LetsOneThrough(page, s, f, r), NEW k \in Names,
           NEW effects \in {H(k).ok, H(k).err}
    PROVE  /\ k \notin Retries(page.handlers, s, f) => CalledIn(effects) \cap Senders(page.handlers, s, f) = {}
           /\ CalledIn(effects) \cap Retries(page.handlers, s, f) = {}
           /\ Retries(page.handlers, s, f) # {} /\ r \in Of(effects, "open") =>
                 k \in Senders(page.handlers, s, f) /\ f \notin Of(effects, "clear")
           /\ H(k).on = s /\ f \in Of(effects, "clear") =>
                 \/ k \in Senders(page.handlers, s, f)
                 \/ k \in Retries(page.handlers, s, f)
                 \/ H(k).kind = "act" /\ effects # H(k).ok
<1> DEFINE S == Senders(page.handlers, s, f)
           R == Retries(page.handlers, s, f)
<1>1. /\ k \notin R => CalledIn(page.handlers[k].ok \cup page.handlers[k].err) \cap S = {}
      /\ CalledIn(page.handlers[k].ok \cup page.handlers[k].err) \cap R = {}
  BY Zenon DEF LetsOneThrough, Names
<1>2. CalledIn(effects) \subseteq CalledIn(page.handlers[k].ok \cup page.handlers[k].err)
  BY DEF CalledIn, Of, H
<1>3. R # {} => (r \in Of(effects, "open") => k \in S /\ f \notin Of(effects, "clear"))
  <2>1. /\ effects \in {page.handlers[k].ok, page.handlers[k].err}
        /\ k \in DOMAIN page.handlers
    BY DEF Names, H
  <2>2. R # {} => \A j \in DOMAIN page.handlers : \A x \in {page.handlers[j].ok, page.handlers[j].err} :
                     r \in Of(x, "open") => j \in S /\ f \notin Of(x, "clear")
    BY Zenon DEF LetsOneThrough
  <2> QED
    BY <2>1, <2>2, Zenon
<1>4. H(k).on = s /\ f \in Of(effects, "clear") => k \in S \/ k \in R \/ (H(k).kind = "act" /\ effects # H(k).ok)
  <2>1. Of(effects, "clear") \subseteq Of(H(k).ok \cup H(k).err, "clear")
    BY DEF Of
  <2>2. H(k).on = s /\ f \in Of(effects, "clear") /\ H(k).kind # "act" => k \in S
    BY <2>1 DEF Senders, Names, H
  <2>3. H(k).on = s /\ f \in Of(effects, "clear") /\ H(k).kind = "act" /\ effects = H(k).ok => k \in R
    BY DEF Retries, OfKind, Names, H
  <2> QED
    BY <2>2, <2>3
<1> QED
  BY <1>1, <1>2, <1>3, <1>4

\* The handlers of the page that a callback calls without being told to are those that a
\* surface calls when it appears.
LEMMA CalledAre ==
    ASSUME IsOpened, NEW effects, NEW c, NEW on, EffectsOK(effects, on), NEW n \in CalledBy(effects, c)
    PROVE  /\ n \in Names
           /\ n \in CalledIn(effects) \/ \E s \in Surfaces : n \in page.mount[s]
<1>1. CASE n \in Of(effects, "run") \cup Of(effects, "runSilently") \cup Of(effects, "runPlain")
  BY <1>1 DEF CalledIn, EffectsOK, HandlersIn
<1>2. CASE n \in UNION {page.mount[s] : s \in OpenedBy(effects, c)}
  BY <1>2, SoundPage DEF OpenedBy, EffectsOK
<1> QED
  BY <1>1, <1>2 DEF CalledBy

\* A callback that calls one of the senders at most, and only when none of their requests is
\* under way and the dialog is gone, keeps to one at a time.
LEMMA OneOutKept ==
    ASSUME IsOpened, UNCHANGED page, TypeInv',
           NEW s, NEW f, NEW r, LetsOneThrough(page, s, f, r),
           NEW effects, NEW c, NEW pending, NEW ticking,
           EffectsOK(effects, H(c.do).on),
           \A d \in pending : Shape(d) /\ d.do \notin Retries(page.handlers, s, f),
           CalledIn(effects) \cap Retries(page.handlers, s, f) = {},
           \A d, e \in pending : Out(d, s, f) /\ Out(e, s, f) => d = e,
           \A d \in pending : Out(d, s, f) => <<s, f>> \in busy \ SwitchedOff(effects, c),
           \A m, n \in CalledIn(effects) \cap Senders(page.handlers, s, f) :
               m = n /\ m \notin Of(effects, "runSilently") /\ \A d \in pending : ~ Out(d, s, f),
           Retries(page.handlers, s, f) # {} /\ r \in UpAfter(effects, c) =>
               /\ <<s, f>> \in busy \ SwitchedOff(effects, c)
               /\ \A d \in pending : ~ Out(d, s, f)
               /\ CalledIn(effects) \cap Senders(page.handlers, s, f) = {},
           Effects(effects, c, pending, ticking)
    PROVE  OneOut(s, f, r)'
<1> DEFINE S == Senders(page.handlers, s, f)
           R == Retries(page.handlers, s, f)
           up == UpAfter(effects, c)
           within == WithinOf(effects, c)
           leaves == Leaves(effects, c)
           runs == RunBy(effects, c)
<1>0. Parts(effects, c, pending, ticking)
  BY EffectsParts
<1>1. PICK qs : calls' = {Kept(d, leaves, up) : d \in pending \cup Sent(runs, within, qs, pending, server')}
  BY <1>0, Zenon DEF Parts
<1>2. leaves \in BOOLEAN /\ open' = IF leaves THEN {} ELSE up
  BY <1>0 DEF Parts, Leaves
<1>3. \A b : b \in (busy \ SwitchedOff(effects, c)) \cup Spinning(runs \ Of(effects, "runSilently"), within)
              /\ b[1] \in open' => b \in busy'
  BY <1>0 DEF Parts
<1>4. UNCHANGED <<S, R>> /\ \A d : Out(d, s, f)' <=> Out(d, s, f)
  BY DEF Out
<1>5. /\ runs \in SUBSET Names /\ runs \cap S \subseteq CalledIn(effects) /\ runs \cap R = {}
      /\ \A m \in S : H(m).on = s /\ f \in H(m).flags
  <2>1. ASSUME NEW n \in runs
        PROVE  n \in Names /\ (n \in S => n \in CalledIn(effects)) /\ n \notin R
    <3>1. n \in CalledBy(effects, c)
      BY DEF RunBy
    <3>2. n \in Names /\ (n \in CalledIn(effects) \/ \E t \in Surfaces : n \in page.mount[t])
      BY <3>1, CalledAre
    <3> QED
      BY <3>2, SendersAre, RetriesAre
  <2>2. \A m \in S : H(m).on = s /\ f \in H(m).flags
    BY SendersAre
  <2> QED
    BY <2>1, <2>2
<1> HIDE DEF up, within, leaves, runs, S, R
\* A request of theirs that is under way after the step was before it, or is sent now.
<1>6. ASSUME NEW e \in calls'
      PROVE  /\ e.do \notin R
             /\ Out(e, s, f) => /\ ~ leaves /\ s \in up
                                /\ \/ e \in pending
                                   \/ /\ e \in Sent(runs, within, qs, pending, server')
                                      /\ e.do \in runs \cap S /\ s \in within
  <2>1. PICK d \in pending \cup Sent(runs, within, qs, pending, server') : e = Kept(d, leaves, up)
    BY <1>1, <1>6
  <2>2. /\ Shape(d) /\ d.do \notin R
        /\ d \notin pending => d.do \in runs /\ (d.life = "surface" => H(d.do).on \in within)
    <3>1. CASE d \in pending
      BY <3>1 DEF R
    <3>2. CASE d \in Sent(runs, within, qs, pending, server')
      BY <1>5, <3>2, SentLife DEF Life
    <3> QED
      BY <3>1, <3>2
  <2>3. /\ e.do = d.do
        /\ leaves => e.life = "none"
        /\ ~ leaves => e.life = IF d.life = "surface" /\ H(d.do).on \notin up THEN "page" ELSE d.life
    BY <1>2, <2>1, <2>2, KeptLife
  <2>4. ASSUME Out(e, s, f)
        PROVE  ~ leaves /\ s \in up /\ e = d /\ d.do \in S /\ d.life = "surface" /\ H(d.do).on = s
    <3>1. ~ leaves /\ d.life = "surface" /\ H(d.do).on \in up /\ d.do \in S
      BY <1>2, <2>3, <2>4 DEF Out, S
    <3>2. Outlives(d, up) = d
      BY <3>1 DEF Outlives
    <3>3. e = d
      BY <2>1, <3>1, <3>2 DEF Kept
    <3> QED
      BY <1>5, <3>1, <3>3
  <2> QED
    BY <2>1, <2>2, <2>3, <2>4
<1>7. ASSUME NEW d \in calls', NEW e \in calls', Out(d, s, f), Out(e, s, f) PROVE d = e
  <2>1. CASE d \in pending /\ e \in pending
    BY <1>7, <2>1
  <2>2. CASE d \notin pending \/ e \notin pending
    <3>1. PICK x \in {d, e} : x \in Sent(runs, within, qs, pending, server') /\ x.do \in runs \cap S
      BY <1>6, <1>7, <2>2
    <3>2. \A y \in pending : ~ Out(y, s, f)
      BY <1>5, <3>1 DEF S
    <3>3. /\ d \in Sent(runs, within, qs, pending, server') /\ d.do \in runs \cap S
          /\ e \in Sent(runs, within, qs, pending, server') /\ e.do \in runs \cap S
      BY <1>6, <1>7, <3>2
    <3>4. d.do = e.do
      BY <1>5, <3>3 DEF S
    <3> QED
      BY <3>3, <3>4, SentOnce
  <2> QED
    BY <2>1, <2>2
<1>8. ASSUME NEW e \in calls', Out(e, s, f) PROVE <<s, f>> \in busy'
  <2>1. <<s, f>>[1] \in open'
    BY <1>2, <1>6, <1>8
  <2>2. CASE e \in pending
    BY <1>3, <1>8, <2>1, <2>2
  <2>3. CASE e.do \in runs \cap S /\ s \in within
    <3>1. e.do \notin Of(effects, "runSilently") /\ H(e.do).on = s /\ f \in H(e.do).flags /\ s \in within
      BY <1>5, <1>6, <1>8, <2>3 DEF S
    <3>2. <<H(e.do).on, f>> \in Spinning(runs \ Of(effects, "runSilently"), within)
      BY <2>3, <3>1 DEF Spinning
    <3> QED
      BY <1>3, <2>1, <3>1, <3>2
  <2> QED
    BY <1>6, <1>8, <2>2, <2>3
<1>9. ASSUME R # {}, r \in open' PROVE <<s, f>> \in busy' /\ \A e \in calls' : ~ Out(e, s, f)
  <2>1. r \in up
    BY <1>2, <1>9
  <2>2. /\ <<s, f>> \in busy \ SwitchedOff(effects, c)
        /\ \A d \in pending : ~ Out(d, s, f)
        /\ CalledIn(effects) \cap S = {}
    BY <1>9, <2>1 DEF up, R, S
  <2>3. s = "page"
    BY <1>9, RetriesAre DEF R
  <2>4. "page" \in open'
    BY <1>9 DEF TypeInv, TypeOK
  <2>5. <<s, f>>[1] = s
    OBVIOUS
  <2> QED
    BY <1>3, <1>5, <1>6, <2>2, <2>3, <2>4, <2>5
<1> QED
  BY <1>4, <1>6, <1>7, <1>8, <1>9 DEF OneOut, S, R

\* What the callback c of any handler does that is not offered in the dialog alone: what it
\* calls sends nothing, and only the request that is answered switches the spinner off.
LEMMA OthersOneOut ==
    ASSUME Inv, TypeInv, TypeInv', UNCHANGED page,
           NEW s, NEW f, NEW r, LetsOneThrough(page, s, f, r), OneOut(s, f, r),
           NEW effects, NEW c, NEW pending, NEW ticking,
           c.do \in Names, c.do \notin Retries(page.handlers, s, f),
           c.life \in {"surface", "page", "none"}, H(c.do).on = "page" => c.life # "page",
           NEW behind \in BOOLEAN, pending \in {calls, Rest(c, behind)},
           Out(c, s, f) => c \in calls /\ pending = Rest(c, behind),
           EffectsOK(effects, H(c.do).on),
           CalledIn(effects) \cap (Senders(page.handlers, s, f) \cup Retries(page.handlers, s, f)) = {},
           NEW from \in {H(c.do).ok, H(c.do).err}, H(c.do).kind = "act" => from = H(c.do).ok,
           \A kind \in {"open", "clear"} : Of(effects, kind) \in {Of(from, kind), {}},
           Effects(effects, c, pending, ticking)
    PROVE  OneOut(s, f, r)'
<1> DEFINE S == Senders(page.handlers, s, f)
           R == Retries(page.handlers, s, f)
<1>1. IsOpened
  BY DEF Inv
<1>2. \A d \in calls : Shape(d)
  BY CallbacksOK
\* The requests that remain are those that were there.
<1>3. \A e \in pending : \E d \in calls :
         /\ Shape(e) /\ e.do = d.do /\ e.life = d.life
         /\ e = d \/ e = Goes(d, c, behind)
         /\ pending = Rest(c, behind) => d # c /\ e = Goes(d, c, behind)
  <2>1. CASE pending = Rest(c, behind)
    BY <2>1, RestLife DEF Inv
  <2>2. CASE pending # Rest(c, behind)
    BY <1>2, <2>2
  <2> QED
    BY <2>1, <2>2
<1>4. \A e \in pending : \E d \in calls : Out(e, s, f) => Out(d, s, f)
  BY <1>3 DEF Out
<1>5. \A d \in pending : Shape(d) /\ d.do \notin R
  BY <1>3 DEF OneOut
<1>6. Out(c, s, f) => \A d \in pending : ~ Out(d, s, f)
  BY <1>3 DEF OneOut, Out
<1>7. ASSUME NEW d \in pending, NEW e \in pending, Out(d, s, f), Out(e, s, f) PROVE d = e
  <2>1. PICK x \in calls : /\ Out(x, s, f)
                           /\ pending = Rest(c, behind) => d = Goes(x, c, behind)
                           /\ pending # Rest(c, behind) => d = x
    <3>1. CASE pending = Rest(c, behind)
      BY <1>3, <1>7, <3>1 DEF Out
    <3>2. CASE pending # Rest(c, behind)
      BY <1>7, <3>2
    <3> QED
      BY <3>1, <3>2
  <2>2. PICK y \in calls : /\ Out(y, s, f)
                           /\ pending = Rest(c, behind) => e = Goes(y, c, behind)
                           /\ pending # Rest(c, behind) => e = y
    <3>1. CASE pending = Rest(c, behind)
      BY <1>3, <1>7, <3>1 DEF Out
    <3>2. CASE pending # Rest(c, behind)
      BY <1>7, <3>2
    <3> QED
      BY <3>1, <3>2
  <2>3. x = y
    BY <2>1, <2>2 DEF OneOut
  <2> QED
    BY <2>1, <2>2, <2>3
<1>8. /\ R # {} /\ r \in Of(from, "open") => c.do \in S /\ f \notin Of(from, "clear")
      /\ H(c.do).on = s /\ f \in Of(from, "clear") => c.do \in S
  BY HandlersAre
\* The spinner is only switched off by the answer to a request of theirs.
<1>9. <<s, f>> \in SwitchedOff(effects, c) => Out(c, s, f) /\ f \in Of(effects, "clear")
  <2>1. <<s, f>> \in SwitchedOff(effects, c) =>
          c.life = "surface" /\ H(c.do).on = s /\ f \in Of(effects, "clear")
    BY DEF SwitchedOff
  <2> QED
    BY <1>8, <2>1 DEF Out
<1>10. \A d \in pending : Out(d, s, f) => <<s, f>> \in busy \ SwitchedOff(effects, c)
  BY <1>4, <1>6, <1>9 DEF OneOut
<1>11. ASSUME R # {}, r \in UpAfter(effects, c)
       PROVE  <<s, f>> \in busy \ SwitchedOff(effects, c) /\ \A d \in pending : ~ Out(d, s, f)
  <2>1. CASE r \in open
    <3>1. <<s, f>> \in busy /\ \A d \in calls : ~ Out(d, s, f)
      BY <1>11, <2>1 DEF OneOut
    <3>2. ~ Out(c, s, f)
      BY <3>1
    <3> QED
      BY <1>4, <1>9, <3>1, <3>2
  <2>2. CASE r \notin open
    <3>1. c.life # "none" /\ r \in Of(effects, "open")
      BY <1>11, <2>2 DEF UpAfter, OpenedBy
    <3>2. c.do \in S /\ f \notin Of(effects, "clear")
      BY <1>8, <1>11, <3>1
    <3>3. s = "page" /\ H(c.do).on = s
      BY <1>1, <1>11, <3>2, RetriesAre, SendersAre
    <3>4. Out(c, s, f)
      BY <3>1, <3>2, <3>3 DEF Out
    <3> QED
      BY <1>6, <1>9, <3>2, <3>4 DEF OneOut
  <2> QED
    BY <2>1, <2>2
<1>12. CalledIn(effects) \cap S = {} /\ CalledIn(effects) \cap R = {}
  OBVIOUS
<1> QED
  BY <1>1, <1>5, <1>7, <1>10, <1>11, <1>12, OneOutKept

\* Timers are set for what timers call.
LEMMA TimedAre ==
    ASSUME IsOpened
    PROVE  /\ Intervals \subseteq page.timed /\ page.timed = TimedOf(page.handlers)
           /\ \A n \in Names : \A kind \in {"tick", "poll", "pollOnce"} :
                 Of(H(n).ok, kind) \subseteq page.timed /\ Of(H(n).err, kind) \subseteq page.timed
<1>0. PICK p \in DOMAIN Pages : page = Opened(p)
  BY DEF IsOpened
<1>1. page.timed = TimedOf(page.handlers) /\ Intervals = OfKind(page.handlers, "interval")
  BY <1>0 DEF Opened, Intervals
<1>2. ASSUME NEW n \in Names, NEW kind \in {"tick", "poll", "pollOnce"}
      PROVE  Of(H(n).ok, kind) \subseteq page.timed /\ Of(H(n).err, kind) \subseteq page.timed
  <2>1. Of(page.handlers[n].ok \cup page.handlers[n].err, kind) \subseteq page.timed
    BY <1>1 DEF TimedOf, Names
  <2> QED
    BY <2>1 DEF H, Of
<1> QED
  BY <1>1, <1>2 DEF TimedOf

LEMMA TimersTimed ==
    ASSUME IsOpened, UNCHANGED page, NEW effects, NEW c, NEW pending, NEW ticking,
           EffectsOK(effects, H(c.do).on),
           \A kind \in {"tick", "poll", "pollOnce"} : Of(effects, kind) \subseteq page.timed,
           \A t \in ticking : Shape(t) /\ t.do \in page.timed,
           Effects(effects, c, pending, ticking)
    PROVE  \A t \in timers' : t.do \in page.timed
<1> DEFINE set == StillSet(effects, c, ticking)
           again(over) == SetAgain(effects, c, ticking, over)
           up == UpAfter(effects, c)
           within == WithinOf(effects, c)
           leaves == Leaves(effects, c)
<1>0. Parts(effects, c, pending, ticking)
  BY EffectsParts
<1>1. PICK over : timers' = {Kept(t, leaves, up) : t \in set \cup Set(again(over), within, set)}
  BY <1>0, Zenon DEF Parts
<1>2. set \subseteq ticking
  BY DEF StillSet, Cleared
<1>3. again(over) \subseteq page.timed /\ again(over) \in SUBSET Names
  <2>1. CalledBy(effects, c) \cap Intervals \subseteq page.timed
    BY TimedAre
  <2>2. CalledBy(effects, c) \cap Intervals \subseteq Names
    BY CalledAre
  <2>3. Of(effects, "tick") \cup Of(effects, "poll") \cup Of(effects, "pollOnce") \subseteq Names
    BY DEF EffectsOK, HandlersIn
  <2>4. again(over) \subseteq Of(effects, "tick") \cup Of(effects, "poll") \cup Of(effects, "pollOnce")
                      \cup (CalledBy(effects, c) \cap Intervals)
    BY DEF SetAgain
  <2> HIDE DEF again
  <2> QED
    BY <2>1, <2>2, <2>3, <2>4
<1>4. leaves \in BOOLEAN
  BY DEF Leaves
<1> HIDE DEF set, again, up, within, leaves
<1> TAKE e \in timers'
<1>5. PICK t \in set \cup Set(again(over), within, set) : e = Kept(t, leaves, up)
  BY <1>1
<1>6. Shape(t) /\ t.do \in page.timed
  <2>1. CASE t \in set
    BY <1>2, <2>1
  <2>2. CASE t \in Set(again(over), within, set)
    BY <1>3, <2>2, SetLife
  <2> QED
    BY <2>1, <2>2
<1> QED
  BY <1>4, <1>5, <1>6, KeptLife

\* The user clicks: on a sender, on a retry, or on something else.
LEMMA ClickOneOut ==
    ASSUME Inv, TypeInv, TypeInv', NEW o \in page.offers, Click(o),
           NEW s, NEW f, NEW r, LetsOneThrough(page, s, f, r), OneOut(s, f, r)
    PROVE  OneOut(s, f, r)'
<1> DEFINE effects == IF H(o.do).kind = "act" THEN H(o.do).ok ELSE Run({o.do})
           c == Now(o.do, "surface")
           S == Senders(page.handlers, s, f)
           R == Retries(page.handlers, s, f)
<1>1. IsOpened /\ o.do \in Names
  BY SoundPage DEF Inv
<1>2. c.do = o.do /\ c.life = "surface"
  BY DEF Now
<1>3. UNCHANGED page /\ Effects(effects, c, calls, timers)
  BY DEF Click
<1>4. EffectsOK(effects, H(o.do).on)
  BY <1>1, SoundPage, RunOK
<1>5. \A d \in calls : Shape(d)
  BY CallbacksOK
<1>6. o.on \in open /\ \A g \in o.unless : <<o.on, g>> \notin busy
  BY DEF Click, Top
<1>7. /\ \A kind : kind # "run" => Of(Run({o.do}), kind) = {}
      /\ Of(Run({o.do}), "run") = {o.do}
  <2>1. \A kind : Of(Run({o.do}), kind) = IF kind = "run" THEN {o.do} ELSE {}
    BY OfRun, Zenon
  <2> QED
    BY <2>1
<1>8. CalledIn(Run({o.do})) = {o.do}
  BY <1>7 DEF CalledIn
<1>9. CASE o.do \in S
  <2>1. o.on = s /\ f \in o.unless /\ effects = Run({o.do})
    BY <1>1, <1>9, SendersAre
  <2>2. /\ \A d \in calls : ~ Out(d, s, f)
        /\ ~ (R # {} /\ r \in open)
    BY <1>6, <2>1 DEF OneOut
  <2>3. UpAfter(effects, c) = open
    BY <1>7, <2>1 DEF UpAfter, OpenedBy
  <2>4. o.do \notin R
    BY <1>1, <1>9, SendersAre
  <2>5. /\ CalledIn(effects) = {o.do} /\ Of(effects, "runSilently") = {}
        /\ \A d \in calls : d.do \notin R
    BY <1>7, <1>8, <2>1 DEF OneOut
  <2> HIDE DEF effects, c, S, R
  <2>6. \A m, n \in CalledIn(effects) \cap S :
           m = n /\ m \notin Of(effects, "runSilently") /\ \A d \in calls : ~ Out(d, s, f)
    BY <2>2, <2>5
  <2>7. CalledIn(effects) \cap R = {}
    BY <2>4, <2>5
  <2> QED
    BY <1>1, <1>2, <1>3, <1>4, <1>5, <2>2, <2>3, <2>5, <2>6, <2>7, OneOutKept DEF S, R
<1>10. CASE o.do \in R
  <2>1. /\ o.on = r /\ H(o.do).kind = "act" /\ r \in Of(H(o.do).ok, "close")
        /\ Of(H(o.do).ok, "runSilently") \cap S = {}
        /\ \A m, n \in CalledIn(H(o.do).ok) \cap S : m = n
    BY <1>1, <1>10, RetriesAre
  <2>2. \A d \in calls : ~ Out(d, s, f)
    BY <1>6, <1>10, <2>1 DEF OneOut
  <2>3. r \notin UpAfter(effects, c)
    BY <1>2, <1>6, <2>1 DEF UpAfter, OpenedBy
  <2>4. CalledIn(effects) \cap R = {}
    BY <1>1, <2>1, HandlersAre
  <2>5. effects = H(o.do).ok
    BY <2>1
  <2>6. \A d \in calls : d.do \notin R
    BY DEF OneOut
  <2> HIDE DEF effects, c, S, R
  <2>7. \A m, n \in CalledIn(effects) \cap S :
           m = n /\ m \notin Of(effects, "runSilently") /\ \A d \in calls : ~ Out(d, s, f)
    BY <2>1, <2>2, <2>5
  <2> QED
    BY <1>1, <1>2, <1>3, <1>4, <1>5, <2>2, <2>3, <2>4, <2>6, <2>7, OneOutKept DEF S, R
<1>11. CASE o.do \notin S /\ o.do \notin R
  <2>1. CalledIn(effects) \cap (S \cup R) = {}
    <3>1. CASE H(o.do).kind = "act"
      BY <1>1, <1>11, <3>1, HandlersAre
    <3>2. CASE H(o.do).kind # "act"
      BY <1>8, <1>11, <3>2
    <3> QED
      BY <3>1, <3>2
  <2>2. \A kind \in {"open", "clear"} : Of(effects, kind) \in {Of(H(o.do).ok, kind), {}}
    BY <1>7
  <2>3. ~ Out(c, s, f)
    BY <1>2, <1>11 DEF Out
  <2> HIDE DEF effects, c, S, R
  <2> QED
    BY <1>1, <1>2, <1>3, <1>4, <1>11, <2>1, <2>2, <2>3, OthersOneOut DEF S, R
<1> QED
  BY <1>9, <1>10, <1>11

LEMMA AnswerOneOut ==
    ASSUME Inv, TypeInv, TypeInv', UNCHANGED page, NEW c \in calls, NEW effects, NEW behind \in BOOLEAN,
           NEW from \in {H(c.do).ok, H(c.do).err}, H(c.do).kind = "act" => from = H(c.do).ok,
           effects \in {from, {}},
           Effects(effects, c, Rest(c, behind), timers),
           NEW s, NEW f, NEW r, LetsOneThrough(page, s, f, r), OneOut(s, f, r)
    PROVE  OneOut(s, f, r)'
<1> DEFINE S == Senders(page.handlers, s, f)
           R == Retries(page.handlers, s, f)
           pending == Rest(c, behind)
<1>1. IsOpened /\ c.do \in Names /\ c.do \notin R
  BY DEF Inv, CallsOK, OneOut
<1>2. c.life \in {"surface", "page", "none"} /\ (H(c.do).on = "page" => c.life # "page")
  BY DEF TypeInv, LifeOK
<1>3. EffectsOK(effects, H(c.do).on)
  BY <1>1, SoundPage, NothingOK
<1>4. \A kind : Of(effects, kind) \in {Of(from, kind), {}}
  BY OfNothing
<1>5. CalledIn(effects) \cap (S \cup R) = {}
  <2>1. CalledIn(from) \cap (S \cup R) = {}
    BY <1>1, HandlersAre
  <2>2. CalledIn({}) = {}
    BY OfNothing DEF CalledIn
  <2> QED
    BY <2>1, <2>2
<1>6. Effects(effects, c, pending, timers) /\ pending \in {calls, Rest(c, behind)}
  OBVIOUS
<1> HIDE DEF S, R, pending
<1> QED
  BY <1>1, <1>2, <1>3, <1>4, <1>5, <1>6, OthersOneOut DEF S, R, pending

LEMMA FireOneOut ==
    ASSUME Inv, TypeInv, TypeInv', NEW t \in timers, Fire(t), t.do \in page.timed,
           NEW s, NEW f, NEW r, LetsOneThrough(page, s, f, r), OneOut(s, f, r)
    PROVE  OneOut(s, f, r)'
<1> DEFINE effects == IF t.do \in Intervals THEN H(t.do).ok \cup Tick(t.do) ELSE Run({t.do})
           c == Now(t.do, t.life)
           S == Senders(page.handlers, s, f)
           R == Retries(page.handlers, s, f)
<1>1. IsOpened /\ t.do \in Names
  BY DEF Inv, TimersOK
<1>2. c.do = t.do /\ c.life = t.life
  BY DEF Now
<1>3. UNCHANGED page /\ Effects(effects, c, calls, Without(timers, t))
  BY DEF Fire
<1>4. EffectsOK(effects, H(t.do).on)
  BY <1>1, SoundPage, TickOK, RunOK
<1>5. t.do \notin S /\ t.do \notin R
  BY <1>1, SendersAre, RetriesAre
<1>6. /\ \A kind : kind # "tick" => Of(H(t.do).ok \cup Tick(t.do), kind) = Of(H(t.do).ok, kind)
      /\ \A kind : kind # "run" => Of(Run({t.do}), kind) = {}
      /\ Of(Run({t.do}), "run") = {t.do}
  <2>1. \A kind : Of(Run({t.do}), kind) = IF kind = "run" THEN {t.do} ELSE {}
    BY OfRun, Zenon
  <2>2. \A kind : Of(H(t.do).ok \cup Tick(t.do), kind)
                  = Of(H(t.do).ok, kind) \cup IF kind = "tick" THEN {t.do} ELSE {}
    BY OfTick, Zenon
  <2> QED
    BY <2>1, <2>2
<1>7. CalledIn(effects) \cap (S \cup R) = {}
  <2>1. CalledIn(H(t.do).ok) \cap (S \cup R) = {}
    BY <1>1, <1>5, HandlersAre
  <2>2. CalledIn(H(t.do).ok \cup Tick(t.do)) = CalledIn(H(t.do).ok) /\ CalledIn(Run({t.do})) = {t.do}
    <3>1. \A e : CalledIn(e) = Of(e, "run") \cup Of(e, "runPlain") \cup Of(e, "runSilently")
      BY DEF CalledIn
    <3>2. CalledIn(H(t.do).ok \cup Tick(t.do)) = CalledIn(H(t.do).ok)
      BY <1>6, <3>1
    <3>3. CalledIn(Run({t.do})) = {t.do}
      BY <1>6, <3>1
    <3> QED
      BY <3>2, <3>3
  <2> QED
    BY <1>5, <2>1, <2>2
<1>8. \A kind \in {"open", "clear"} : Of(effects, kind) \in {Of(H(t.do).ok, kind), {}}
  BY <1>6
<1>9. ~ Out(c, s, f)
  BY <1>2, <1>5 DEF Out
<1>10. t.life \in {"surface", "page", "none"} /\ (H(t.do).on = "page" => t.life # "page")
  BY DEF TypeInv, LifeOK
<1> HIDE DEF effects, c, S, R
<1> QED
  BY <1>1, <1>2, <1>3, <1>4, <1>5, <1>7, <1>8, <1>9, <1>10, OthersOneOut DEF S, R

LEMMA GoAwayOneOut ==
    ASSUME Inv, TypeInv, GoAway, SubmitInv
    PROVE  SubmitInv'
<1>1. UNCHANGED page /\ open' = {}
  BY DEF GoAway
<1>2. \A d \in calls \cup timers : Shape(d)
  BY CallbacksOK
<1>3. \A e \in calls' : \E d \in calls : e.do = d.do /\ e.life = "none"
  <2> TAKE e \in calls'
  <2>1. PICK d \in calls : e = [d EXCEPT !.life = "none"]
    BY DEF GoAway
  <2> QED
    BY <1>2, <2>1, Relabelled
<1>4. \A e \in timers' : \E d \in timers : e.do = d.do
  <2> TAKE e \in timers'
  <2>1. PICK d \in timers : e = [d EXCEPT !.life = "none"]
    BY DEF GoAway, Cleared
  <2> QED
    BY <1>2, <2>1, Relabelled
<1>5. ASSUME NEW s, NEW f, NEW r, LetsOneThrough(page, s, f, r) PROVE OneOut(s, f, r)'
  <2>1. OneOut(s, f, r)
    BY <1>5 DEF SubmitInv
  <2> QED
    BY <1>1, <1>3, <2>1 DEF OneOut, Out
<1>6. \A s, f, r : LetsOneThrough(page, s, f, r)' <=> LetsOneThrough(page, s, f, r)
  BY <1>1
<1> QED
  BY <1>1, <1>4, <1>5, <1>6 DEF SubmitInv

LEMMA InitOneOut == Init => SubmitInv
<1> SUFFICES ASSUME Init PROVE SubmitInv
  OBVIOUS
<1>1. IsOpened
  BY InitInv DEF Inv
<1>2. "page" \in Surfaces /\ page.mount["page"] \subseteq Names
  BY <1>1, SoundPage
<1>3. \A d \in calls : d.do \in page.mount["page"]
  <2>1. page.mount["page"] \ Intervals \in SUBSET Names
    BY <1>2
  <2>2. calls = Sent(page.mount["page"] \ Intervals, {"page"}, query, {}, server)
    BY DEF Init
  <2> QED
    BY <2>1, <2>2, SentLife
<1>4. \A t \in timers : t.do \in page.timed
  <2>1. page.mount["page"] \cap Intervals \in SUBSET Names
    BY <1>2
  <2>2. timers = Set(page.mount["page"] \cap Intervals, {"page"}, {})
    BY DEF Init
  <2> QED
    BY <1>1, <2>1, <2>2, SetLife, TimedAre
<1>5. ASSUME NEW s, NEW f, NEW r, LetsOneThrough(page, s, f, r) PROVE OneOut(s, f, r)
  <2>1. \A d \in calls : d.do \notin Senders(page.handlers, s, f) /\ d.do \notin Retries(page.handlers, s, f)
    BY <1>1, <1>2, <1>3, <1>5, SendersAre, RetriesAre
  <2>2. Retries(page.handlers, s, f) # {} => r \notin open
    <3>1. open = {"page"}
      BY DEF Init
    <3> QED
      BY <1>1, <1>5, <3>1, RetriesAre
  <2> QED
    BY <2>1, <2>2 DEF OneOut, Out
<1> QED
  BY <1>4, <1>5 DEF SubmitInv

LEMMA NextOneOut == Inv /\ TypeInv /\ TypeInv' /\ SubmitInv /\ [Next]_vars => SubmitInv'
<1> SUFFICES ASSUME Inv, TypeInv, TypeInv', SubmitInv, [Next]_vars PROVE SubmitInv'
  OBVIOUS
<1>0. IsOpened
  BY DEF Inv
\* It is enough to look at one spinner, and at the timers.
<1>1. ASSUME UNCHANGED page, \A t \in timers' : t.do \in page.timed,
             \A s, f, r : LetsOneThrough(page, s, f, r) /\ OneOut(s, f, r) => OneOut(s, f, r)'
      PROVE  SubmitInv'
  <2>1. \A s, f, r : LetsOneThrough(page, s, f, r)' <=> LetsOneThrough(page, s, f, r)
    BY <1>1
  <2> QED
    BY <1>1, <2>1 DEF SubmitInv
<1>2. ASSUME NEW o \in page.offers, Click(o) PROVE SubmitInv'
  <2> DEFINE effects == IF H(o.do).kind = "act" THEN H(o.do).ok ELSE Run({o.do})
             c == Now(o.do, "surface")
  <2>1. UNCHANGED page /\ Effects(effects, c, calls, timers) /\ o.do \in Names /\ c.do = o.do
    BY <1>0, <1>2, SoundPage DEF Click, Now
  <2>2. EffectsOK(effects, H(o.do).on)
    BY <1>0, <2>1, SoundPage, RunOK
  <2>3. \A kind \in {"tick", "poll", "pollOnce"} : Of(effects, kind) \subseteq page.timed
    <3>1. \A kind : Of(Run({o.do}), kind) = IF kind = "run" THEN {o.do} ELSE {}
      BY OfRun, Zenon
    <3> QED
      BY <1>0, <2>1, <3>1, TimedAre
  <2>4. \A t \in timers : Shape(t) /\ t.do \in page.timed
    BY CallbacksOK DEF SubmitInv
  <2> HIDE DEF effects, c
  <2>5. \A t \in timers' : t.do \in page.timed
    BY <1>0, <2>1, <2>2, <2>3, <2>4, TimersTimed
  <2> QED
    BY <1>1, <1>2, <2>1, <2>5, ClickOneOut
<1>3. CASE GoAway
  BY <1>3, GoAwayOneOut
<1>4. ASSUME NEW c \in calls, NEW from \in {H(c.do).ok, H(c.do).err},
             H(c.do).kind = "act" => from = H(c.do).ok, UNCHANGED page,
             NEW effects \in {from, {}}, NEW behind \in BOOLEAN, Effects(effects, c, Rest(c, behind), timers)
      PROVE  SubmitInv'
  <2>1. c.do \in Names
    BY DEF Inv, CallsOK
  <2>2. EffectsOK(effects, H(c.do).on)
    BY <1>0, <2>1, SoundPage, NothingOK
  <2>3. \A kind \in {"tick", "poll", "pollOnce"} : Of(effects, kind) \subseteq page.timed
    BY <1>0, <2>1, TimedAre, OfNothing
  <2>4. \A t \in timers : Shape(t) /\ t.do \in page.timed
    BY CallbacksOK DEF SubmitInv
  <2>5. \A t \in timers' : t.do \in page.timed
    <3> DEFINE pending == Rest(c, behind)
    <3>1. Effects(effects, c, pending, timers)
      BY <1>4
    <3> HIDE DEF pending
    <3> QED
      BY <1>0, <1>4, <2>2, <2>3, <2>4, <3>1, TimersTimed
  <2>6. ASSUME NEW s, NEW f, NEW r, LetsOneThrough(page, s, f, r), OneOut(s, f, r) PROVE OneOut(s, f, r)'
    BY <1>4, <2>6, AnswerOneOut
  <2> QED
    BY <1>1, <1>4, <2>5, <2>6
<1>5. ASSUME NEW c \in calls, Answer(c) PROVE SubmitInv'
  <2> DEFINE effects == IF Dropped(c) THEN {} ELSE H(c.do).ok
  <2>1. UNCHANGED page /\ Effects(effects, c, Rest(c, TRUE), timers) /\ effects \in {H(c.do).ok, {}}
    BY <1>5 DEF Answer, Rest
  <2> HIDE DEF effects
  <2> QED
    BY <1>4, <2>1
<1>6. ASSUME NEW c \in calls, Fail(c) PROVE SubmitInv'
  <2> DEFINE effects == IF Dropped(c) THEN {} ELSE H(c.do).err
  <2>1. /\ UNCHANGED page /\ H(c.do).kind # "act"
        /\ Effects(effects, c, Rest(c, FALSE), timers) /\ effects \in {H(c.do).err, {}}
    BY <1>6 DEF Fail, Rest
  <2> HIDE DEF effects
  <2> QED
    BY <1>4, <2>1
<1>7. ASSUME NEW t \in timers, Fire(t) PROVE SubmitInv'
  <2> DEFINE effects == IF t.do \in Intervals THEN H(t.do).ok \cup Tick(t.do) ELSE Run({t.do})
             c == Now(t.do, t.life)
  <2>1. t.do \in Names /\ t.do \in page.timed
    BY DEF Inv, TimersOK, SubmitInv
  <2>2. UNCHANGED page /\ Effects(effects, c, calls, Without(timers, t)) /\ c.do = t.do
    BY <1>7 DEF Fire, Now
  <2>3. EffectsOK(effects, H(t.do).on)
    BY <1>0, <2>1, SoundPage, TickOK, RunOK
  <2>4. \A kind \in {"tick", "poll", "pollOnce"} : Of(effects, kind) \subseteq page.timed
    <3>1. \A kind : Of(Run({t.do}), kind) = IF kind = "run" THEN {t.do} ELSE {}
      BY OfRun, Zenon
    <3>2. \A kind : Of(H(t.do).ok \cup Tick(t.do), kind)
                    = Of(H(t.do).ok, kind) \cup IF kind = "tick" THEN {t.do} ELSE {}
      BY OfTick, Zenon
    <3> QED
      BY <1>0, <2>1, <3>1, <3>2, TimedAre
  <2>5. \A u \in Without(timers, t) : Shape(u) /\ u.do \in page.timed
    <3>1. \A u \in timers : Shape(u) /\ u.do \in page.timed
      BY CallbacksOK DEF SubmitInv
    <3> QED
      BY <3>1, WithoutLife
  <2> DEFINE ticking == Without(timers, t)
  <2>6. \A u \in timers' : u.do \in page.timed
    <3> HIDE DEF effects, c, ticking
    <3>1. Effects(effects, c, calls, ticking) /\ \A u \in ticking : Shape(u) /\ u.do \in page.timed
      BY <2>2, <2>5 DEF ticking
    <3> QED
      BY <1>0, <2>2, <2>3, <2>4, <3>1, TimersTimed
  <2>7. ASSUME NEW s, NEW f, NEW r, LetsOneThrough(page, s, f, r), OneOut(s, f, r) PROVE OneOut(s, f, r)'
    BY <1>7, <2>1, <2>7, FireOneOut
  <2> QED
    BY <1>1, <2>2, <2>6, <2>7
<1>8. CASE End \/ UNCHANGED vars
  <2>1. UNCHANGED <<page, open, busy, calls, timers>>
    BY <1>8 DEF End, vars
  <2> QED
    BY <1>1, <2>1 DEF SubmitInv, OneOut, Out
<1> QED
  BY <1>2, <1>3, <1>5, <1>6, <1>7, <1>8 DEF Next

\* On any pages whose guarded buttons are blocked by a spinner of their own, as the
\* assumption that TLC checks for the pages of the web interface says: a button sends one
\* request at a time for its surface, however quickly the user clicks, also when the request
\* fails and is sent again from the dialog that asks for it; except the known ones.
THEOREM SubmitsOnce == Spec => []OneSubmit
<1>1. Init => Inv /\ TypeInv /\ SubmitInv
  BY InitInv, InitTyped, InitOneOut
<1>2. Inv /\ TypeInv /\ SubmitInv /\ [Next]_vars => Inv' /\ TypeInv' /\ SubmitInv'
  BY NextInv, NextTyped, NextOneOut
<1>3. Inv /\ SubmitInv => OneSubmit
  <2> SUFFICES ASSUME Inv, SubmitInv, NEW n \in Guarded, <<page.name, n>> \notin KnownTwice
               PROVE  Cardinality({c \in calls : c.do = n /\ c.life = "surface"}) <= 1
    BY DEF OneSubmit
  <2>1. IsOpened
    BY DEF Inv
  <2>2. PICK f \in H(n).flags : \E r : LetsOneThrough(page, H(n).on, f, r)
    BY <2>1, OpenedPage
  <2>3. n \in Names /\ H(n).kind = "write"
    <3>1. Guarded = GuardedOf(page.handlers, page.offers)
      BY <2>1, OpenedPage
    <3>2. \E o \in page.offers : n = o.do /\ page.handlers[o.do].kind = "write"
      BY <3>1 DEF GuardedOf
    <3> QED
      BY <2>1, <3>2, SoundPage DEF H
  <2>4. n \in Senders(page.handlers, H(n).on, f)
    BY <2>2, <2>3 DEF Senders, Names, H
  <2>5. \A c, d \in {x \in calls : x.do = n /\ x.life = "surface"} : c = d
    <3>1. PICK r : LetsOneThrough(page, H(n).on, f, r)
      BY <2>2
    <3>2. OneOut(H(n).on, f, r)
      BY <3>1 DEF SubmitInv
    <3> QED
      BY <2>4, <3>2 DEF OneOut, Out
  <2> DEFINE T == {c \in calls : c.do = n /\ c.life = "surface"}
  <2>6. CASE T = {}
    BY <2>6, FS_EmptySet
  <2>7. ASSUME NEW c \in T PROVE Cardinality(T) <= 1
    <3>1. T = {c}
      BY <2>5
    <3>2. Cardinality({c}) = 1
      BY FS_Singleton, Zenon
    <3> QED
      BY <3>1, <3>2
  <2> QED
    BY <2>6, <2>7
<1> QED
  BY <1>1, <1>2, <1>3, PTL DEF Spec

-----------------------------------------------------------------------------
(* One timer at a time *)

Leaks(n) == <<page.name, n>> \in KnownLeak

\* What the assumption says of the timers of the page that is open.
LEMMA TimersAre ==
    ASSUME IsOpened, NEW n \in page.timed, ~ Leaks(n)
    PROVE  /\ \A k \in Names : \A effects \in {H(k).ok, H(k).err} : \A kind \in {"tick", "poll"} :
                 n \notin Of(effects, kind)
           /\ n \in Intervals =>
                 /\ H(n).on = "page"
                 /\ \A k \in Names : \A effects \in {H(k).ok, H(k).err} : n \notin CalledIn(effects)
                 /\ \A s \in Surfaces : n \in page.mount[s] => s = "page"
                 /\ \A o \in page.offers : o.do # n
<1>0. PICK p \in DOMAIN Pages : page = Opened(p)
  BY DEF IsOpened
<1>1. /\ page.name = p
      /\ page.handlers = Pages[p].handlers
      /\ page.mount = Pages[p].mount
      /\ page.offers = Pages[p].offers
      /\ page.timed = TimedOf(Pages[p].handlers)
      /\ page.intervals = OfKind(Pages[p].handlers, "interval")
  BY <1>0 DEF Opened
<1>2. SetsOneTimer(p)
  BY TimerAssumption
<1> DEFINE Among(kinds) ==
             \E k \in Names : \E kind \in kinds : n \in Of(H(k).ok \cup H(k).err, kind)
<1>3. /\ ~ Among({"tick", "poll"})
      /\ page.handlers[n].kind = "interval" =>
            /\ page.handlers[n].on = "page"
            /\ ~ Among({"run", "runPlain", "runSilently", "pollOnce"})
            /\ \A s \in DOMAIN page.mount : n \in page.mount[s] => s = "page"
            /\ \A o \in page.offers : o.do # n
  BY <1>1, <1>2, Zenon DEF SetsOneTimer, Leaks, Names, H
<1>4. n \in Intervals => page.handlers[n].kind = "interval"
  BY <1>1 DEF Intervals, OfKind
<1>5. \A k \in Names : \A effects \in {H(k).ok, H(k).err} : \A kind :
         n \in Of(effects, kind) => n \in Of(H(k).ok \cup H(k).err, kind)
  BY DEF Of
<1>6. \A k \in Names : \A effects \in {H(k).ok, H(k).err} : \A kind \in {"tick", "poll"} :
         n \notin Of(effects, kind)
  BY <1>3, <1>5
<1>7. ASSUME n \in Intervals, NEW k \in Names, NEW effects \in {H(k).ok, H(k).err}
      PROVE  n \notin CalledIn(effects)
  BY <1>3, <1>4, <1>5, <1>7 DEF CalledIn
<1> QED
  BY <1>3, <1>4, <1>6, <1>7 DEF Surfaces, H

\* A callback that sets no timer that is set already, and starts no interval, keeps to one
\* timer of a kind.
LEMMA PollKept ==
    ASSUME IsOpened, TypeInv, TypeInv', UNCHANGED page,
           NEW effects, NEW c, NEW pending, NEW ticking,
           EffectsOK(effects, H(c.do).on), away => c.life = "none",
           \A kind \in {"tick", "poll", "pollOnce"} : Of(effects, kind) \subseteq page.timed,
           \A t \in ticking : Shape(t),
           \A t, u \in ticking :
              t.do = u.do /\ t.life = "surface" /\ u.life = "surface" /\ ~ Leaks(t.do) => t = u,
           \A t \in ticking : t.do \in Of(effects, "tick") /\ ~ Leaks(t.do) => t.life # "surface",
           \A n \in Of(effects, "poll") : Leaks(n),
           \A n \in CalledIn(effects) \cap Intervals : Leaks(n),
           Effects(effects, c, pending, ticking)
    PROVE  OnePoll'
<1> DEFINE set == StillSet(effects, c, ticking)
           again(over) == SetAgain(effects, c, ticking, over)
           up == UpAfter(effects, c)
           within == WithinOf(effects, c)
           leaves == Leaves(effects, c)
<1>0. Parts(effects, c, pending, ticking)
  BY EffectsParts
<1>1. PICK over : timers' = {Kept(t, leaves, up) : t \in set \cup Set(again(over), within, set)}
  BY <1>0, Zenon DEF Parts
<1>2. set \subseteq ticking
  BY DEF StillSet, Cleared
<1>3. again(over) \in SUBSET Names
  <2>1. CalledBy(effects, c) \cap Intervals \subseteq Names
    BY CalledAre
  <2>2. Of(effects, "tick") \cup Of(effects, "poll") \cup Of(effects, "pollOnce") \subseteq Names
    BY DEF EffectsOK, HandlersIn
  <2>3. again(over) \subseteq Of(effects, "tick") \cup Of(effects, "poll") \cup Of(effects, "pollOnce")
                      \cup (CalledBy(effects, c) \cap Intervals)
    BY DEF SetAgain
  <2> HIDE DEF again
  <2> QED
    BY <2>1, <2>2, <2>3
<1>4. leaves \in BOOLEAN /\ UNCHANGED page.name
  BY DEF Leaves
\* What is set again was not set, for a surface that is there.
<1>5. ASSUME NEW n \in again(over), ~ Leaks(n), NEW t \in set, t.do = n PROVE t.life # "surface"
  <2>1. CASE n \in Of(effects, "tick")
    BY <1>2, <1>5, <2>1
  <2>2. CASE n \in CalledBy(effects, c) \cap Intervals
    <3>1. n \notin CalledIn(effects)
      BY <1>5, <2>2
    <3>2. n \in UNION {page.mount[s] : s \in OpenedBy(effects, c)}
      BY <2>2, <3>1 DEF CalledBy, CalledIn
    <3>3. PICK s \in OpenedBy(effects, c) : n \in page.mount[s]
      BY <3>2
    <3>4. s \in Surfaces /\ s \notin open /\ c.life # "none"
      BY DEF OpenedBy, EffectsOK
    <3>5. n \in page.timed
      BY <2>2, TimedAre
    <3>6. s = "page"
      BY <1>5, <2>2, <3>3, <3>4, <3>5, TimersAre
    <3> QED
      BY <3>4, <3>6 DEF TypeInv, TypeOK
  <2>3. CASE n \in Of(effects, "poll")
    BY <1>5, <2>3
  <2>4. CASE c.life = "surface" /\ \A u \in set : u.do # n \/ u.life # c.life
    BY <1>5, <2>4
  <2> QED
    BY <2>1, <2>2, <2>3, <2>4 DEF SetAgain
<1> HIDE DEF set, again, up, within, leaves
<1>6. ASSUME NEW e \in timers', e.life = "surface" PROVE e \in set \cup Set(again(over), within, set)
  <2>1. PICK t \in set \cup Set(again(over), within, set) : e = Kept(t, leaves, up)
    BY <1>1, <1>6
  <2>2. Shape(t)
    BY <1>2, <1>3, SetLife
  <2>3. ~ leaves /\ ~ (t.life = "surface" /\ H(t.do).on \notin up)
    BY <1>4, <1>6, <2>1, <2>2, KeptLife
  <2>4. e = t
    BY <2>1, <2>3 DEF Kept, Outlives
  <2> QED
    BY <2>4
<1>7. ASSUME NEW t \in timers', NEW u \in timers', t.do = u.do, t.life = "surface", u.life = "surface",
             ~ Leaks(t.do)
      PROVE  t = u
  <2>1. CASE t \in set /\ u \in set
    BY <1>2, <1>7, <2>1
  <2>2. CASE t \in Set(again(over), within, set) /\ u \in Set(again(over), within, set)
    BY <1>7, <2>2, SetOnce
  <2>3. CASE t \in set /\ u \in Set(again(over), within, set)
    <3>1. u.do \in again(over)
      BY <1>3, <2>3, SetLife
    <3> QED
      BY <1>5, <1>7, <2>3, <3>1
  <2>4. CASE u \in set /\ t \in Set(again(over), within, set)
    <3>1. t.do \in again(over)
      BY <1>3, <2>4, SetLife
    <3> QED
      BY <1>5, <1>7, <2>4, <3>1
  <2> QED
    BY <1>6, <1>7, <2>1, <2>2, <2>3, <2>4
<1> QED
  BY <1>4, <1>7 DEF OnePoll, Leaks

LEMMA NextPoll == Inv /\ TypeInv /\ TypeInv' /\ SubmitInv /\ OnePoll /\ [Next]_vars => OnePoll'
<1> SUFFICES ASSUME Inv, TypeInv, TypeInv', SubmitInv, OnePoll, [Next]_vars PROVE OnePoll'
  OBVIOUS
<1>0. IsOpened /\ \A t \in timers : Shape(t) /\ t.do \in page.timed /\ t.do \in Names
  BY CallbacksOK DEF Inv, SubmitInv, TimersOK
<1>1. \A t, u \in timers :
         t.do = u.do /\ t.life = "surface" /\ u.life = "surface" /\ ~ Leaks(t.do) => t = u
  BY DEF OnePoll, Leaks
\* The effects of a handler, and a call.
<1>2. ASSUME NEW k \in Names, NEW effects \in {H(k).ok, H(k).err}
      PROVE  /\ \A n \in Of(effects, "tick") \cup Of(effects, "poll") : Leaks(n)
             /\ \A n \in CalledIn(effects) \cap Intervals : Leaks(n)
             /\ \A kind \in {"tick", "poll", "pollOnce"} : Of(effects, kind) \subseteq page.timed
  <2>1. \A kind \in {"tick", "poll", "pollOnce"} : Of(effects, kind) \subseteq page.timed
    BY <1>0, TimedAre
  <2>2. \A n \in Of(effects, "tick") \cup Of(effects, "poll") : Leaks(n)
    BY <1>0, <2>1, TimersAre
  <2>3. \A n \in CalledIn(effects) \cap Intervals : Leaks(n)
    BY <1>0, TimedAre, TimersAre
  <2> QED
    BY <2>1, <2>2, <2>3
<1>3. ASSUME NEW n \in Names, n \in Intervals => Leaks(n)
      PROVE  /\ \A kind \in {"tick", "poll", "pollOnce"} : Of(Run({n}), kind) = {}
             /\ \A m \in CalledIn(Run({n})) \cap Intervals : Leaks(m)
  <2>1. \A kind : Of(Run({n}), kind) = IF kind = "run" THEN {n} ELSE {}
    BY OfRun, Zenon
  <2>2. CalledIn(Run({n})) = {n}
    BY <2>1 DEF CalledIn
  <2> QED
    BY <1>3, <2>1, <2>2
<1>4. ASSUME NEW o \in page.offers, Click(o) PROVE OnePoll'
  <2> DEFINE effects == IF H(o.do).kind = "act" THEN H(o.do).ok ELSE Run({o.do})
             c == Now(o.do, "surface")
  <2>1. /\ UNCHANGED page /\ Effects(effects, c, calls, timers)
        /\ o.do \in Names /\ c.do = o.do /\ c.life = "surface"
    BY <1>0, <1>4, SoundPage DEF Click, Now
  <2>2. EffectsOK(effects, H(o.do).on)
    BY <1>0, <2>1, SoundPage, RunOK
  <2>3. o.do \in Intervals => Leaks(o.do)
    BY <1>0, TimedAre, TimersAre
  <2>4. /\ \A n \in Of(effects, "tick") \cup Of(effects, "poll") : Leaks(n)
        /\ \A n \in CalledIn(effects) \cap Intervals : Leaks(n)
        /\ \A kind \in {"tick", "poll", "pollOnce"} : Of(effects, kind) \subseteq page.timed
    <3>1. CASE H(o.do).kind = "act"
      BY <1>2, <2>1, <3>1
    <3>2. CASE H(o.do).kind # "act"
      BY <1>3, <2>1, <2>3, <3>2
    <3> QED
      BY <3>1, <3>2
  <2>5. away => c.life = "none"
    <3>1. o.on \in open
      BY <1>4 DEF Click, Top
    <3> QED
      BY <3>1 DEF TypeInv
  <2> HIDE DEF effects, c
  <2> QED
    BY <1>0, <1>1, <2>1, <2>2, <2>4, <2>5, PollKept
<1>5. ASSUME NEW c \in calls, NEW effects \in {H(c.do).ok, H(c.do).err, {}}, UNCHANGED page,
             NEW behind \in BOOLEAN, Effects(effects, c, Rest(c, behind), timers)
      PROVE  OnePoll'
  <2>1. c.do \in Names /\ (away => c.life = "none")
    BY DEF Inv, CallsOK, TypeInv, LifeOK
  <2>2. EffectsOK(effects, H(c.do).on)
    BY <1>0, <2>1, SoundPage, NothingOK
  <2>3. /\ \A n \in Of(effects, "tick") \cup Of(effects, "poll") : Leaks(n)
        /\ \A n \in CalledIn(effects) \cap Intervals : Leaks(n)
        /\ \A kind \in {"tick", "poll", "pollOnce"} : Of(effects, kind) \subseteq page.timed
    <3>1. CASE effects = {}
      <4>1. CalledIn({}) = {}
        BY OfNothing DEF CalledIn
      <4> QED
        BY <3>1, <4>1, OfNothing
    <3>2. CASE effects # {}
      BY <1>2, <2>1, <3>2
    <3> QED
      BY <3>1, <3>2
  <2> DEFINE pending == Rest(c, behind)
  <2>4. Effects(effects, c, pending, timers)
    BY <1>5
  <2> HIDE DEF pending
  <2> QED
    BY <1>0, <1>1, <1>5, <2>1, <2>2, <2>3, <2>4, PollKept
<1>6. ASSUME NEW t \in timers, Fire(t) PROVE OnePoll'
  <2> DEFINE effects == IF t.do \in Intervals THEN H(t.do).ok \cup Tick(t.do) ELSE Run({t.do})
             c == Now(t.do, t.life)
             ticking == Without(timers, t)
  <2>1. /\ UNCHANGED page /\ Effects(effects, c, calls, ticking)
        /\ c.do = t.do /\ c.life = t.life
    BY <1>6 DEF Fire, Now
  <2>2. EffectsOK(effects, H(t.do).on)
    BY <1>0, SoundPage, TickOK, RunOK
  <2>3. away => c.life = "none"
    BY <2>1 DEF TypeInv, LifeOK
  \* The timers that remain are those that were there, without t.
  <2>4. \A u \in ticking : \E v \in timers :
           v # t /\ u = Renumbered(v, t) /\ Shape(u) /\ u.do = v.do /\ u.life = v.life
    BY <1>0, WithoutLife
  <2>5. \A u, v \in ticking :
           u.do = v.do /\ u.life = "surface" /\ v.life = "surface" /\ ~ Leaks(u.do) => u = v
    BY <1>1, <2>4
  <2>6. \A kind : Of(H(t.do).ok \cup Tick(t.do), kind)
                  = Of(H(t.do).ok, kind) \cup IF kind = "tick" THEN {t.do} ELSE {}
    BY OfTick, Zenon
  <2>7. CASE t.do \in Intervals
    <3>1. \A n \in Of(effects, "poll") : Leaks(n)
      BY <1>0, <1>2, <2>6, <2>7
    <3>2. \A n \in CalledIn(effects) \cap Intervals : Leaks(n)
      <4>1. CalledIn(H(t.do).ok \cup Tick(t.do)) = CalledIn(H(t.do).ok)
        BY <2>6 DEF CalledIn
      <4> QED
        BY <1>0, <1>2, <2>7, <4>1
    <3>3. \A kind \in {"tick", "poll", "pollOnce"} : Of(effects, kind) \subseteq page.timed
      BY <1>0, <1>2, <2>6, <2>7
    <3>4. ASSUME NEW u \in ticking, u.do \in Of(effects, "tick"), ~ Leaks(u.do) PROVE u.life # "surface"
      <4>1. PICK v \in timers : v # t /\ u.do = v.do /\ u.life = v.life
        BY <2>4
      <4>2. u.do = t.do
        BY <1>0, <1>2, <2>6, <2>7, <3>4
      <4>3. CASE t.life = "surface"
        BY <1>1, <3>4, <4>1, <4>2, <4>3
      <4>4. CASE t.life # "surface"
        <5>1. H(t.do).on = "page"
          BY <1>0, <2>7, <3>4, <4>2, TimersAre
        <5>2. away
          BY <4>4, <5>1 DEF TypeInv, LifeOK
        <5> QED
          BY <4>1, <5>2 DEF TypeInv, LifeOK
      <4> QED
        BY <4>3, <4>4
    <3>5. \A u \in ticking : u.do \in Of(effects, "tick") /\ ~ Leaks(u.do) => u.life # "surface"
      BY <3>4
    <3> HIDE DEF effects, c, ticking
    <3> QED
      BY <1>0, <2>1, <2>2, <2>3, <2>4, <2>5, <3>1, <3>2, <3>3, <3>5, PollKept
  <2>8. CASE t.do \notin Intervals
    <3>1. /\ \A kind \in {"tick", "poll", "pollOnce"} : Of(effects, kind) = {}
          /\ \A n \in CalledIn(effects) \cap Intervals : Leaks(n)
      BY <1>0, <1>3, <2>8
    <3> HIDE DEF effects, c, ticking
    <3> QED
      BY <1>0, <2>1, <2>2, <2>3, <2>4, <2>5, <3>1, PollKept
  <2> QED
    BY <2>7, <2>8
<1>7. CASE GoAway
  <2>1. away' = TRUE
    BY <1>7 DEF GoAway
  <2>2. \A t \in timers' : t.life # "surface"
    BY <2>1 DEF TypeInv, LifeOK
  <2> QED
    BY <2>2 DEF OnePoll
<1>8. CASE End \/ UNCHANGED vars
  BY <1>8 DEF End, vars, OnePoll
<1>9. ASSUME NEW c \in calls, Answer(c) \/ Fail(c) PROVE OnePoll'
  <2>1. CASE Answer(c)
    <3> DEFINE effects == IF Dropped(c) THEN {} ELSE H(c.do).ok
    <3>1. /\ UNCHANGED page /\ Effects(effects, c, Rest(c, TRUE), timers)
          /\ effects \in {H(c.do).ok, H(c.do).err, {}}
      BY <2>1 DEF Answer, Rest
    <3> HIDE DEF effects
    <3> QED
      BY <1>5, <3>1
  <2>2. CASE Fail(c)
    <3> DEFINE effects == IF Dropped(c) THEN {} ELSE H(c.do).err
    <3>1. /\ UNCHANGED page /\ Effects(effects, c, Rest(c, FALSE), timers)
          /\ effects \in {H(c.do).ok, H(c.do).err, {}}
      BY <2>2 DEF Fail, Rest
    <3> HIDE DEF effects
    <3> QED
      BY <1>5, <3>1
  <2> QED
    BY <1>9, <2>1, <2>2
<1> QED
  BY <1>4, <1>6, <1>7, <1>8, <1>9 DEF Next

\* On any pages that set a timer again only where they see that it is not set, and start an
\* interval only when the page appears, as the assumption that TLC checks for the pages of
\* the web interface says: a surface that is there has one timer of a kind, however often
\* answers come and dialogs are closed and opened again; except the known ones.
THEOREM PollsOnce == Spec => []OnePoll
<1>1. Init => Inv /\ TypeInv /\ SubmitInv
  BY InitInv, InitTyped, InitOneOut
<1>2. Init => OnePoll
  <2> SUFFICES ASSUME Init PROVE OnePoll
    OBVIOUS
  <2>1. timers = Set(page.mount["page"] \cap Intervals, {"page"}, {})
    BY DEF Init
  <2> QED
    BY <2>1, SetOnce DEF OnePoll
<1>3. Inv /\ TypeInv /\ SubmitInv /\ OnePoll /\ [Next]_vars => Inv' /\ TypeInv' /\ SubmitInv' /\ OnePoll'
  BY NextInv, NextTyped, NextOneOut, NextPoll
<1> QED
  BY <1>1, <1>2, <1>3, PTL DEF Spec

-----------------------------------------------------------------------------
(* Requests are numbered *)

CallsOf(S, n) == {c \in S : c.do = n}

\* The requests of the handler n are numbered from one, each with a number of its own.
Numbered(S, n) ==
    \E N \in Nat : /\ {c.k : c \in CallsOf(S, n)} = 1..N
                   /\ \A c, d \in CallsOf(S, n) : c.k = d.k => c = d

\* The next number is one that is not taken, above all others.
LEMMA NextNumber ==
    ASSUME NEW S, NEW n, NEW N \in Nat, {c.k : c \in CallsOf(S, n)} = 1..N,
           \A c, d \in CallsOf(S, n) : c.k = d.k => c = d
    PROVE  Cardinality({c \in S : c.do = n}) = N
<1> DEFINE T == CallsOf(S, n)
           f == [i \in 1..N |-> CHOOSE c \in T : c.k = i]
<1>1. ASSUME NEW i \in 1..N PROVE f[i] \in T /\ f[i].k = i
  <2>1. \E c \in T : c.k = i
    <3>1. i \in {c.k : c \in T}
      OBVIOUS
    <3> QED
      BY <3>1
  <2> QED
    BY <2>1
<1>2. f \in [1..N -> T]
  BY <1>1
<1>3. \A i, j \in 1..N : f[i] = f[j] => i = j
  BY <1>1
<1>4. \A c \in T : \E i \in 1..N : f[i] = c
  <2> TAKE c \in T
  <2>1. c.k \in 1..N
    OBVIOUS
  <2>2. f[c.k] = c
    BY <1>1, <2>1
  <2> QED
    BY <2>1, <2>2
<1> HIDE DEF f, T
<1>5. f \in Bijection(1..N, T)
  BY <1>2, <1>3, <1>4 DEF Bijection, Injection, IsInjective, Surjection
<1>6. ExistsBijection(1..N, T)
  BY <1>5 DEF ExistsBijection
<1>7. Cardinality(T) = N
  BY <1>6, FS_CountingElements
<1> QED
  BY <1>7 DEF T, CallsOf

\* A request that is relabelled is otherwise the same.
LEMMA KeptSame ==
    ASSUME NEW d, CallShape(d), NEW leaves, NEW up
    PROVE  /\ CallShape(Kept(d, leaves, up))
           /\ Kept(d, leaves, up).do = d.do /\ Kept(d, leaves, up).q = d.q
           /\ Kept(d, leaves, up).since = d.since /\ Kept(d, leaves, up).k = d.k
           /\ Kept(d, leaves, up).late = d.late
<1>1. PICK n \in Names : \E q, l, w, ov, lt, k : d = [do |-> n, q |-> q, life |-> l, since |-> w, over |-> ov, late |-> lt, k |-> k]
  BY DEF CallShape
<1>2. PICK q, l, w, ov, lt, k : d = [do |-> n, q |-> q, life |-> l, since |-> w, over |-> ov, late |-> lt, k |-> k]
  BY <1>1
<1> DEFINE e == Kept(d, leaves, up)
<1>3. PICK x \in {l, "none", "page"} : e = [do |-> n, q |-> q, life |-> x, since |-> w, over |-> ov, late |-> lt, k |-> k]
  BY <1>2 DEF Kept, Outlives
<1> HIDE DEF e
<1>4. e.do = d.do /\ e.q = d.q /\ e.since = d.since /\ e.k = d.k /\ e.late = d.late
  BY <1>2, <1>3
<1>5. CallShape(e)
  BY <1>3, Zenon DEF CallShape
<1> QED
  BY <1>4, <1>5 DEF e

\* A request that is sent asks for what the server has now, with the parameters that are
\* set, and has a number above all others.
LEMMA SentNow ==
    ASSUME NEW ns \in SUBSET Names, NEW up, NEW qs, NEW pending, NEW contents,
           NEW d \in Sent(ns, up, qs, pending, contents),
           NEW N \in Nat, {c.k : c \in CallsOf(pending, d.do)} = 1..N,
           \A c, e \in CallsOf(pending, d.do) : c.k = e.k => c = e
    PROVE  /\ CallShape(d) /\ d.do \in ns /\ d.life = Life(H(d.do).on, up)
           /\ d.q = ParameterOf(d.do, qs)
           /\ d.since = IF d.do \in Readers THEN Version(d.do, contents) ELSE 0
           /\ d.k = N + 1 /\ ~ d.late
<1>1. PICK n \in ns :
        d = [do |-> n, q |-> ParameterOf(n, qs), life |-> Life(H(n).on, up),
             since |-> IF n \in Readers THEN Version(n, contents) ELSE 0,
             over |-> n \in Watchers /\ ended, late |-> FALSE,
             k |-> 1 + Cardinality({x \in pending : x.do = n})]
  BY Zenon DEF Sent
<1>2. CallShape(d)
  BY <1>1, Zenon DEF CallShape
<1>3. /\ d.do = n /\ d.life = Life(H(n).on, up) /\ d.q = ParameterOf(n, qs)
      /\ d.since = IF n \in Readers THEN Version(n, contents) ELSE 0
      /\ d.k = 1 + Cardinality({x \in pending : x.do = n}) /\ ~ d.late
  BY <1>1
<1>4. Cardinality({x \in pending : x.do = n}) = N
  BY <1>3, NextNumber
<1> QED
  BY <1>2, <1>3, <1>4

\* Numbers survive a step that sends requests and relabels those that are under way.
LEMMA NumberedKept ==
    ASSUME NEW ns \in SUBSET Names, NEW up, NEW within, NEW qs, NEW pending, NEW contents, NEW leaves,
           \A d \in pending : CallShape(d), NEW n, Numbered(pending, n)
    PROVE  Numbered({Kept(d, leaves, up) : d \in pending \cup Sent(ns, within, qs, pending, contents)}, n)
<1> DEFINE S == Sent(ns, within, qs, pending, contents)
           T == {Kept(d, leaves, up) : d \in pending \cup S}
<1>1. PICK N \in Nat : /\ {c.k : c \in CallsOf(pending, n)} = 1..N
                       /\ \A c, d \in CallsOf(pending, n) : c.k = d.k => c = d
  BY DEF Numbered
<1>2. ASSUME NEW d \in S, d.do = n PROVE CallShape(d) /\ n \in ns /\ d.k = N + 1
  BY <1>1, <1>2, SentNow
<1>3. ASSUME NEW d \in S PROVE CallShape(d)
  <2>1. PICK m \in ns :
          d = [do |-> m, q |-> ParameterOf(m, qs), life |-> Life(H(m).on, within),
               since |-> IF m \in Readers THEN Version(m, contents) ELSE 0,
               over |-> m \in Watchers /\ ended, late |-> FALSE,
               k |-> 1 + Cardinality({x \in pending : x.do = m})]
    BY Zenon DEF Sent
  <2> QED
    BY <2>1, Zenon DEF CallShape
<1>4. n \in ns => \E d \in S : d.do = n
  <2> SUFFICES ASSUME n \in ns PROVE \E d \in S : d.do = n
    OBVIOUS
  <2> DEFINE d == [do |-> n, q |-> ParameterOf(n, qs), life |-> Life(H(n).on, within),
                   since |-> IF n \in Readers THEN Version(n, contents) ELSE 0,
                   over |-> n \in Watchers /\ ended, late |-> FALSE,
                   k |-> 1 + Cardinality({x \in pending : x.do = n})]
  <2>1. d \in S
    BY Zenon DEF Sent
  <2>2. d.do = n
    OBVIOUS
  <2> QED
    BY <2>1, <2>2
<1>5. \A d, e \in S : d.do = e.do => d = e
  BY SentOnce
<1>6. \A d \in pending \cup S : CallShape(d)
  BY <1>3
<1> HIDE DEF S
<1>7. \A e \in CallsOf(T, n) : \E d \in CallsOf(pending \cup S, n) : e = Kept(d, leaves, up) /\ e.k = d.k
  BY <1>6, KeptSame DEF CallsOf
<1>8. \A d \in CallsOf(pending \cup S, n) : Kept(d, leaves, up) \in CallsOf(T, n) /\ Kept(d, leaves, up).k = d.k
  BY <1>6, KeptSame DEF CallsOf
<1>9. \A d, e \in CallsOf(pending \cup S, n) : d.k = e.k => d = e
  <2> SUFFICES ASSUME NEW d \in CallsOf(pending \cup S, n), NEW e \in CallsOf(pending \cup S, n), d.k = e.k
               PROVE  d = e
    OBVIOUS
  <2>1. \A x \in CallsOf(pending, n) : x.k \in 1..N
    BY <1>1
  <2>2. CASE d \in pending /\ e \in pending
    BY <1>1, <2>2 DEF CallsOf
  <2>3. CASE d \in S /\ e \in S
    BY <1>5, <2>3 DEF CallsOf
  <2>4. CASE d \in pending /\ e \in S
    BY <1>2, <2>1, <2>4 DEF CallsOf
  <2>5. CASE d \in S /\ e \in pending
    BY <1>2, <2>1, <2>5 DEF CallsOf
  <2> QED
    BY <2>2, <2>3, <2>4, <2>5 DEF CallsOf
<1> DEFINE M == IF n \in ns THEN N + 1 ELSE N
<1>10. {d.k : d \in CallsOf(pending \cup S, n)} = 1..M
  <2>1. ASSUME NEW i \in 1..M PROVE \E d \in CallsOf(pending \cup S, n) : d.k = i
    <3>1. CASE i \in 1..N
      <4>1. i \in {c.k : c \in CallsOf(pending, n)}
        BY <1>1, <3>1
      <4>2. PICK d \in CallsOf(pending, n) : d.k = i
        BY <4>1
      <4> QED
        BY <4>2 DEF CallsOf
    <3>2. CASE i \notin 1..N
      <4>1. n \in ns /\ i = N + 1
        BY <3>2
      <4>2. PICK d \in S : d.do = n
        BY <1>4, <4>1
      <4> QED
        BY <1>2, <4>1, <4>2 DEF CallsOf
    <3> QED
      BY <3>1, <3>2
  <2>2. ASSUME NEW d \in CallsOf(pending \cup S, n) PROVE d.k \in 1..M
    <3>1. CASE d \in pending
      <4>1. d.k \in 1..N
        BY <1>1, <2>2, <3>1 DEF CallsOf
      <4> QED
        BY <4>1
    <3>2. CASE d \in S
      BY <1>2, <2>2, <3>2 DEF CallsOf
    <3> QED
      BY <2>2, <3>1, <3>2 DEF CallsOf
  <2> QED
    BY <2>1, <2>2
<1> HIDE DEF T, M
<1>11. {e.k : e \in CallsOf(T, n)} = 1..M
  <2>1. \A e \in CallsOf(T, n) : e.k \in {d.k : d \in CallsOf(pending \cup S, n)}
    BY <1>7
  <2>2. ASSUME NEW i \in 1..M PROVE i \in {e.k : e \in CallsOf(T, n)}
    <3>1. PICK d \in CallsOf(pending \cup S, n) : d.k = i
      BY <1>10
    <3> QED
      BY <1>8, <3>1
  <2> QED
    BY <1>10, <2>1, <2>2
<1>12. \A d, e \in CallsOf(T, n) : d.k = e.k => d = e
  BY <1>7, <1>9
<1>13. M \in Nat
  BY DEF M
<1>14. Numbered(T, n)
  BY <1>11, <1>12, <1>13 DEF Numbered
<1> QED
  BY <1>14 DEF T, S

\* A request that was not answered, or overtaken, when c was; what becomes of it; and the
\* requests that are left.
Steps == {"called", "answered", "failed"}
Stays(d, c, step) == step # "called" => d # c /\ ~ Overtaken(d, c)
Lags(d, c, step) == step = "answered" /\ c.life = "surface" /\ d.do = c.do /\ d.k < c.k
Moved(d, c, step) == IF step = "called" THEN d ELSE Goes(d, c, step = "answered")
PendingOf(c, step) == {Moved(d, c, step) : d \in {x \in calls : Stays(x, c, step)}}

\* Requests and their numbers; where only the last answer is used, no other comes late.
Ranked ==
    /\ \A n \in Names : Numbered(calls, n)
    /\ \A c \in calls : H(c.do).latest => ~ c.late

LEMMA RanksAre ==
    ASSUME Inv, \A n \in Names : Numbered(calls, n)
    PROVE  /\ \A d \in calls : CallShape(d) /\ d.do \in Names /\ d.k \in Nat /\ d.k > 0
           /\ \A c, d \in calls : c.do = d.do /\ c.k = d.k => c = d
<1>1. \A d \in calls : CallShape(d) /\ d.do \in Names
  BY Relabelled DEF Inv, CallsOK, CallShape, Shape
<1>2. ASSUME NEW d \in calls, NEW c \in calls, c.do = d.do
      PROVE  d.k \in Nat /\ d.k > 0 /\ (c.k = d.k => c = d)
  <2>1. PICK N \in Nat : /\ {x.k : x \in CallsOf(calls, d.do)} = 1..N
                         /\ \A x, y \in CallsOf(calls, d.do) : x.k = y.k => x = y
    BY <1>1 DEF Numbered
  <2>2. d.k \in 1..N
    BY <2>1 DEF CallsOf
  <2> QED
    BY <1>2, <2>1, <2>2 DEF CallsOf
<1> QED
  BY <1>1, <1>2

\* What is left is as it was, but for the numbers, and for what is late now.
LEMMA MovedAre ==
    ASSUME Inv, Ranked, NEW c, NEW step \in Steps, step # "called" => c \in calls, NEW d \in calls
    PROVE  /\ CallShape(Moved(d, c, step))
           /\ Moved(d, c, step).do = d.do /\ Moved(d, c, step).q = d.q
           /\ Moved(d, c, step).life = d.life /\ Moved(d, c, step).since = d.since
           /\ Moved(d, c, step).k
                = IF step # "called" /\ d.do = c.do /\ d.k > c.k THEN d.k - Places(c) ELSE d.k
           /\ Moved(d, c, step).late <=> d.late \/ Lags(d, c, step)
<1>1. CallShape(d)
  BY RanksAre DEF Ranked
<1>2. CASE step # "called"
  BY <1>1, <1>2, GoesSame DEF Moved, Lags
<1>3. CASE step = "called"
  BY <1>1, <1>3 DEF Moved, Lags
<1> QED
  BY <1>2, <1>3

LEMMA MovedSame ==
    ASSUME Inv, Ranked, NEW c, NEW step \in Steps, step # "called" => c \in calls
    PROVE  \A d \in calls :
              /\ Moved(d, c, step).do = d.do /\ Moved(d, c, step).life = d.life
              /\ Moved(d, c, step).q = d.q /\ Moved(d, c, step).since = d.since
              /\ Moved(d, c, step).late <=> d.late \/ Lags(d, c, step)
<1>1. \A d \in calls : /\ Moved(d, c, step).do = d.do /\ Moved(d, c, step).life = d.life
                       /\ Moved(d, c, step).q = d.q /\ Moved(d, c, step).since = d.since
  BY MovedAre
<1>2. \A d \in calls :
         Moved(d, c, step).late <=> d.late \/ Lags(d, c, step)
  BY MovedAre
<1> QED
  BY <1>1, <1>2, Zenon

LEMMA MovedRank ==
    ASSUME Inv, Ranked, NEW c, NEW step \in Steps, step # "called" => c \in calls
    PROVE  \A d \in calls :
              Moved(d, c, step).k = IF step # "called" /\ d.do = c.do /\ d.k > c.k THEN d.k - Places(c) ELSE d.k
  BY MovedAre

LEMMA OrderKept ==
    ASSUME Inv, Ranked, NEW c, NEW step \in Steps, step # "called" => c \in calls,
           NEW x \in calls, NEW y \in calls, Stays(x, c, step), Stays(y, c, step), x.do = y.do, x.k < y.k
    PROVE  Moved(x, c, step).k < Moved(y, c, step).k
<1>1. /\ Moved(x, c, step).k = IF step # "called" /\ x.do = c.do /\ x.k > c.k THEN x.k - Places(c) ELSE x.k
      /\ Moved(y, c, step).k = IF step # "called" /\ y.do = c.do /\ y.k > c.k THEN y.k - Places(c) ELSE y.k
  BY MovedRank, Zenon
<1>2. x.k \in Nat /\ y.k \in Nat /\ (step # "called" => c.k \in Nat /\ c.k > 0)
  BY RanksAre DEF Ranked
<1>3. CASE step # "called" /\ x.do = c.do
  <2>1. y # c /\ x # c /\ c.k \in Nat /\ c.k > 0 /\ y.k # c.k /\ x.k # c.k
    BY <1>2, <1>3, RanksAre DEF Stays, Ranked
  <2>2. CASE H(c.do).latest
    <3>1. x.k > c.k
      BY <1>2, <1>3, <2>1, <2>2 DEF Stays, Overtaken
    <3> QED
      BY <1>1, <1>2, <1>3, <2>1, <2>2, <3>1 DEF Places
  <2>3. CASE ~ H(c.do).latest
    BY <1>1, <1>2, <1>3, <2>1, <2>3 DEF Places
  <2> QED
    BY <2>2, <2>3
<1>4. CASE ~ (step # "called" /\ x.do = c.do)
  BY <1>1, <1>4
<1> QED
  BY <1>3, <1>4

LEMMA PendingAre ==
    ASSUME Inv, Ranked, NEW c, NEW step \in Steps, step # "called" => c \in calls
    PROVE  /\ \A e \in PendingOf(c, step) : CallShape(e) /\ (H(e.do).latest => ~ e.late)
           /\ \A n \in Names : Numbered(PendingOf(c, step), n)
<1> DEFINE S == PendingOf(c, step)
           M(d) == Moved(d, c, step)
<1>0. \A d \in calls : d.do \in Names /\ d.k \in Nat /\ d.k > 0
  BY RanksAre DEF Ranked
<1>1. \A e \in S : \E d \in calls : Stays(d, c, step) /\ e = M(d)
  BY DEF PendingOf
<1>2. \A d \in calls : Stays(d, c, step) => M(d) \in S
  BY DEF PendingOf
<1>3. \A d \in calls :
         /\ CallShape(M(d)) /\ M(d).do = d.do
         /\ M(d).k = IF step # "called" /\ d.do = c.do /\ d.k > c.k THEN d.k - Places(c) ELSE d.k
         /\ M(d).late <=> d.late \/ Lags(d, c, step)
  BY MovedAre
<1> HIDE DEF S, M
<1>4. ASSUME NEW e \in S PROVE CallShape(e) /\ (H(e.do).latest => ~ e.late)
  <2>1. PICK d \in calls : Stays(d, c, step) /\ e = M(d)
    BY <1>1
  <2> QED
    BY <1>3, <2>1 DEF Stays, Overtaken, Ranked, Lags
<1>5. ASSUME NEW n \in Names PROVE Numbered(S, n)
  <2>1. PICK N \in Nat : /\ {x.k : x \in CallsOf(calls, n)} = 1..N
                         /\ \A x, y \in CallsOf(calls, n) : x.k = y.k => x = y
    BY DEF Ranked, Numbered
  <2>2. \A d \in CallsOf(calls, n) : d.k \in 1..N
    BY <2>1
  <2>3. \A i \in 1..N : \E d \in CallsOf(calls, n) : d.k = i
    <3> TAKE i \in 1..N
    <3>1. i \in {x.k : x \in CallsOf(calls, n)}
      BY <2>1
    <3> QED
      BY <3>1
  <2>4. \A e \in CallsOf(S, n) : \E d \in CallsOf(calls, n) : Stays(d, c, step) /\ e = M(d)
    BY <1>1, <1>3 DEF CallsOf
  <2>5. \A d \in CallsOf(calls, n) : Stays(d, c, step) => M(d) \in CallsOf(S, n)
    BY <1>2, <1>3 DEF CallsOf
  <2>6. ASSUME NEW x \in CallsOf(S, n), NEW y \in CallsOf(S, n), x.k = y.k PROVE x = y
    <3>1. PICK d \in CallsOf(calls, n) : Stays(d, c, step) /\ x = M(d)
      BY <2>4
    <3>2. PICK e \in CallsOf(calls, n) : Stays(e, c, step) /\ y = M(e)
      BY <2>4
    <3>3. /\ d \in calls /\ e \in calls /\ d.do = e.do /\ d.k \in Nat /\ e.k \in Nat
          /\ M(d).k \in Int /\ M(e).k \in Int
      <4>1. d \in calls /\ e \in calls /\ d.do = e.do /\ d.k \in Nat /\ e.k \in Nat
        BY <1>0 DEF CallsOf
      <4>2. step # "called" => Places(c) \in Int
        BY <1>0 DEF Places
      <4>3. /\ M(d).k = d.k \/ (step # "called" /\ M(d).k = d.k - Places(c))
            /\ M(e).k = e.k \/ (step # "called" /\ M(e).k = e.k - Places(c))
        BY <1>3, <4>1
      <4> QED
        BY <4>1, <4>2, <4>3
    <3>4. ~ d.k < e.k /\ ~ e.k < d.k
      <4>1. d.k < e.k => M(d).k < M(e).k
        BY <3>1, <3>2, <3>3, OrderKept DEF M
      <4>2. e.k < d.k => M(e).k < M(d).k
        BY <3>1, <3>2, <3>3, OrderKept DEF M
      <4> QED
        BY <2>6, <3>1, <3>2, <3>3, <4>1, <4>2
    <3>5. d = e
      BY <2>1, <3>3, <3>4
    <3> QED
      BY <3>1, <3>2, <3>5
  <2>7. CASE ~ (step # "called" /\ n = c.do)
    <3>1. \A d \in CallsOf(calls, n) : Stays(d, c, step) /\ M(d).k = d.k
      BY <1>3, <2>7 DEF CallsOf, Stays, Overtaken
    <3>2. {e.k : e \in CallsOf(S, n)} = 1..N
      BY <2>2, <2>3, <2>4, <2>5, <3>1
    <3> QED
      BY <2>6, <3>2 DEF Numbered
  <2>8. CASE step # "called" /\ n = c.do
    <3>1. c \in CallsOf(calls, n) /\ c.k \in 1..N /\ Places(c) \in 1..c.k
      BY <2>2, <2>8 DEF CallsOf, Places
    <3>2. \A d \in CallsOf(calls, n) : Stays(d, c, step) <=> d.k # c.k /\ (H(c.do).latest => d.k > c.k)
      <4>1. \A d \in CallsOf(calls, n) : d # c <=> d.k # c.k
        BY <2>1, <3>1
      <4>2. \A d \in CallsOf(calls, n) : Overtaken(d, c) <=> H(c.do).latest /\ d.k < c.k
        BY <2>8 DEF Overtaken, CallsOf
      <4> QED
        BY <2>2, <2>8, <3>1, <4>1, <4>2 DEF Stays
    <3>3. \A d \in CallsOf(calls, n) : M(d).k = IF d.k > c.k THEN d.k - Places(c) ELSE d.k
      BY <1>3, <2>8 DEF CallsOf
    <3>4. ASSUME NEW e \in CallsOf(S, n) PROVE e.k \in 1..(N - Places(c))
      <4>1. PICK d \in CallsOf(calls, n) : Stays(d, c, step) /\ e = M(d)
        BY <2>4
      <4> QED
        BY <2>2, <3>1, <3>2, <3>3, <4>1 DEF Places
    <3>5. ASSUME NEW i \in 1..(N - Places(c)) PROVE i \in {e.k : e \in CallsOf(S, n)}
      <4> DEFINE at == IF H(c.do).latest THEN i + c.k ELSE IF i < c.k THEN i ELSE i + 1
      <4>1. at \in 1..N /\ at # c.k /\ (H(c.do).latest => at > c.k)
        BY <3>1 DEF Places
      <4>2. (IF at > c.k THEN at - Places(c) ELSE at) = i
        BY <3>1 DEF Places
      <4> HIDE DEF at
      <4>3. PICK d \in CallsOf(calls, n) : d.k = at
        BY <2>3, <4>1
      <4>4. M(d) \in CallsOf(S, n)
        BY <2>5, <3>2, <4>1, <4>3
      <4>5. M(d).k = i
        BY <3>3, <4>2, <4>3
      <4> QED
        BY <4>4, <4>5
    <3>6. {e.k : e \in CallsOf(S, n)} = 1..(N - Places(c)) /\ N - Places(c) \in Nat
      BY <3>1, <3>4, <3>5
    <3> QED
      BY <2>6, <3>6 DEF Numbered
  <2> QED
    BY <2>7, <2>8
<1> QED
  BY <1>4, <1>5 DEF S

\* A click or a timer leaves all requests, an answer the others.
LEMMA AllPending == ASSUME NEW c PROVE PendingOf(c, "called") = calls
  BY DEF PendingOf, Moved, Stays

LEMMA RestPending ==
    ASSUME NEW c
    PROVE  PendingOf(c, "answered") = Answered(calls, c) /\ PendingOf(c, "failed") = Without(calls, c)
<1>1. \A step \in {"answered", "failed"} : {x \in calls : Stays(x, c, step)} = Remaining(calls, c)
  BY DEF Stays, Remaining
<1>2. \A d : /\ Moved(d, c, "answered") = Renumbered(Lagging(d, c), c)
             /\ Moved(d, c, "failed") = Renumbered(d, c)
  BY DEF Moved, Goes
<1> QED
  BY <1>1, <1>2 DEF PendingOf, Answered, Without

\* A callback leaves the requests ranked.
LEMMA RankedKept ==
    ASSUME UNCHANGED page, NEW pending, \A n \in Names : Numbered(pending, n),
           \A e \in pending : CallShape(e) /\ (H(e.do).latest => ~ e.late),
           NEW ns \in SUBSET Names, NEW up, NEW within, NEW qs, NEW contents, NEW leaves,
           calls' = {Kept(d, leaves, up) : d \in pending \cup Sent(ns, within, qs, pending, contents)}
    PROVE  Ranked'
<1> DEFINE S == Sent(ns, within, qs, pending, contents)
           T == {Kept(d, leaves, up) : d \in pending \cup S}
<1>1. UNCHANGED Names /\ \A n : UNCHANGED H(n)
  BY DEF Names, H
<1>2. \A n \in Names : Numbered(T, n)
  BY NumberedKept
<1>3. ASSUME NEW d \in S PROVE CallShape(d) /\ ~ d.late
  <2>1. d.do \in Names
    BY <1>3, SentLife
  <2>2. PICK N \in Nat : /\ {x.k : x \in CallsOf(pending, d.do)} = 1..N
                         /\ \A x, y \in CallsOf(pending, d.do) : x.k = y.k => x = y
    BY <2>1 DEF Numbered
  <2> QED
    BY <1>3, <2>2, SentNow
<1>4. calls' = T
  OBVIOUS
<1> HIDE DEF S
<1>5. ASSUME NEW e \in T, H(e.do).latest PROVE ~ e.late
  <2>1. PICK d \in pending \cup S : e = Kept(d, leaves, up)
    OBVIOUS
  <2>2. CallShape(d) /\ (H(d.do).latest => ~ d.late)
    BY <1>3
  <2> QED
    BY <1>5, <2>1, <2>2, KeptSame
<1> HIDE DEF T
<1> QED
  BY <1>1, <1>2, <1>4, <1>5 DEF Ranked, Numbered, CallsOf

-----------------------------------------------------------------------------
(* What is shown *)

\* The parameters a request of n is sent with, and the timers that are set afterwards.
AskedWith(effects) == [n \in Searchers \ Of(effects, "runPlain") |-> query'[n]]
TimersOf(effects, c, ticking, over) ==
    {Kept(t, Leaves(effects, c), UpAfter(effects, c)) :
       t \in StillSet(effects, c, ticking)
                \cup Set(SetAgain(effects, c, ticking, over), WithinOf(effects, c), StillSet(effects, c, ticking))}

\* What is on the screen after a callback that does not fill it in for another: what was
\* there before, or what the answer carried.
LEMMA EffectsFresh ==
    ASSUME NEW effects, NEW c, NEW pending, NEW ticking, Effects(effects, c, pending, ticking)
    PROVE  /\ calls' = {Kept(d, Leaves(effects, c), UpAfter(effects, c)) :
                          d \in pending \cup Sent(RunBy(effects, c), WithinOf(effects, c),
                                                  AskedWith(effects), pending, server')}
           /\ \A n \in Searchers :
                 /\ n \notin Of(effects, "requery") => query'[n] \in {query[n], 0}
                 /\ H(n).on \in open \cap open' /\ (n \notin Of(effects, "requery") \/ H(n).on \notin WithinOf(effects, c))
                       => query'[n] = query[n]
           /\ \E carried \in Carried(c), over \in Found(c) :
                 /\ timers' = TimersOf(effects, c, ticking, over)
                 /\ \A n \in Readers :
                       n \notin Of(effects, "fill") =>
                          shown'[n] = IF H(n).on \notin open \cap open' THEN Nothing
                                      ELSE IF n = c.do /\ c.life = "surface" /\ Of(effects, "show") # {}
                                        THEN [q |-> c.q, v |-> carried, ended |-> over, late |-> c.late]
                                      ELSE shown[n]
<1> DEFINE there == c.life # "none"
           closed == IF there THEN Of(effects, "close") ELSE {}
           opened == IF there THEN Of(effects, "open") \ open ELSE {}
           up == (open \ closed) \cup opened
           leaves == there /\ Of(effects, "leave") # {}
           plain == Of(effects, "runPlain")
           mine == c.life = "surface"
           within == IF mine \/ H(c.do).on = "page" THEN up ELSE (up \ {H(c.do).on}) \cup opened
           cleared == {<<H(c.do).on, f>> : f \in IF mine THEN Of(effects, "clear") ELSE {}}
           silent == Of(effects, "runSilently")
           called == Of(effects, "run") \cup silent \cup plain \cup UNION {page.mount[s] : s \in opened}
           starts == called \cap Intervals
           runs == {n \in called \ Intervals :
                      \A f \in H(n).unless : <<H(n).on, f>> \notin busy \ cleared}
           changed == {n \in Of(effects, "requery") \cap Searchers : there /\ H(n).on \in within}
           spun == {<<H(c.do).on, f>> : f \in IF mine THEN Of(effects, "spin") ELSE {}}
           gone == {n \in page.stops : leaves \/ H(n).on \in open \ up}
           set == Cleared(ticking, Of(effects, "stop") \cup gone)
           polls == Of(effects, "poll") \cup IF mine THEN Of(effects, "pollOnce") ELSE {}
           again(over) == Of(effects, "tick") \cup starts
                              \cup IF over THEN {} ELSE {n \in polls : \A t \in set : t.do # n \/ t.life # c.life}
           left == IF leaves THEN {} ELSE up
           kept == left \cap open
           fresh == [n \in Searchers |-> IF H(n).on \in kept THEN query[n] ELSE 0]
           q(new) == [n \in Searchers |-> IF n \in changed /\ H(n).on \in left THEN new[n] ELSE fresh[n]]
<1>1. PICK new \in [changed -> 0..1], carried \in Carried(c), over \in Found(c) :
        /\ away' = (away \/ leaves)
        /\ open' = left
        /\ query' = q(new)
        /\ calls' = {IF leaves THEN [d EXCEPT !.life = "none"] ELSE Outlives(d, up) :
                       d \in pending \cup Sent(runs, within, [n \in Searchers \ plain |-> q(new)[n]], pending, server')}
        /\ timers' = {IF leaves THEN [t EXCEPT !.life = "none"] ELSE Outlives(t, up) :
                        t \in set \cup Set(again(over), within, set)}
        /\ busy' = {b \in (busy \ cleared) \cup Spinning(runs \ silent, within) \cup spun : b[1] \in left}
        /\ shown' = [n \in Readers |->
                       IF H(n).on \notin kept THEN Nothing
                       ELSE IF \/ n = c.do /\ mine /\ Of(effects, "show") # {}
                               \/ n \in Of(effects, "fill") /\ H(n).on \in within
                         THEN [q |-> IF n = c.do THEN c.q ELSE ParameterOf(n, q(new)),
                               v |-> IF c.do \in Readers THEN carried ELSE Version(n, server'),
                               ended |-> over, late |-> c.late]
                       ELSE shown[n]]
  BY DEF Effects
<1>2. runs = RunBy(effects, c) /\ set = StillSet(effects, c, ticking)
  BY DEF RunBy, CalledBy, OpenedBy, SwitchedOff, StillSet, Leaves, UpAfter
<1>3. leaves = Leaves(effects, c) /\ up = UpAfter(effects, c) /\ within = WithinOf(effects, c)
  BY DEF Leaves, UpAfter, OpenedBy, WithinOf
<1>4. ASSUME NEW n \in Searchers
      PROVE  /\ n \notin Of(effects, "requery") => query'[n] \in {query[n], 0}
             /\ H(n).on \in open \cap open' /\ (n \notin Of(effects, "requery") \/ H(n).on \notin WithinOf(effects, c))
                   => query'[n] = query[n]
  <2>1. n \notin changed => query'[n] = fresh[n]
    BY <1>1, <1>4
  <2>2. n \notin Of(effects, "requery") \/ H(n).on \notin WithinOf(effects, c) => n \notin changed
    BY <1>3
  <2>3. fresh[n] = IF H(n).on \in open \cap open' THEN query[n] ELSE 0
    BY <1>1, <1>4
  <2> HIDE DEF changed, fresh
  <2> QED
    BY <2>1, <2>2, <2>3
<1>5. ASSUME NEW n \in Readers, n \notin Of(effects, "fill")
      PROVE  shown'[n] = IF H(n).on \notin open \cap open' THEN Nothing
                         ELSE IF n = c.do /\ c.life = "surface" /\ Of(effects, "show") # {}
                           THEN [q |-> c.q, v |-> carried, ended |-> over, late |-> c.late]
                         ELSE shown[n]
  <2>1. kept = open \cap open'
    BY <1>1
  <2>2. shown'[n] = IF H(n).on \notin kept THEN Nothing
                    ELSE IF n = c.do /\ mine /\ Of(effects, "show") # {}
                      THEN [q |-> IF n = c.do THEN c.q ELSE ParameterOf(n, q(new)),
                            v |-> IF c.do \in Readers THEN carried ELSE Version(n, server'),
                            ended |-> over, late |-> c.late]
                    ELSE shown[n]
    <3> HIDE DEF kept, mine, q, called, runs, cleared, set, again, up, left, leaves, spun, gone, changed, fresh, within
    <3> QED
      BY <1>1, <1>5, Zenon
  <2> HIDE DEF kept, q
  <2> QED
    BY <2>1, <2>2
<1>6. [n \in Searchers \ plain |-> q(new)[n]] = AskedWith(effects)
  BY <1>1 DEF AskedWith
<1>7. again(over) = SetAgain(effects, c, ticking, over)
  <2>1. starts = CalledBy(effects, c) \cap Intervals
    BY DEF CalledBy, OpenedBy
  <2> HIDE DEF set, starts
  <2> QED
    BY <1>2, <2>1, Zenon DEF SetAgain
<1> HIDE DEF q, leaves, up, left, runs, plain, within, set, again
<1>8. calls' = {Kept(d, Leaves(effects, c), UpAfter(effects, c)) :
                  d \in pending \cup Sent(RunBy(effects, c), WithinOf(effects, c),
                                          AskedWith(effects), pending, server')}
  BY <1>1, <1>2, <1>3, <1>6, Zenon DEF Kept
<1>9. timers' = TimersOf(effects, c, ticking, over)
  BY <1>1, <1>2, <1>3, <1>7, Zenon DEF Kept, TimersOf
<1> QED
  BY <1>4, <1>5, <1>8, <1>9

\* A request for the surface of n.  A callback that concerns the component that shows n,
\* and not one of the same kind that was there before.
Mine(c, n) == c.do = n /\ c.life = "surface"
Reaches(c, n) == c.life = "surface" \/ H(c.do).on # H(n).on \/ H(n).on = "page"

\* A request is under way that will have n read again.
Coming(n, R) == \E c \in calls : c.do \in R \ {n} /\ Reaches(c, n)

\* What is read at the version v with the parameters q is what the server has.
Current(n, q, v) == v = Version(n, server) /\ (n \in Searchers => q = query[n])

\* Unless n will be read again, what it shows is current, or came late, or a request of it
\* is under way that is not late; and the last of these will bring what is current: the
\* server has not changed since.
RereadOK(n, R) ==
    \/ Coming(n, R)
    \/ Waits(n)
    \/ /\ shown[n] # Nothing =>
             \/ Current(n, shown[n].q, shown[n].v)
             \/ shown[n].late
             \/ \E c \in calls : Mine(c, n) /\ ~ c.late
       /\ \A c \in calls :
             Mine(c, n) /\ ~ c.late =>
                \/ Current(n, c.q, c.since)
                \/ \E d \in calls : Mine(d, n) /\ ~ d.late /\ d.k > c.k

\* What n shows is the end of what it watches, or n will be read again.
RepeatOK(n, R) ==
    shown[n] # Nothing =>
        \/ n \in Watchers /\ shown[n].ended
        \/ \E t \in timers : t.do = n /\ t.life = "surface"
        \/ Coming(n, R)
        \/ \E c \in calls : Mine(c, n)

\* What n is asked when its surface appears, and only then, is never late.
MountedOK(n) ==
    OnlyMounted(page, n) =>
        /\ \A c, d \in calls : Mine(c, n) /\ Mine(d, n) => c = d
        /\ \A c \in calls : Mine(c, n) => ~ c.late

\* What does not change is as it was at first.
SameOK(n) ==
    Unchanging(page.handlers, n) =>
        /\ Version(n, server) = 0 /\ (n \in Searchers => query[n] = 0)
        /\ \A c \in calls : c.do = n => c.since = 0 /\ (n \in Searchers => c.q = 0)
        /\ shown[n] # Nothing => shown[n].v = 0 /\ (n \in Searchers => shown[n].q = 0)

FreshOK(n) ==
    /\ ~ Shows(page.handlers, n) => shown[n] = Nothing
    /\ H(n).latest \/ OnlyMounted(page, n) => ~ shown[n].late
    /\ MountedOK(n)
    /\ SameOK(n)
    /\ Shows(page.handlers, n) =>
          \A R : R \subseteq Renewing(page.handlers, n, R) =>
             /\ Rereads(page.handlers, n, R) => RereadOK(n, R)
             /\ Repeats(page.handlers, n, R) => RepeatOK(n, R)

FreshInv ==
    /\ Ranked
    /\ ~ away /\ faults = 0 => \A n \in Readers : ~ Filled(page.handlers, n) => FreshOK(n)

\* A click, a timer or an answer calls c back.  An answer has its effects, or is dropped
\* because a later one is to come; a click or a timer sends the request of a handler that
\* reads.
Callback(effects, c, pending, ticking, step) ==
    /\ c.do \in Names /\ EffectsOK(effects, H(c.do).on)
    /\ c.life = "none" => away
    /\ step \in {"called", "answered"} /\ pending = PendingOf(c, step)
    /\ step = "called" => (c.do \in Readers => effects = Run({c.do}))
    /\ step = "answered" => c \in calls /\ (effects = H(c.do).ok \/ (effects = {} /\ Dropped(c)))
    /\ \A kind \in {"requery", "stop", "fill", "runPlain", "clear"} :
          Of(effects, kind) = {} \/ (Of(effects, kind) = Of(H(c.do).ok, kind) /\ H(c.do).ok \subseteq effects)
    /\ CalledIn(effects) \subseteq CalledIn(H(c.do).ok) \cup {o.do : o \in page.offers} \cup page.timed
    /\ \A r \in Collections :
          server'[r] # server[r] =>
             H(c.do).kind = "write" /\ r \in H(c.do).of /\ (~ H(c.do).latest => effects = H(c.do).ok)
    /\ \A t \in ticking : Shape(t)
    /\ \A t \in timers :
          t.life = "surface" =>
             \/ t.do \in Intervals
             \/ \E u \in ticking : u.do = t.do /\ u.life = "surface"
             \/ effects = Run({t.do}) /\ c.life = "surface"
    /\ Effects(effects, c, pending, ticking)

\* The requests that remain after a callback, and those that do not: c, which was answered,
\* and what it has overtaken.
LEMMA PendingFrom ==
    ASSUME Inv, Ranked, NEW effects, NEW c, NEW pending, NEW ticking, NEW step,
           Callback(effects, c, pending, ticking, step)
    PROVE  /\ \A e \in pending : CallShape(e) /\ (H(e.do).latest => ~ e.late)
           /\ \A n \in Names : Numbered(pending, n)
           /\ \A e \in pending : \E d \in calls : Stays(d, c, step) /\ e = Moved(d, c, step)
           /\ \A d \in calls : Stays(d, c, step) => Moved(d, c, step) \in pending
           /\ \A d \in calls : /\ Moved(d, c, step).do = d.do /\ Moved(d, c, step).life = d.life
                               /\ Moved(d, c, step).q = d.q /\ Moved(d, c, step).since = d.since
           /\ \A d \in calls : Moved(d, c, step).late <=> d.late \/ Lags(d, c, step)
           /\ \A d \in calls :
                 ~ Stays(d, c, step) =>
                    /\ step = "answered" /\ c \in calls
                    /\ d = c \/ (H(c.do).latest /\ d.do = c.do /\ d.k < c.k)
<1>1. step \in Steps /\ (step # "called" => c \in calls) /\ pending = PendingOf(c, step)
  BY DEF Callback, Steps
<1>2. /\ \A e \in pending : CallShape(e) /\ (H(e.do).latest => ~ e.late)
      /\ \A n \in Names : Numbered(pending, n)
  BY <1>1, PendingAre
<1>3. /\ \A e \in pending : \E d \in calls : Stays(d, c, step) /\ e = Moved(d, c, step)
      /\ \A d \in calls : Stays(d, c, step) => Moved(d, c, step) \in pending
  BY <1>1 DEF PendingOf
<1>4. \A d \in calls :
         /\ Moved(d, c, step).do = d.do /\ Moved(d, c, step).life = d.life
         /\ Moved(d, c, step).q = d.q /\ Moved(d, c, step).since = d.since
         /\ Moved(d, c, step).late <=> d.late \/ Lags(d, c, step)
  BY <1>1, MovedSame
<1>5. \A d \in calls :
         ~ Stays(d, c, step) =>
            /\ step = "answered" /\ c \in calls
            /\ d = c \/ (H(c.do).latest /\ d.do = c.do /\ d.k < c.k)
  BY <1>1 DEF Callback, Stays, Overtaken
<1> QED
  BY <1>2, <1>3, <1>4, <1>5

LEMMA StayingAre ==
    ASSUME Inv, Ranked, NEW effects, NEW c, NEW pending, NEW ticking, NEW step,
           Callback(effects, c, pending, ticking, step), NEW d \in calls, Stays(d, c, step)
    PROVE  /\ Moved(d, c, step) \in pending
           /\ Moved(d, c, step).do = d.do /\ Moved(d, c, step).life = d.life
           /\ Moved(d, c, step).q = d.q /\ Moved(d, c, step).since = d.since
           /\ Moved(d, c, step).late <=> d.late \/ Lags(d, c, step)
<1>1. /\ \A x \in calls : Stays(x, c, step) => Moved(x, c, step) \in pending
      /\ \A x \in calls : /\ Moved(x, c, step).do = x.do /\ Moved(x, c, step).life = x.life
                          /\ Moved(x, c, step).q = x.q /\ Moved(x, c, step).since = x.since
      /\ \A x \in calls : Moved(x, c, step).late <=> x.late \/ Lags(x, c, step)
  BY PendingFrom
<1> QED
  BY <1>1, Zenon

LEMMA GoneAre ==
    ASSUME Inv, Ranked, NEW effects, NEW c, NEW pending, NEW ticking, NEW step,
           Callback(effects, c, pending, ticking, step), NEW d \in calls, ~ Stays(d, c, step)
    PROVE  /\ step = "answered" /\ c \in calls /\ d.do = c.do
           /\ d = c \/ (H(c.do).latest /\ d.k < c.k)
<1>1. \A x \in calls :
         ~ Stays(x, c, step) =>
            /\ step = "answered" /\ c \in calls
            /\ x = c \/ (H(c.do).latest /\ x.do = c.do /\ x.k < c.k)
  BY PendingFrom
<1> QED
  BY <1>1, Zenon

\* More effects renew more.
LEMMA RenewsMore ==
    ASSUME NEW h, NEW n, NEW R, NEW E, NEW F, E \subseteq F, Renews(h, n, R, E)
    PROVE  Renews(h, n, R, F)
<1>1. \A kind : Of(E, kind) \subseteq Of(F, kind)
  BY DEF Of
<1> QED
  BY <1>1 DEF Renews

\* The surfaces a callback reaches are those it concerns.
LEMMA ReachesWithin ==
    ASSUME UNCHANGED page, NEW n, NEW effects, NEW c, H(n).on \in open \cap UpAfter(effects, c)
    PROVE  Reaches(c, n) <=> H(n).on \in WithinOf(effects, c)
  BY DEF Reaches, WithinOf, UpAfter, OpenedBy

\* The requests of the surface of n after a callback: those that remain, and those that
\* are sent now.
LEMMA CallbackCalls ==
    ASSUME Inv, Ranked, UNCHANGED page, NEW n \in Readers, ~ away',
           NEW effects, NEW c, NEW pending, NEW ticking, NEW step, Callback(effects, c, pending, ticking, step)
    PROVE  /\ \A d \in pending : \E e \in calls' :
                 e.do = d.do /\ (d.life = "surface" /\ H(d.do).on \in open' => e.life = "surface")
           /\ \A m \in RunBy(effects, c) : \E e \in calls' :
                 e.do = m /\ (H(m).on \in WithinOf(effects, c) => e.life = "surface")
           /\ \A d \in pending : Mine(d, n) /\ H(n).on \in open' => d \in calls'
           /\ n \in RunBy(effects, c) /\ H(n).on \in WithinOf(effects, c) =>
                 \E e \in calls' : Mine(e, n) /\ ~ e.late /\ e \notin pending
           /\ \A e \in calls' :
                 Mine(e, n) =>
                    /\ H(n).on \in open'
                    /\ e \in pending \/ ( /\ n \in RunBy(effects, c)
                                          /\ ~ e.late
                                          /\ e.since = Version(n, server')
                                          /\ n \in Searchers /\ n \notin Of(effects, "runPlain") => e.q = query'[n]
                                          /\ \A d \in pending : d.do = n => d.k < e.k)
           /\ \A e \in calls' :
                 e.do = n =>
                    \/ \E d \in pending : d.do = n /\ e.q = d.q /\ e.since = d.since
                    \/ e.since = Version(n, server') /\ (n \in Searchers => e.q \in {0, query'[n]})
           /\ \A e, f \in calls' : Mine(e, n) /\ Mine(f, n) /\ e \notin pending /\ f \notin pending => e = f
<1> DEFINE up == UpAfter(effects, c)
           within == WithinOf(effects, c)
           leaves == Leaves(effects, c)
           runs == RunBy(effects, c)
           asked == AskedWith(effects)
           S == Sent(runs, within, asked, pending, server')
<1>1. calls' = {Kept(d, leaves, up) : d \in pending \cup S}
  <2>1. Effects(effects, c, pending, ticking)
    BY DEF Callback
  <2> HIDE DEF up, leaves, runs, asked, within
  <2>2. calls' = {Kept(d, Leaves(effects, c), UpAfter(effects, c)) :
                    d \in pending \cup Sent(RunBy(effects, c), WithinOf(effects, c),
                                            AskedWith(effects), pending, server')}
    BY <2>1, EffectsFresh
  <2> QED
    BY <2>2 DEF up, leaves, runs, asked, within
<1>2. ~ leaves /\ leaves \in BOOLEAN /\ open' = up /\ within \subseteq up /\ ~ away
  BY EffectsParts, WithinUp DEF Callback, Parts, Leaves
<1>3. runs \in SUBSET Names
  <2>1. \A m \in CalledBy(effects, c) : m \in Names
    BY CalledAre DEF Inv, Callback
  <2> QED
    BY <2>1 DEF RunBy
<1>4. \A d \in pending : CallShape(d)
  BY PendingFrom
<1>5. ASSUME NEW e \in S
      PROVE  /\ CallShape(e) /\ e.do \in runs /\ e.life = Life(H(e.do).on, within)
             /\ e.q = ParameterOf(e.do, asked) /\ ~ e.late
             /\ e.do \in Readers => e.since = Version(e.do, server')
             /\ \A d \in pending : d.do = e.do => d.k < e.k
             /\ e \notin pending
  <2>1. e.do \in Names
    BY <1>3, <1>5, SentLife
  <2>2. PICK N \in Nat : /\ {x.k : x \in CallsOf(pending, e.do)} = 1..N
                         /\ \A x, y \in CallsOf(pending, e.do) : x.k = y.k => x = y
    <3>1. Numbered(pending, e.do)
      BY <2>1, PendingFrom
    <3> QED
      BY <3>1 DEF Numbered
  <2> HIDE DEF runs, within, asked
  <2>3. /\ CallShape(e) /\ e.do \in runs /\ e.life = Life(H(e.do).on, within)
        /\ e.q = ParameterOf(e.do, asked) /\ ~ e.late
        /\ e.since = IF e.do \in Readers THEN Version(e.do, server') ELSE 0
        /\ e.k = N + 1
    <3>1. CallShape(e) /\ e.do \in runs /\ e.life = Life(H(e.do).on, within)
      BY <1>3, <1>5, <2>2, SentNow
    <3>2. PICK m \in runs :
            e = [do |-> m, q |-> ParameterOf(m, asked), life |-> Life(H(m).on, within),
                 since |-> IF m \in Readers THEN Version(m, server') ELSE 0,
                 over |-> m \in Watchers /\ ended, late |-> FALSE,
                 k |-> 1 + Cardinality({x \in pending : x.do = m})]
      BY <1>5, Zenon DEF Sent
    <3>3. ~ e.late /\ e.k = N + 1
      BY <1>3, <1>5, <2>2, SentNow
    <3>4. /\ e.q = ParameterOf(e.do, asked)
          /\ e.since = IF e.do \in Readers THEN Version(e.do, server') ELSE 0
      BY <3>2
    <3> QED
      BY <3>1, <3>3, <3>4
  <2>4. \A d \in pending : d.do = e.do => d.k \in 1..N
    BY <2>2 DEF CallsOf
  <2>5. \A d \in pending : d.do = e.do => d.k < e.k /\ d.k # e.k
    BY <2>2, <2>3, <2>4
  <2> QED
    BY <2>3, <2>5
<1>6. \A m \in runs : \E e \in S : e.do = m
  <2> SUFFICES ASSUME NEW m \in runs PROVE \E e \in S : e.do = m
    OBVIOUS
  <2> DEFINE e == [do |-> m, q |-> ParameterOf(m, asked), life |-> Life(H(m).on, within),
                   since |-> IF m \in Readers THEN Version(m, server') ELSE 0,
                   over |-> m \in Watchers /\ ended, late |-> FALSE,
                   k |-> 1 + Cardinality({x \in pending : x.do = m})]
  <2>1. e \in S
    BY Zenon DEF Sent
  <2>2. e.do = m
    OBVIOUS
  <2> QED
    BY <2>1, <2>2
<1>7. \A e, f \in S : e.do = f.do => e = f
  BY SentOnce
<1> HIDE DEF S, up, leaves, runs, within
<1>8. \A d \in pending \cup S : CallShape(d)
  BY <1>4, <1>5
\* A request of a surface that is there is as it was before the surfaces changed.
<1>9. \A d \in pending \cup S :
         LET e == Kept(d, leaves, up)
         IN  /\ e \in calls' /\ e.do = d.do /\ e.q = d.q /\ e.since = d.since
             /\ d.life = "surface" /\ H(d.do).on \in open' => e.life = "surface"
  <2> SUFFICES ASSUME NEW d \in pending \cup S
               PROVE  LET e == Kept(d, leaves, up)
                      IN  /\ e \in calls' /\ e.do = d.do /\ e.q = d.q /\ e.since = d.since
                          /\ d.life = "surface" /\ H(d.do).on \in open' => e.life = "surface"
    OBVIOUS
  <2>1. LET e == Kept(d, leaves, up) IN e \in calls' /\ e.do = d.do /\ e.q = d.q /\ e.since = d.since
    BY <1>1, <1>8, KeptSame
  <2>2. d.life = "surface" /\ H(d.do).on \in open' => Kept(d, leaves, up) = d
    BY <1>2 DEF Kept, Outlives
  <2> QED
    BY <2>1, <2>2
<1>10. ASSUME NEW d \in pending \cup S, Mine(d, n), H(n).on \in open' PROVE d \in calls'
  <2>1. Kept(d, leaves, up) = d
    BY <1>2, <1>10 DEF Kept, Outlives, Mine
  <2> QED
    BY <1>9, <2>1
<1>11. ASSUME NEW e \in calls', Mine(e, n) PROVE H(n).on \in open' /\ e \in pending \cup S
  <2>1. PICK d \in pending \cup S : e = Kept(d, leaves, up)
    BY <1>1
  <2>2. Shape(d) /\ e.do = d.do
    BY <1>8, <1>9, <2>1 DEF Shape
  <2>3. d.life = "surface" /\ H(d.do).on \in up
    BY <1>2, <1>11, <2>1, <2>2, KeptLife DEF Mine
  <2>4. Kept(d, leaves, up) = d
    BY <1>2, <2>3 DEF Kept, Outlives
  <2> QED
    BY <1>2, <1>11, <2>1, <2>2, <2>3, <2>4 DEF Mine
<1>12. ASSUME NEW m \in runs
       PROVE  \E e \in S : e.do = m /\ (H(m).on \in within => e.life = "surface")
  <2>1. PICK e \in S : e.do = m
    BY <1>6
  <2>2. H(m).on \in within => e.life = "surface"
    BY <1>5, <2>1 DEF Life
  <2> QED
    BY <2>1, <2>2
<1>13. ASSUME n \in runs, H(n).on \in within PROVE \E e \in calls' : Mine(e, n) /\ ~ e.late /\ e \notin pending
  <2>1. PICK e \in S : e.do = n /\ e.life = "surface"
    BY <1>12, <1>13
  <2> QED
    BY <1>2, <1>5, <1>10, <1>13, <2>1 DEF Mine
<1>14. ASSUME NEW e \in S, e.do = n
       PROVE  /\ n \in runs /\ ~ e.late /\ e.since = Version(n, server')
              /\ n \in Searchers /\ n \notin Of(effects, "runPlain") => e.q = query'[n]
              /\ n \in Searchers => e.q \in {0, query'[n]}
              /\ \A d \in pending : d.do = n => d.k < e.k
  <2>1. /\ n \in Searchers /\ n \notin Of(effects, "runPlain") => ParameterOf(n, asked) = query'[n]
        /\ n \in Searchers => ParameterOf(n, asked) \in {0, query'[n]}
    BY DEF ParameterOf, AskedWith
  <2> QED
    BY <1>5, <1>14, <2>1
<1>15. \A d \in pending : \E e \in calls' :
          e.do = d.do /\ (d.life = "surface" /\ H(d.do).on \in open' => e.life = "surface")
  BY <1>9
<1>16. ASSUME NEW m \in runs
       PROVE  \E e \in calls' : e.do = m /\ (H(m).on \in within => e.life = "surface")
  <2>1. PICK d \in S : d.do = m /\ (H(m).on \in within => d.life = "surface")
    BY <1>12
  <2> QED
    BY <1>2, <1>9, <2>1
<1>17. \A e \in calls' :
          Mine(e, n) =>
             /\ H(n).on \in open'
             /\ e \in pending \/ ( /\ n \in runs
                                   /\ ~ e.late
                                   /\ e.since = Version(n, server')
                                   /\ n \in Searchers /\ n \notin Of(effects, "runPlain") => e.q = query'[n]
                                   /\ \A d \in pending : d.do = n => d.k < e.k)
  BY <1>11, <1>14 DEF Mine
<1>18. ASSUME NEW e \in calls', e.do = n
       PROVE  \/ \E d \in pending : d.do = n /\ e.q = d.q /\ e.since = d.since
              \/ e.since = Version(n, server') /\ (n \in Searchers => e.q \in {0, query'[n]})
  <2>1. PICK d \in pending \cup S : e = Kept(d, leaves, up)
    BY <1>1
  <2>2. d.do = n /\ e.q = d.q /\ e.since = d.since
    BY <1>9, <1>18, <2>1
  <2>3. CASE d \in pending
    BY <2>2, <2>3
  <2>4. CASE d \in S
    BY <1>14, <2>2, <2>4
  <2> QED
    BY <2>3, <2>4
<1>19. \A e, f \in calls' : Mine(e, n) /\ Mine(f, n) /\ e \notin pending /\ f \notin pending => e = f
  BY <1>7, <1>11 DEF Mine
<1> QED
  BY <1>10, <1>13, <1>15, <1>16, <1>17, <1>18, <1>19 DEF runs, within

\* What renews n takes it off the screen, calls it, has it wait, or calls one that will
\* renew it: if c concerns the component that shows n, or only calls others.
LEMMA RenewsDoes ==
    ASSUME Inv, Ranked, UNCHANGED page, NEW n \in Readers, ~ away',
           NEW effects, NEW c, NEW pending, NEW ticking, NEW step, Callback(effects, c, pending, ticking, step),
           NEW R, Renews(page.handlers, n, R, effects), Reaches(c, n) \/ \A m \in R : H(m).on # H(n).on
    PROVE  \/ Coming(n, R)'
           \/ H(n).on \notin open \cap open'
           \/ n \in RunBy(effects, c) /\ H(n).on \in WithinOf(effects, c)
           \/ Waits(n)'
<1> SUFFICES ASSUME H(n).on \in open \cap open'
             PROVE  \/ Coming(n, R)'
                    \/ n \in RunBy(effects, c) /\ H(n).on \in WithinOf(effects, c)
                    \/ Waits(n)'
  OBVIOUS
<1>0. \A m : UNCHANGED H(m)
  BY DEF H
<1>1. /\ Parts(effects, c, pending, ticking)
      /\ open' = UpAfter(effects, c) /\ ~ Leaves(effects, c) /\ ~ away
  <2>1. Parts(effects, c, pending, ticking)
    BY EffectsParts DEF Callback
  <2>2. away' = (away \/ Leaves(effects, c)) /\ open' = IF Leaves(effects, c) THEN {} ELSE UpAfter(effects, c)
    BY <2>1, Zenon DEF Parts
  <2> QED
    BY <2>1, <2>2
<1>2. c.life # "none" /\ Of(effects, "leave") = {} /\ H(n).on \notin Of(effects, "close")
  BY <1>1 DEF Callback, Leaves, UpAfter, OpenedBy
<1>3. PICK m \in R : /\ H(m).unless = {} \/ m = n
                     /\ H(m).kind # "interval"
                     /\ m \in Of(effects, "run") \cup Of(effects, "runSilently") \cup Of(effects, "runPlain")
  BY <1>2 DEF Renews, H
<1>4. m \in CalledBy(effects, c) \ Intervals
  BY <1>3, SoundPage DEF Inv, CalledBy
<1>5. Reaches(c, n) => H(n).on \in WithinOf(effects, c)
  BY <1>1, ReachesWithin
<1>6. CASE m = n
  <2>1. Reaches(c, n)
    BY <1>6
  <2>2. CASE n \in RunBy(effects, c)
    BY <1>5, <2>1, <2>2
  <2>3. CASE n \notin RunBy(effects, c)
    <3>1. PICK f \in H(n).unless : <<H(n).on, f>> \in busy \ SwitchedOff(effects, c)
      BY <1>4, <1>6, <2>3 DEF RunBy
    <3> DEFINE b == <<H(n).on, f>>
    <3>2. PICK S : busy' = {x \in (busy \ SwitchedOff(effects, c)) \cup S : x[1] \in open'}
      <4>1. busy' = {x \in (busy \ SwitchedOff(effects, c))
                             \cup (Spinning(RunBy(effects, c) \ Of(effects, "runSilently"), WithinOf(effects, c))
                                      \cup SpunBy(effects, c)) : x[1] \in open'}
        BY <1>1 DEF Parts
      <4> QED
        BY <4>1
    <3>3. b \in busy'
      BY <3>1, <3>2
    <3> QED
      BY <1>0, <3>1, <3>3 DEF Waits
  <2> QED
    BY <2>2, <2>3
<1>7. CASE m # n
  <2>1. m \in RunBy(effects, c)
    BY <1>3, <1>4, <1>7 DEF RunBy
  <2>2. PICK e \in calls' : e.do = m /\ (H(m).on \in WithinOf(effects, c) => e.life = "surface")
    BY <2>1, CallbackCalls
  <2>3. Reaches(e, n)
    BY <1>3, <1>5, <2>2 DEF Reaches
  <2>4. Reaches(e, n)'
    BY <1>0, <2>3 DEF Reaches
  <2> QED
    BY <1>3, <1>7, <2>2, <2>4 DEF Coming
<1> QED
  BY <1>6, <1>7

\* So it is when c renews n even if its component is gone.
LEMMA ReachedDoes ==
    ASSUME Inv, Ranked, UNCHANGED page, NEW n \in Readers, ~ away',
           NEW effects, NEW c, NEW pending, NEW ticking, NEW step, Callback(effects, c, pending, ticking, step),
           NEW R, Renews(page.handlers, n, Reached(page.handlers, n, c.do, R), effects)
    PROVE  \/ Coming(n, R)'
           \/ H(n).on \notin open \cap open'
           \/ n \in RunBy(effects, c) /\ H(n).on \in WithinOf(effects, c)
           \/ Waits(n)'
<1>0. PICK R1 : R1 = Reached(page.handlers, n, c.do, R)
  OBVIOUS
<1>1. R1 \subseteq R
  BY <1>0 DEF Reached
<1>2. Reaches(c, n) \/ \A m \in R1 : H(m).on # H(n).on
  BY <1>0 DEF Reached, Reaches, H
<1>3. Coming(n, R1)' => Coming(n, R)'
  BY <1>1 DEF Coming
<1>4. Renews(page.handlers, n, R1, effects)
  BY <1>0
<1> QED
  BY <1>2, <1>3, <1>4, RenewsDoes

\* Only a handler of the page uses the last answer alone.
LEMMA LatestAre == ASSUME IsOpened PROVE \A n \in Names : H(n).latest => H(n).on = "page"
<1>0. PICK p \in DOMAIN Pages : page = Opened(p)
  BY DEF IsOpened
<1>1. page.handlers = Pages[p].handlers
  BY <1>0 DEF Opened
<1>2. PageIsSound(Pages[p])
  BY PagesAssumption
<1> QED
  BY <1>1, <1>2 DEF PageIsSound, Names, H

\* A request that will renew n is still to come, or does so now.
LEMMA ComingKept ==
    ASSUME Inv, Ranked, UNCHANGED page, NEW n \in Readers, ~ away', H(n).on \in open',
           NEW effects, NEW c, NEW pending, NEW ticking, NEW step, Callback(effects, c, pending, ticking, step),
           NEW R, R \subseteq Renewing(page.handlers, n, R), Coming(n, R)
    PROVE  Coming(n, R)' \/ (Renews(page.handlers, n, R, effects) /\ Reaches(c, n))
<1>1. PICK d \in calls : d.do \in R \ {n} /\ Reaches(d, n)
  BY DEF Coming
<1>2. ASSUME NEW x \in calls, x.do \in R \ {n}, Reaches(x, n), Stays(x, c, step) PROVE Coming(n, R)'
  <2>1. /\ Moved(x, c, step) \in pending
        /\ Moved(x, c, step).do = x.do /\ Moved(x, c, step).life = x.life
    BY <1>2, StayingAre
  <2>2. PICK y \in calls' : y.do = x.do /\ (x.life = "surface" /\ H(x.do).on \in open' => y.life = "surface")
    BY <2>1, CallbackCalls
  <2>3. Reaches(y, n)
    BY <1>2, <2>2 DEF Reaches
  <2>4. Reaches(y, n)'
    BY <2>3 DEF Reaches, H
  <2> QED
    BY <1>2, <2>2, <2>4 DEF Coming
<1>3. CASE Stays(d, c, step)
  BY <1>1, <1>2, <1>3
<1>4. CASE ~ Stays(d, c, step)
  <2>1. /\ step = "answered" /\ c \in calls /\ d.do = c.do
        /\ d = c \/ H(c.do).latest
    BY <1>4, GoneAre
  <2>2. H(c.do).latest => H(c.do).on = "page"
    BY LatestAre DEF Inv, Callback
  <2>3. Reaches(c, n)
    BY <1>1, <2>1, <2>2 DEF Reaches
  <2>4. CASE effects = H(c.do).ok
    BY <1>1, <2>1, <2>3, <2>4 DEF Renewing, H
  <2>5. CASE Dropped(c)
    <3>1. PICK x \in calls : x.do = c.do /\ x.k > c.k
      BY <2>5 DEF Dropped
    <3>2. x.k \in Nat /\ c.k \in Nat
      BY <2>1, RanksAre DEF Ranked
    <3>3. Stays(x, c, step)
      BY <3>1, <3>2 DEF Stays, Overtaken
    <3>4. Reaches(x, n)
      BY <2>2, <2>5, <3>1 DEF Reaches, Dropped
    <3> QED
      BY <1>1, <1>2, <2>1, <3>1, <3>3, <3>4
  <2> QED
    BY <2>1, <2>4, <2>5 DEF Callback
<1> QED
  BY <1>3, <1>4

\* What is told of the handlers that read.
LEMMA ReadersAre ==
    ASSUME IsOpened
    PROVE  /\ Readers = ReadersOf(page.handlers)
           /\ Searchers = OfKind(page.handlers, "search")
           /\ Watchers = WatchersOf(page.handlers)
           /\ \A n \in Readers : n \in Names /\ H(n).kind \in {"fetch", "search"}
           /\ \A n \in Readers : \E r \in Collections : H(n).of = {r}
           /\ \A n \in Readers :
                 \/ <<page.name, n>> \in KnownStale
                 \/ /\ ~ Filled(page.handlers, n)
                    /\ Shows(page.handlers, n) =>
                          \E R : /\ R \subseteq Renewing(page.handlers, n, R)
                                 /\ \/ /\ Rereads(page.handlers, n, R)
                                       /\ \/ H(n).latest
                                          \/ OnlyMounted(page, n)
                                          \/ Unchanging(page.handlers, n)
                                          \/ <<page.name, n>> \in KnownRaces
                                    \/ Repeats(page.handlers, n, R)
<1>0. PICK p \in DOMAIN Pages : page = Opened(p)
  BY DEF IsOpened
<1>1. /\ page.name = p
      /\ page.handlers = Pages[p].handlers
      /\ page.mount = Pages[p].mount
      /\ page.offers = Pages[p].offers
      /\ page.readers = ReadersOf(page.handlers)
      /\ page.searchers = OfKind(page.handlers, "search")
      /\ page.watchers = WatchersOf(page.handlers)
      /\ page.collections = UNION {page.handlers[n].of : n \in DOMAIN page.handlers}
  BY <1>0 DEF Opened
<1>2. PageIsSound(Pages[p]) /\ KeepsFresh(p)
  BY PagesAssumption, FreshAssumption
<1>3. \A n \in Readers : n \in Names /\ H(n).kind \in {"fetch", "search"}
  BY <1>1 DEF Readers, ReadersOf, Names, H
<1>4. \A n \in Readers : \E r \in Collections : H(n).of = {r}
  <2> SUFFICES ASSUME NEW n \in Readers PROVE \E r \in Collections : H(n).of = {r}
    OBVIOUS
  <2>1. n \in DOMAIN page.handlers /\ \E r \in page.handlers[n].of : page.handlers[n].of = {r}
    <3>1. \A m \in DOMAIN Pages[p].handlers :
             m \in ReadersOf(Pages[p].handlers) =>
                \E r \in Pages[p].handlers[m].of : Pages[p].handlers[m].of = {r}
      BY <1>2, Zenon DEF PageIsSound
    <3> QED
      BY <1>1, <3>1 DEF Readers, ReadersOf
  <2> QED
    BY <1>1, <2>1 DEF Collections, H
<1>5. ASSUME NEW n \in Readers, <<page.name, n>> \notin KnownStale
      PROVE  /\ ~ Filled(page.handlers, n)
             /\ Shows(page.handlers, n) =>
                   \E R : /\ R \subseteq Renewing(page.handlers, n, R)
                          /\ \/ /\ Rereads(page.handlers, n, R)
                                /\ \/ H(n).latest
                                   \/ OnlyMounted(page, n)
                                   \/ Unchanging(page.handlers, n)
                                   \/ <<page.name, n>> \in KnownRaces
                             \/ Repeats(page.handlers, n, R)
  <2>1. /\ ~ Filled(page.handlers, n)
        /\ Shows(page.handlers, n) =>
              \E R : /\ R \subseteq Renewing(page.handlers, n, R)
                     /\ \/ Rereads(page.handlers, n, R) /\ InAnyOrder(p, n)
                        \/ Repeats(page.handlers, n, R)
    BY <1>1, <1>2, <1>5 DEF KeepsFresh, Readers
  <2>2. OnlyMounted(Pages[p], n) => OnlyMounted(page, n)
    BY <1>1 DEF OnlyMounted
  <2>3. InAnyOrder(p, n) => \/ H(n).latest
                            \/ OnlyMounted(page, n)
                            \/ Unchanging(page.handlers, n)
                            \/ <<page.name, n>> \in KnownRaces
    BY <1>1, <2>2 DEF InAnyOrder, H
  <2> QED
    BY <2>1, <2>3
<1> QED
  BY <1>1, <1>3, <1>4, <1>5 DEF Readers, Searchers, Watchers

\* The answer of n is shown.
Answers(effects, c, step, n) ==
    step = "answered" /\ Mine(c, n) /\ effects = H(n).ok /\ Shows(page.handlers, n)

\* What a callback puts on the screen for n is what the answer of n carried.
LEMMA ShownAfter ==
    ASSUME Inv, UNCHANGED page, NEW n \in Readers, ~ Filled(page.handlers, n),
           NEW effects, NEW c, NEW pending, NEW ticking, NEW step, Callback(effects, c, pending, ticking, step)
    PROVE  /\ H(n).on \notin open \cap open' => shown'[n] = Nothing
           /\ ~ Answers(effects, c, step, n) => shown'[n] \in {Nothing, shown[n]}
           /\ Answers(effects, c, step, n) /\ H(n).on \in open \cap open' =>
                 \E v \in c.since..Version(n, server'), over \in Found(c) :
                    /\ timers' = TimersOf(effects, c, ticking, over)
                    /\ shown'[n] = [q |-> c.q, v |-> v, ended |-> over, late |-> c.late]
<1>1. n \notin Of(effects, "fill")
  <2>1. Of(effects, "fill") \subseteq Of(H(c.do).ok, "fill") /\ c.do \in Names
    BY DEF Callback
  <2>2. n \notin Of(H(c.do).ok, "fill")
    BY <2>1 DEF Filled, Of, Names, H
  <2> QED
    BY <2>1, <2>2
<1>2. PICK carried \in Carried(c), over \in Found(c) :
        /\ timers' = TimersOf(effects, c, ticking, over)
        /\ shown'[n] = IF H(n).on \notin open \cap open' THEN Nothing
                       ELSE IF n = c.do /\ c.life = "surface" /\ Of(effects, "show") # {}
                         THEN [q |-> c.q, v |-> carried, ended |-> over, late |-> c.late]
                       ELSE shown[n]
  <2>1. Effects(effects, c, pending, ticking)
    BY DEF Callback
  <2>2. PICK carried \in Carried(c), over \in Found(c) :
          /\ timers' = TimersOf(effects, c, ticking, over)
          /\ \A m \in Readers :
                m \notin Of(effects, "fill") =>
                   shown'[m] = IF H(m).on \notin open \cap open' THEN Nothing
                               ELSE IF m = c.do /\ c.life = "surface" /\ Of(effects, "show") # {}
                                 THEN [q |-> c.q, v |-> carried, ended |-> over, late |-> c.late]
                               ELSE shown[m]
    BY <2>1, EffectsFresh
  <2> QED
    BY <1>1, <2>2
<1>3. c.do = n => carried \in c.since..Version(n, server')
  BY <1>2 DEF Carried
<1>4. c.do = n /\ c.life = "surface" /\ Of(effects, "show") # {} <=> Answers(effects, c, step, n)
  <2>1. Of(Run({n}), "show") = {}
    BY OfRun, Zenon
  <2>2. Of({}, "show") = {}
    BY OfNothing
  <2> QED
    BY <2>1, <2>2 DEF Callback, Answers, Mine, Shows, H
<1> QED
  BY <1>2, <1>3, <1>4

\* While n is not renewed, nobody changes what it shows.
LEMMA NotChanged ==
    ASSUME Inv, UNCHANGED page, NEW n \in Readers, ~ away', H(n).on \in open \cap open',
           NEW effects, NEW c, NEW pending, NEW ticking, NEW step, Callback(effects, c, pending, ticking, step),
           NEW R, Rereads(page.handlers, n, R),
           ~ (Renews(page.handlers, n, R, effects) /\ Reaches(c, n)),
           ~ Renews(page.handlers, n, Reached(page.handlers, n, c.do, R), effects)
    PROVE  /\ Version(n, server') = Version(n, server)
           /\ n \in Searchers => query'[n] = query[n]
<1>1. PICK r \in Collections : H(n).of = {r}
  BY ReadersAre DEF Inv
<1>2. server'[r] = server[r]
  <2> SUFFICES ASSUME server'[r] # server[r] PROVE FALSE
    OBVIOUS
  <2>1. c.do \in OfKind(page.handlers, "write") /\ r \in page.handlers[c.do].of \cap page.handlers[n].of
    BY <1>1 DEF Callback, OfKind, Names, H
  <2>2. /\ ~ page.handlers[c.do].latest
        /\ Renews(page.handlers, n, Reached(page.handlers, n, c.do, R), page.handlers[c.do].ok)
    BY <2>1 DEF Rereads
  <2>3. effects = page.handlers[c.do].ok
    BY <2>2 DEF Callback, H
  <2> QED
    BY <2>2, <2>3
<1>3. ASSUME n \in Searchers PROVE query'[n] = query[n]
  <2>0. Effects(effects, c, pending, ticking)
    BY DEF Callback
  <2>1. n \notin Of(effects, "requery") \/ H(n).on \notin WithinOf(effects, c)
    <3> SUFFICES ASSUME n \in Of(effects, "requery"), H(n).on \in WithinOf(effects, c) PROVE FALSE
      OBVIOUS
    <3>1. n \in Of(H(c.do).ok, "requery") /\ H(c.do).ok \subseteq effects /\ c.do \in Names
      BY DEF Callback
    <3>2. n \in OfKind(page.handlers, "search")
      BY <1>3, ReadersAre DEF Inv
    <3>3. Renews(page.handlers, n, R, page.handlers[c.do].ok)
      BY <3>1, <3>2 DEF Rereads, Names, H
    <3>4. Renews(page.handlers, n, R, effects)
      BY <3>1, <3>3, RenewsMore DEF H
    <3>5. H(n).on \in UpAfter(effects, c)
      BY WithinUp
    <3>6. Reaches(c, n)
      BY <3>5, ReachesWithin
    <3> QED
      BY <3>4, <3>6
  <2> QED
    BY <1>3, <2>0, <2>1, EffectsFresh
<1> QED
  BY <1>1, <1>2, <1>3 DEF Version

\* n waits on, or the spinner is switched off by one that renews n.
LEMMA WaitsKept ==
    ASSUME Inv, UNCHANGED page, NEW n \in Readers, ~ away', H(n).on \in open',
           NEW effects, NEW c, NEW pending, NEW ticking, NEW step, Callback(effects, c, pending, ticking, step),
           NEW R, Rereads(page.handlers, n, R), Waits(n)
    PROVE  Waits(n)' \/ (Renews(page.handlers, n, R, effects) /\ Reaches(c, n))
<1>1. PICK f \in H(n).unless : <<H(n).on, f>> \in busy
  BY DEF Waits
<1>2. CASE <<H(n).on, f>> \in SwitchedOff(effects, c)
  <2>1. c.life = "surface" /\ H(c.do).on = H(n).on /\ f \in Of(effects, "clear")
    BY <1>2 DEF SwitchedOff
  <2>2. f \in Of(H(c.do).ok, "clear") /\ H(c.do).ok \subseteq effects /\ c.do \in Names
    BY <2>1 DEF Callback
  <2>3. Renews(page.handlers, n, R, page.handlers[c.do].ok)
    BY <1>1, <2>1, <2>2 DEF Rereads, Names, H
  <2> QED
    BY <2>1, <2>2, <2>3, RenewsMore DEF Reaches, H
<1>3. CASE <<H(n).on, f>> \notin SwitchedOff(effects, c)
  <2>1. Parts(effects, c, pending, ticking)
    BY EffectsParts DEF Callback
  <2>2. PICK S : busy' = {x \in (busy \ SwitchedOff(effects, c)) \cup S : x[1] \in open'}
    <3>1. busy' = {x \in (busy \ SwitchedOff(effects, c))
                            \cup (Spinning(RunBy(effects, c) \ Of(effects, "runSilently"), WithinOf(effects, c))
                                     \cup SpunBy(effects, c)) : x[1] \in open'}
      BY <2>1 DEF Parts
    <3> QED
      BY <3>1
  <2>3. <<H(n).on, f>> \in busy'
    BY <1>1, <1>3, <2>2
  <2>4. UNCHANGED H(n)
    BY DEF H
  <2> QED
    BY <1>1, <2>3, <2>4 DEF Waits
<1> QED
  BY <1>2, <1>3

\* A request of the surface of n that is not late remains so, or n has been answered since,
\* and that is shown, or another one is to come.
LEMMA MineKept ==
    ASSUME Inv, TypeInv, Ranked, UNCHANGED page, NEW n \in Readers, Shows(page.handlers, n), ~ away', H(n).on \in open',
           NEW effects, NEW c, NEW pending, NEW ticking, NEW step, Callback(effects, c, pending, ticking, step),
           NEW x \in calls, Mine(x, n), ~ x.late
    PROVE  \/ \E e \in calls' : Mine(e, n) /\ ~ e.late
           \/ Answers(effects, c, step, n) /\ c \in calls
<1>1. ASSUME NEW y \in calls, Mine(y, n), ~ y.late, Stays(y, c, step), ~ Lags(y, c, step)
      PROVE  \E e \in calls' : Mine(e, n) /\ ~ e.late
  <2>1. /\ Moved(y, c, step) \in pending
        /\ Moved(y, c, step).do = y.do /\ Moved(y, c, step).life = y.life
        /\ ~ Moved(y, c, step).late
    BY <1>1, StayingAre
  <2>2. Mine(Moved(y, c, step), n)
    BY <1>1, <2>1 DEF Mine
  <2>3. Moved(y, c, step) \in calls'
    BY <2>1, <2>2, CallbackCalls
  <2> QED
    BY <2>1, <2>2, <2>3
<1>2. CASE Stays(x, c, step) /\ ~ Lags(x, c, step)
  BY <1>1, <1>2
<1>3. CASE ~ (Stays(x, c, step) /\ ~ Lags(x, c, step))
  <2>1. step = "answered" /\ c \in calls /\ x.do = c.do /\ (x = c \/ H(c.do).latest \/ c.life = "surface")
    <3>1. ~ Stays(x, c, step) => step = "answered" /\ c \in calls /\ x.do = c.do /\ (x = c \/ H(c.do).latest)
      BY GoneAre
    <3>2. Lags(x, c, step) => step = "answered" /\ c \in calls /\ x.do = c.do /\ c.life = "surface"
      BY DEF Lags, Callback
    <3> QED
      BY <1>3, <3>1, <3>2
  <2>2. Mine(c, n)
    <3>1. CASE H(c.do).latest
      <4>1. H(n).on = "page" /\ c.do = n
        BY <2>1, <3>1, LatestAre, ReadersAre DEF Inv, Mine
      <4>2. ~ away
        BY EffectsParts DEF Callback, Parts
      <4>3. c.life = "surface"
        BY <2>1, <4>1, <4>2 DEF TypeInv, LifeOK
      <4> QED
        BY <4>1, <4>3 DEF Mine
    <3> QED
      BY <2>1, <3>1 DEF Mine
  <2>3. CASE effects = H(c.do).ok
    BY <2>1, <2>2, <2>3 DEF Mine, Answers
  <2>4. CASE Dropped(c)
    <3>1. PICK y \in calls : y.do = c.do /\ y.k > c.k
      BY <2>4 DEF Dropped
    <3>2. y.k \in Nat /\ c.k \in Nat
      BY <2>1, RanksAre DEF Ranked
    <3>3. Stays(y, c, step) /\ ~ Lags(y, c, step)
      BY <3>1, <3>2 DEF Stays, Overtaken, Lags
    <3>4. H(n).on = "page" /\ ~ y.late /\ y.do = n
      BY <2>2, <2>4, <3>1, LatestAre, ReadersAre DEF Inv, Mine, Dropped, Ranked
    <3>5. ~ away
      BY EffectsParts DEF Callback, Parts
    <3>6. y.life = "surface"
      BY <3>4, <3>5 DEF TypeInv, LifeOK
    <3> QED
      BY <1>1, <3>3, <3>4, <3>6 DEF Mine
  <2> QED
    BY <2>1, <2>3, <2>4 DEF Callback
<1> QED
  BY <1>2, <1>3

\* A request of the surface of n that stays is there in the next state, and as late as it
\* is now.
LEMMA MineStays ==
    ASSUME Inv, Ranked, UNCHANGED page, NEW n \in Readers, ~ away', H(n).on \in open',
           NEW effects, NEW c, NEW pending, NEW ticking, NEW step, Callback(effects, c, pending, ticking, step),
           NEW x \in calls, Mine(x, n), Stays(x, c, step)
    PROVE  /\ Moved(x, c, step) \in calls' /\ Mine(Moved(x, c, step), n)
           /\ Moved(x, c, step).q = x.q /\ Moved(x, c, step).since = x.since
           /\ Moved(x, c, step).late <=> x.late \/ Lags(x, c, step)
<1>1. /\ Moved(x, c, step) \in pending
      /\ Moved(x, c, step).do = x.do /\ Moved(x, c, step).life = x.life
      /\ Moved(x, c, step).q = x.q /\ Moved(x, c, step).since = x.since
      /\ Moved(x, c, step).late <=> x.late \/ Lags(x, c, step)
  BY StayingAre
<1>2. Mine(Moved(x, c, step), n)
  BY <1>1 DEF Mine
<1>3. Moved(x, c, step) \in calls'
  BY <1>1, <1>2, CallbackCalls
<1> QED
  BY <1>1, <1>2, <1>3

\* A request of the surface of n that is pending was there before.
LEMMA MineBefore ==
    ASSUME Inv, Ranked, UNCHANGED page, NEW n \in Readers,
           NEW effects, NEW c, NEW pending, NEW ticking, NEW step, Callback(effects, c, pending, ticking, step),
           NEW e \in pending, Mine(e, n)
    PROVE  \E x \in calls : /\ Mine(x, n) /\ Stays(x, c, step) /\ e = Moved(x, c, step)
                            /\ e.q = x.q /\ e.since = x.since
                            /\ e.late <=> x.late \/ Lags(x, c, step)
<1>1. PICK x \in calls : Stays(x, c, step) /\ e = Moved(x, c, step)
  BY PendingFrom
<1>2. /\ e.do = x.do /\ e.life = x.life /\ e.q = x.q /\ e.since = x.since
      /\ e.late <=> x.late \/ Lags(x, c, step)
  BY <1>1, StayingAre
<1>3. Mine(x, n)
  BY <1>2 DEF Mine
<1> QED
  BY <1>1, <1>2, <1>3

\* What was asked after a request that stays, and does not come late, stays too, and does
\* not come late.
LEMMA LaterStays ==
    ASSUME Inv, Ranked, UNCHANGED page, NEW n \in Readers,
           NEW effects, NEW c, NEW pending, NEW ticking, NEW step, Callback(effects, c, pending, ticking, step),
           NEW x \in calls, NEW y \in calls, Mine(x, n), Mine(y, n), y.k > x.k,
           Stays(x, c, step), ~ Lags(x, c, step)
    PROVE  Stays(y, c, step) /\ ~ Lags(y, c, step)
<1>1. x.k \in Nat /\ y.k \in Nat /\ (c \in calls => c.k \in Nat)
  BY RanksAre DEF Ranked
<1>2. x.do = n /\ y.do = n /\ y.life = "surface"
  BY DEF Mine
<1>3. ~ Lags(y, c, step)
  <2> SUFFICES ASSUME Lags(y, c, step) PROVE FALSE
    OBVIOUS
  <2>1. c \in calls /\ step = "answered"
    BY DEF Lags, Callback
  <2> QED
    BY <1>1, <1>2, <2>1 DEF Lags
<1>4. Stays(y, c, step)
  <2> SUFFICES ASSUME ~ Stays(y, c, step) PROVE FALSE
    OBVIOUS
  <2>1. step = "answered" /\ c \in calls /\ y.do = c.do /\ (y = c \/ (H(c.do).latest /\ y.k < c.k))
    BY GoneAre
  <2>2. x.k < c.k
    BY <1>1, <2>1
  <2>3. CASE y = c
    BY <1>2, <2>1, <2>2, <2>3 DEF Lags
  <2>4. CASE H(c.do).latest
    BY <1>2, <2>1, <2>2, <2>4 DEF Stays, Overtaken
  <2> QED
    BY <2>1, <2>3, <2>4
<1> QED
  BY <1>3, <1>4

\* What was asked after c stays when c is answered, and does not come late.
LEMMA AfterAnswer ==
    ASSUME Inv, Ranked, NEW c \in calls, NEW y \in calls, y.do = c.do, y.k > c.k, NEW step
    PROVE  Stays(y, c, step) /\ ~ Lags(y, c, step)
<1>1. c.k \in Nat /\ y.k \in Nat
  BY RanksAre DEF Ranked
<1> QED
  BY <1>1 DEF Stays, Overtaken, Lags

\* What is sent of n now will bring what is current, and after all others.
LEMMA SentCurrent ==
    ASSUME Inv, Ranked, UNCHANGED page, NEW n \in Readers, ~ away',
           NEW effects, NEW c, NEW pending, NEW ticking, NEW step, Callback(effects, c, pending, ticking, step),
           NEW R, Rereads(page.handlers, n, R)
    PROVE  \A e \in calls' :
              Mine(e, n) => /\ H(n).on \in open'
                            /\ e \in pending \/ (/\ ~ e.late
                                                 /\ Current(n, e.q, e.since)'
                                                 /\ \A d \in pending : d.do = n => d.k < e.k)
<1>1. \A q, v : Current(n, q, v)' <=> v = Version(n, server') /\ (n \in Searchers => q = query'[n])
  BY DEF Current, Version, Searchers, H
<1>2. n \in Searchers => n \notin Of(effects, "runPlain")
  <2>1. Of(effects, "runPlain") \subseteq Of(H(c.do).ok, "runPlain") /\ c.do \in Names
    BY DEF Callback
  <2>2. n \in Searchers => n \notin Of(H(c.do).ok, "runPlain")
    BY <2>1, ReadersAre DEF Inv, Rereads, Of, Names, H
  <2> QED
    BY <2>1, <2>2
<1>3. \A e \in calls' :
         Mine(e, n) =>
            /\ H(n).on \in open'
            /\ e \in pending \/ ( /\ n \in RunBy(effects, c)
                                  /\ ~ e.late
                                  /\ e.since = Version(n, server')
                                  /\ n \in Searchers /\ n \notin Of(effects, "runPlain") => e.q = query'[n]
                                  /\ \A d \in pending : d.do = n => d.k < e.k)
  BY CallbackCalls
<1> QED
  BY <1>1, <1>2, <1>3

\* A callback that neither changes what n shows nor has it read again leaves it current, or
\* late, or to come.
LEMMA RereadStays ==
    ASSUME Inv, TypeInv, Ranked, UNCHANGED page,
           NEW n \in Readers, ~ Filled(page.handlers, n), Shows(page.handlers, n), ~ away', H(n).on \in open \cap open',
           NEW effects, NEW c, NEW pending, NEW ticking, NEW step, Callback(effects, c, pending, ticking, step),
           NEW R, Rereads(page.handlers, n, R), RereadOK(n, R), ~ Coming(n, R), ~ Waits(n),
           Version(n, server') = Version(n, server), n \in Searchers => query'[n] = query[n]
    PROVE  RereadOK(n, R)'
<1>1. \A q, v : Current(n, q, v)' <=> Current(n, q, v)
  BY DEF Current, Version, Searchers, H
<1>2. /\ shown[n] # Nothing =>
            \/ Current(n, shown[n].q, shown[n].v)
            \/ shown[n].late
            \/ \E x \in calls : Mine(x, n) /\ ~ x.late
      /\ \A x \in calls :
            Mine(x, n) /\ ~ x.late =>
               \/ Current(n, x.q, x.since)
               \/ \E y \in calls : Mine(y, n) /\ ~ y.late /\ y.k > x.k
  BY DEF RereadOK
<1>3. \A e \in calls' :
         Mine(e, n) => e \in pending \/ Current(n, e.q, e.since)'
  BY SentCurrent
<1>4. ASSUME NEW y \in calls, Mine(y, n), ~ y.late, Stays(y, c, step), ~ Lags(y, c, step)
      PROVE  Moved(y, c, step) \in calls' /\ Mine(Moved(y, c, step), n) /\ ~ Moved(y, c, step).late
  BY <1>4, MineStays
<1>5. ASSUME NEW e \in calls', Mine(e, n), ~ e.late
      PROVE  Current(n, e.q, e.since)' \/ \E d \in calls' : Mine(d, n) /\ ~ d.late /\ d.k > e.k
  <2>1. CASE e \notin pending
    BY <1>3, <1>5, <2>1
  <2>2. CASE e \in pending
    <3>1. PICK x \in calls : /\ Mine(x, n) /\ Stays(x, c, step) /\ e = Moved(x, c, step)
                             /\ e.q = x.q /\ e.since = x.since
                             /\ e.late <=> x.late \/ Lags(x, c, step)
      BY <1>5, <2>2, MineBefore
    <3>2. ~ x.late /\ ~ Lags(x, c, step)
      BY <1>5, <3>1
    <3>3. CASE Current(n, x.q, x.since)
      BY <1>1, <3>1, <3>3
    <3>4. CASE \E y \in calls : Mine(y, n) /\ ~ y.late /\ y.k > x.k
      <4>1. PICK y \in calls : Mine(y, n) /\ ~ y.late /\ y.k > x.k
        BY <3>4
      <4>2. Stays(y, c, step) /\ ~ Lags(y, c, step)
        BY <3>1, <3>2, <4>1, LaterStays
      <4>3. step \in Steps /\ (step # "called" => c \in calls)
        BY DEF Callback, Steps
      <4>4. x.do = y.do /\ x.k < y.k
        <5>1. x.k \in Nat /\ y.k \in Nat
          BY RanksAre DEF Ranked
        <5> QED
          BY <3>1, <4>1, <5>1 DEF Mine
      <4>5. Moved(x, c, step).k < Moved(y, c, step).k
        BY <3>1, <4>2, <4>3, <4>4, OrderKept
      <4>6. Moved(y, c, step).k > e.k
        BY <3>1, <4>5
      <4> QED
        BY <1>4, <4>1, <4>2, <4>6
    <3> QED
      BY <1>2, <3>1, <3>2, <3>3, <3>4
  <2> QED
    BY <2>1, <2>2
\* An answer that is shown comes late, or brings what is current, or a later one is to come.
<1>6. ASSUME Answers(effects, c, step, n)
      PROVE  \/ Current(n, shown[n].q, shown[n].v)'
             \/ shown'[n].late
             \/ \E e \in calls' : Mine(e, n) /\ ~ e.late
  <2>1. PICK v \in c.since..Version(n, server'), over \in Found(c) :
          /\ timers' = TimersOf(effects, c, ticking, over)
          /\ shown'[n] = [q |-> c.q, v |-> v, ended |-> over, late |-> c.late]
    BY <1>6, ShownAfter
  <2>2. c \in calls /\ Mine(c, n) /\ step = "answered"
    BY <1>6 DEF Answers, Callback
  <2>3. CASE c.late
    BY <2>1, <2>3
  <2>4. CASE Current(n, c.q, c.since)
    <3>1. Version(n, server) \in Int
      <4>1. PICK r \in Collections : H(n).of = {r}
        BY ReadersAre DEF Inv
      <4> QED
        BY <4>1 DEF Version, TypeInv, TypeOK
    <3>2. v = c.since
      BY <2>1, <2>4, <3>1 DEF Current
    <3>3. shown'[n].q = c.q /\ shown'[n].v = c.since
      BY <2>1, <3>2
    <3> QED
      BY <1>1, <2>4, <3>3
  <2>5. CASE \E y \in calls : Mine(y, n) /\ ~ y.late /\ y.k > c.k
    <3>1. PICK y \in calls : Mine(y, n) /\ ~ y.late /\ y.k > c.k
      BY <2>5
    <3>2. Stays(y, c, step) /\ ~ Lags(y, c, step)
      BY <2>2, <3>1, AfterAnswer DEF Mine
    <3> QED
      BY <1>4, <3>1, <3>2
  <2> QED
    BY <1>2, <2>2, <2>3, <2>4, <2>5
<1>7. ASSUME shown'[n] # Nothing
      PROVE  \/ Current(n, shown[n].q, shown[n].v)'
             \/ shown'[n].late
             \/ \E e \in calls' : Mine(e, n) /\ ~ e.late
  <2>1. CASE Answers(effects, c, step, n)
    BY <1>6, <2>1
  <2>2. CASE ~ Answers(effects, c, step, n)
    <3>1. shown'[n] = shown[n]
      BY <1>7, <2>2, ShownAfter
    <3>2. CASE \E x \in calls : Mine(x, n) /\ ~ x.late
      BY <2>2, <3>2, MineKept
    <3> QED
      BY <1>1, <1>2, <1>7, <3>1, <3>2
  <2> QED
    BY <2>1, <2>2
<1>8. UNCHANGED Nothing /\ \A x, y : Mine(x, y)' <=> Mine(x, y)
  BY DEF Nothing, Mine
<1> QED
  BY <1>5, <1>7, <1>8 DEF RereadOK

\* A callback leaves what n shows current, or late, or to be read again.
LEMMA RereadKept ==
    ASSUME Inv, TypeInv, Ranked, UNCHANGED page,
           NEW n \in Readers, ~ Filled(page.handlers, n), Shows(page.handlers, n), ~ away',
           NEW effects, NEW c, NEW pending, NEW ticking, NEW step, Callback(effects, c, pending, ticking, step),
           NEW R, R \subseteq Renewing(page.handlers, n, R), Rereads(page.handlers, n, R), RereadOK(n, R)
    PROVE  RereadOK(n, R)'
<1>1. \A e \in calls' :
         Mine(e, n) => /\ H(n).on \in open'
                       /\ e \in pending \/ (/\ ~ e.late
                                            /\ Current(n, e.q, e.since)'
                                            /\ \A d \in pending : d.do = n => d.k < e.k)
  BY SentCurrent
<1>2. UNCHANGED Nothing /\ \A x, y : Mine(x, y)' <=> Mine(x, y)
  BY DEF Nothing, Mine
<1>3. CASE H(n).on \notin open \cap open'
  <2>1. shown'[n] = Nothing
    BY <1>3, ShownAfter
  <2>2. ASSUME NEW e \in calls', Mine(e, n) PROVE e \notin pending
    <3> SUFFICES ASSUME e \in pending PROVE FALSE
      OBVIOUS
    <3>1. PICK x \in calls : Mine(x, n)
      BY <2>2, MineBefore
    <3>2. H(n).on \in open
      BY <3>1 DEF TypeInv, LifeOK, Mine
    <3> QED
      BY <1>1, <1>3, <2>2, <3>2
  <2> QED
    BY <1>1, <1>2, <2>1, <2>2 DEF RereadOK
<1>4. CASE n \in RunBy(effects, c) /\ H(n).on \in WithinOf(effects, c)
  <2>1. PICK e \in calls' : Mine(e, n) /\ ~ e.late /\ e \notin pending
    BY <1>4, CallbackCalls
  <2>2. \A x \in calls' : Mine(x, n) => Current(n, x.q, x.since)' \/ e.k > x.k
    <3> SUFFICES ASSUME NEW x \in calls', Mine(x, n), x \in pending PROVE e.k > x.k
      BY <1>1
    <3>1. x.k < e.k
      BY <1>1, <2>1 DEF Mine
    <3> QED
      BY <3>1
  <2> QED
    BY <1>2, <2>1, <2>2 DEF RereadOK
<1>5. CASE Coming(n, R)' \/ Waits(n)'
  BY <1>5 DEF RereadOK
<1>6. CASE Renews(page.handlers, n, R, effects) /\ Reaches(c, n)
  BY <1>3, <1>4, <1>5, <1>6, RenewsDoes
<1>7. CASE Renews(page.handlers, n, Reached(page.handlers, n, c.do, R), effects)
  BY <1>3, <1>4, <1>5, <1>7, ReachedDoes
<1>8. CASE /\ ~ (Renews(page.handlers, n, R, effects) /\ Reaches(c, n))
           /\ ~ Renews(page.handlers, n, Reached(page.handlers, n, c.do, R), effects)
           /\ H(n).on \in open \cap open'
  <2>1. CASE Coming(n, R)
    BY <1>5, <1>8, <2>1, ComingKept
  <2>2. CASE Waits(n)
    BY <1>5, <1>8, <2>2, WaitsKept
  <2>3. CASE ~ Coming(n, R) /\ ~ Waits(n)
    <3>1. /\ Version(n, server') = Version(n, server)
          /\ n \in Searchers => query'[n] = query[n]
      BY <1>8, NotChanged
    <3> QED
      BY <1>8, <2>3, <3>1, RereadStays
  <2> QED
    BY <2>1, <2>2, <2>3
<1> QED
  BY <1>3, <1>6, <1>7, <1>8

\* What only its surface calls is called when that appears: nothing else of it is under way.
LEMMA MountedKept ==
    ASSUME Inv, TypeInv, Ranked, UNCHANGED page, NEW n \in Readers, ~ away',
           NEW effects, NEW c, NEW pending, NEW ticking, NEW step, Callback(effects, c, pending, ticking, step),
           MountedOK(n)
    PROVE  MountedOK(n)'
<1>0. \A x, y : Mine(x, y)' <=> Mine(x, y)
  BY DEF Mine
<1> SUFFICES ASSUME OnlyMounted(page, n)
             PROVE  /\ \A e, f \in calls' : Mine(e, n) /\ Mine(f, n) => e = f
                    /\ \A e \in calls' : Mine(e, n) => ~ e.late
  BY <1>0 DEF MountedOK
<1>1. /\ \A x, y \in calls : Mine(x, n) /\ Mine(y, n) => x = y
      /\ \A x \in calls : Mine(x, n) => ~ x.late
  BY DEF MountedOK
<1>2. n \in RunBy(effects, c) => H(n).on \notin open
  <2> SUFFICES ASSUME n \in RunBy(effects, c) PROVE H(n).on \notin open
    OBVIOUS
  <2>1. n \notin CalledIn(effects)
    <3>1. CalledIn(effects) \subseteq CalledIn(H(c.do).ok) \cup {o.do : o \in page.offers} \cup page.timed /\ c.do \in Names
      BY DEF Callback
    <3>2. n \notin CalledIn(H(c.do).ok)
      <4>1. n \notin CalledIn(H(c.do).ok \cup H(c.do).err)
        BY <3>1 DEF OnlyMounted, Names, H
      <4> QED
        BY <4>1 DEF CalledIn, Of
    <3>3. n \notin page.timed
      BY TimedAre DEF Inv, OnlyMounted
    <3>4. n \notin {o.do : o \in page.offers}
      BY DEF OnlyMounted
    <3> QED
      BY <3>1, <3>2, <3>3, <3>4
  <2>2. n \notin Of(effects, "run") \cup Of(effects, "runSilently") \cup Of(effects, "runPlain")
    BY <2>1 DEF CalledIn
  <2>3. PICK s \in OpenedBy(effects, c) : n \in page.mount[s]
    BY <2>2 DEF RunBy, CalledBy
  <2>4. s \in DOMAIN page.mount
    BY <2>3, SoundSurfaces DEF Callback, EffectsOK, OpenedBy, Surfaces
  <2>5. s = H(n).on
    BY <2>3, <2>4 DEF OnlyMounted, H
  <2> QED
    BY <2>3, <2>5 DEF OpenedBy
<1>3. ASSUME NEW e \in calls', Mine(e, n)
      PROVE  e \in pending \/ (n \in RunBy(effects, c) /\ ~ e.late)
  BY <1>3, CallbackCalls
<1>4. \A e, f \in calls' : Mine(e, n) /\ Mine(f, n) /\ e \notin pending /\ f \notin pending => e = f
  BY CallbackCalls
<1>5. ASSUME NEW e \in pending, Mine(e, n)
      PROVE  H(n).on \in open /\ ~ e.late /\ \E x \in calls : Mine(x, n) /\ e = Moved(x, c, step)
  <2>1. PICK x \in calls : /\ Mine(x, n) /\ Stays(x, c, step) /\ e = Moved(x, c, step)
                           /\ e.late <=> x.late \/ Lags(x, c, step)
    BY <1>5, MineBefore
  <2>2. H(n).on \in open
    BY <2>1 DEF TypeInv, LifeOK, Mine
  <2>3. ~ Lags(x, c, step)
    <3> SUFFICES ASSUME Lags(x, c, step) PROVE FALSE
      OBVIOUS
    <3>1. c \in calls /\ Mine(c, n)
      BY <2>1 DEF Lags, Callback, Mine
    <3>2. x = c /\ c.k \in Nat
      BY <1>1, <2>1, <3>1, RanksAre DEF Ranked
    <3> QED
      BY <3>2 DEF Lags
  <2> QED
    BY <1>1, <2>1, <2>2, <2>3
<1>6. \A e \in calls' : Mine(e, n) => ~ e.late
  BY <1>3, <1>5
<1>7. \A e, f \in calls' : Mine(e, n) /\ Mine(f, n) => e = f
  <2> SUFFICES ASSUME NEW e \in calls', NEW f \in calls', Mine(e, n), Mine(f, n) PROVE e = f
    OBVIOUS
  <2>1. CASE e \in pending /\ f \in pending
    <3>1. PICK x \in calls : Mine(x, n) /\ e = Moved(x, c, step)
      BY <1>5, <2>1
    <3>2. PICK y \in calls : Mine(y, n) /\ f = Moved(y, c, step)
      BY <1>5, <2>1
    <3> QED
      BY <1>1, <3>1, <3>2
  <2>2. CASE e \notin pending /\ f \notin pending
    BY <1>4, <2>2
  <2>3. CASE e \in pending /\ f \notin pending
    BY <1>2, <1>3, <1>5, <2>3
  <2>4. CASE e \notin pending /\ f \in pending
    BY <1>2, <1>3, <1>5, <2>4
  <2> QED
    BY <2>1, <2>2, <2>3, <2>4
<1> QED
  BY <1>6, <1>7

\* What is shown is not late where only the last answer is used, or only one is asked for.
LEMMA NotLate ==
    ASSUME Inv, UNCHANGED page, Ranked, NEW n \in Readers, ~ Filled(page.handlers, n),
           NEW effects, NEW c, NEW pending, NEW ticking, NEW step, Callback(effects, c, pending, ticking, step),
           MountedOK(n), H(n).latest \/ OnlyMounted(page, n), ~ shown[n].late
    PROVE  ~ shown'[n].late
<1>1. CASE Answers(effects, c, step, n) /\ H(n).on \in open \cap open'
  <2>1. PICK v \in c.since..Version(n, server'), over \in Found(c) :
          /\ timers' = TimersOf(effects, c, ticking, over)
          /\ shown'[n] = [q |-> c.q, v |-> v, ended |-> over, late |-> c.late]
    BY <1>1, ShownAfter
  <2>2. c \in calls /\ Mine(c, n) /\ c.do = n
    BY <1>1 DEF Answers, Callback, Mine
  <2>3. ~ c.late
    BY <2>2 DEF MountedOK, Ranked
  <2> QED
    BY <2>1, <2>3
<1>2. CASE shown'[n] \in {Nothing, shown[n]}
  BY <1>2 DEF Nothing
<1> QED
  BY <1>1, <1>2, ShownAfter

\* What never changes is answered the same.
LEMMA SameKept ==
    ASSUME Inv, TypeInv, Ranked, UNCHANGED page, NEW n \in Readers, ~ Filled(page.handlers, n), ~ away',
           NEW effects, NEW c, NEW pending, NEW ticking, NEW step, Callback(effects, c, pending, ticking, step),
           SameOK(n)
    PROVE  SameOK(n)'
<1>0. /\ UNCHANGED <<Nothing, Searchers>>
      /\ Version(n, server)' = Version(n, server')
  BY DEF Nothing, Searchers, Version, H
<1> SUFFICES ASSUME Unchanging(page.handlers, n)
             PROVE  /\ Version(n, server') = 0 /\ (n \in Searchers => query'[n] = 0)
                    /\ \A e \in calls' : e.do = n => e.since = 0 /\ (n \in Searchers => e.q = 0)
                    /\ shown'[n] # Nothing => shown'[n].v = 0 /\ (n \in Searchers => shown'[n].q = 0)
  BY <1>0 DEF SameOK
<1>1. /\ Version(n, server) = 0 /\ (n \in Searchers => query[n] = 0)
      /\ \A x \in calls : x.do = n => x.since = 0 /\ (n \in Searchers => x.q = 0)
      /\ shown[n] # Nothing => shown[n].v = 0 /\ (n \in Searchers => shown[n].q = 0)
  BY DEF SameOK
<1>2. Version(n, server') = 0
  <2>1. PICK r \in Collections : H(n).of = {r}
    BY ReadersAre DEF Inv
  <2>2. server'[r] = server[r]
    <3> SUFFICES ASSUME server'[r] # server[r] PROVE FALSE
      OBVIOUS
    <3>1. c.do \in OfKind(page.handlers, "write") /\ r \in page.handlers[c.do].of \cap page.handlers[n].of
      BY <2>1 DEF Callback, OfKind, Names, H
    <3> QED
      BY <3>1 DEF Unchanging
  <2> QED
    BY <1>1, <2>1, <2>2 DEF Version
<1>3. n \in Searchers => query'[n] = 0
  <2>1. Of(effects, "requery") \subseteq Of(H(c.do).ok, "requery") /\ c.do \in Names
    BY DEF Callback
  <2>2. n \notin Of(H(c.do).ok \cup H(c.do).err, "requery")
    BY <2>1 DEF Unchanging, Names, H
  <2>3. n \notin Of(effects, "requery")
    BY <2>1, <2>2 DEF Of
  <2>4. Effects(effects, c, pending, ticking)
    BY DEF Callback
  <2> QED
    BY <1>1, <2>3, <2>4, EffectsFresh
<1>4. ASSUME NEW e \in calls', e.do = n PROVE e.since = 0 /\ (n \in Searchers => e.q = 0)
  <2>1. \/ \E d \in pending : d.do = n /\ e.q = d.q /\ e.since = d.since
        \/ e.since = Version(n, server') /\ (n \in Searchers => e.q \in {0, query'[n]})
    BY <1>4, CallbackCalls
  <2>2. ASSUME NEW d \in pending, d.do = n PROVE d.since = 0 /\ (n \in Searchers => d.q = 0)
    <3>1. PICK x \in calls : Stays(x, c, step) /\ d = Moved(x, c, step)
      BY PendingFrom
    <3>2. d.do = x.do /\ d.q = x.q /\ d.since = x.since
      BY <3>1, StayingAre
    <3> QED
      BY <1>1, <2>2, <3>2
  <2> QED
    BY <1>2, <1>3, <2>1, <2>2
<1>5. ASSUME shown'[n] # Nothing PROVE shown'[n].v = 0 /\ (n \in Searchers => shown'[n].q = 0)
  <2>1. CASE Answers(effects, c, step, n)
    <3>1. H(n).on \in open \cap open'
      BY <1>5, ShownAfter
    <3>2. PICK v \in c.since..Version(n, server'), over \in Found(c) :
            /\ timers' = TimersOf(effects, c, ticking, over)
            /\ shown'[n] = [q |-> c.q, v |-> v, ended |-> over, late |-> c.late]
      BY <2>1, <3>1, ShownAfter
    <3>3. c \in calls /\ c.do = n
      BY <2>1 DEF Answers, Callback, Mine
    <3>4. v = 0 /\ (n \in Searchers => c.q = 0)
      BY <1>1, <1>2, <3>2, <3>3
    <3> QED
      BY <3>2, <3>4
  <2>2. CASE ~ Answers(effects, c, step, n)
    BY <1>1, <1>5, <2>2, ShownAfter
  <2> QED
    BY <2>1, <2>2
<1> QED
  BY <1>2, <1>3, <1>4, <1>5

\* The timers of the surface of n after a callback: those that are not stopped, and those
\* that are set now.
LEMMA TimersAfter ==
    ASSUME Inv, UNCHANGED page, NEW n \in Readers, ~ away', H(n).on \in open \cap open',
           NEW effects, NEW c, NEW pending, NEW ticking, NEW step, Callback(effects, c, pending, ticking, step),
           NEW over, timers' = TimersOf(effects, c, ticking, over)
    PROVE  /\ n \notin Of(effects, "stop") /\ (\E t \in ticking : t.do = n /\ t.life = "surface") =>
                 \E u \in timers' : u.do = n /\ u.life = "surface"
           /\ c.life = "surface" /\ n \in Of(effects, "tick") =>
                 \E u \in timers' : u.do = n /\ u.life = "surface"
           /\ c.life = "surface" /\ ~ over /\ n \in Of(effects, "poll") \cup Of(effects, "pollOnce") =>
                 \E u \in timers' : u.do = n /\ u.life = "surface"
<1> DEFINE up == UpAfter(effects, c)
           within == WithinOf(effects, c)
           leaves == Leaves(effects, c)
           set == StillSet(effects, c, ticking)
           again == SetAgain(effects, c, ticking, over)
<1>1. timers' = {Kept(t, leaves, up) : t \in set \cup Set(again, within, set)}
  BY DEF TimersOf
<1>2. Parts(effects, c, pending, ticking)
  BY EffectsParts DEF Callback
<1>3. ~ leaves /\ leaves \in BOOLEAN /\ open' = up
  BY <1>2 DEF Parts, Leaves
<1>4. n \in Names
  BY ReadersAre DEF Inv
<1>5. ASSUME NEW t \in set \cup Set(again, within, set), t.do = n, t.life = "surface"
      PROVE  \E u \in timers' : u.do = n /\ u.life = "surface"
  <2> HIDE DEF set, leaves, up, again, within
  <2>1. Kept(t, leaves, up) = t
    BY <1>3, <1>5 DEF Kept, Outlives
  <2>2. t \in timers'
    BY <1>1, <2>1
  <2> QED
    BY <1>5, <2>2
<1>6. ASSUME c.life = "surface", n \in again PROVE \E u \in timers' : u.do = n /\ u.life = "surface"
  <2>0. H(n).on \in within
    BY <1>3, <1>6 DEF WithinOf
  <2> DEFINE t == [do |-> n, life |-> Life(H(n).on, within), k |-> 1 + Cardinality({x \in set : x.do = n})]
  <2> HIDE DEF set, leaves, up, again, within
  <2>1. t \in Set(again, within, set)
    BY <1>6 DEF Set
  <2>2. t.do = n /\ t.life = "surface"
    BY <2>0 DEF Life
  <2> HIDE DEF t
  <2> QED
    BY <1>5, <2>1, <2>2
<1>7. ASSUME n \notin Of(effects, "stop"), NEW t \in ticking, t.do = n PROVE t \in set
  BY <1>3, <1>7 DEF StillSet, Cleared
<1>8. n \in Of(effects, "tick") => n \in again
  BY DEF SetAgain
<1>9. ASSUME c.life = "surface", ~ over, n \in Of(effects, "poll") \cup Of(effects, "pollOnce")
      PROVE  n \in again \/ \E t \in set : t.do = n /\ t.life = "surface"
  BY <1>9 DEF SetAgain
<1> HIDE DEF set, leaves, up, again, within
<1> QED
  BY <1>5, <1>6, <1>7, <1>8, <1>9

\* A request of the surface of n is still to come, or its answer is shown.
LEMMA MineGoesOn ==
    ASSUME Inv, TypeInv, Ranked, UNCHANGED page, NEW n \in Readers, Shows(page.handlers, n), ~ away', H(n).on \in open',
           NEW effects, NEW c, NEW pending, NEW ticking, NEW step, Callback(effects, c, pending, ticking, step),
           NEW x \in calls, Mine(x, n)
    PROVE  (\E e \in calls' : Mine(e, n)) \/ Answers(effects, c, step, n)
<1>1. CASE Stays(x, c, step)
  BY <1>1, MineStays
<1>2. CASE ~ x.late
  BY <1>2, MineKept
<1>3. CASE ~ Stays(x, c, step) /\ x.late
  <2>1. /\ step = "answered" /\ c \in calls /\ x.do = c.do
        /\ x = c \/ H(c.do).latest
    BY <1>3, GoneAre
  <2>2. ~ H(c.do).latest
    BY <1>3, <2>1 DEF Ranked
  <2>3. effects = H(c.do).ok /\ Mine(c, n)
    BY <2>1, <2>2 DEF Callback, Dropped
  <2> QED
    BY <2>1, <2>3 DEF Answers, Mine
<1> QED
  BY <1>1, <1>2, <1>3

\* A callback leaves what n shows at its end, or to be read again.
LEMMA RepeatKept ==
    ASSUME Inv, TypeInv, Ranked, UNCHANGED page,
           NEW n \in Readers, ~ Filled(page.handlers, n), Shows(page.handlers, n), ~ away',
           NEW effects, NEW c, NEW pending, NEW ticking, NEW step, Callback(effects, c, pending, ticking, step),
           NEW R, R \subseteq Renewing(page.handlers, n, R), Repeats(page.handlers, n, R), RepeatOK(n, R)
    PROVE  RepeatOK(n, R)'
<1> SUFFICES ASSUME shown'[n] # Nothing
             PROVE  \/ n \in Watchers /\ shown'[n].ended
                    \/ \E t \in timers' : t.do = n /\ t.life = "surface"
                    \/ Coming(n, R)'
                    \/ \E e \in calls' : Mine(e, n)
  BY DEF RepeatOK, Watchers, Nothing, Mine
<1>1. H(n).on \in open \cap open'
  BY ShownAfter
<1>2. CASE n \in RunBy(effects, c) /\ H(n).on \in WithinOf(effects, c)
  BY <1>2, CallbackCalls
<1>3. n \in Names /\ H(n).unless = {} /\ n \notin Intervals
  BY ReadersAre, SoundPage DEF Inv, Repeats, H
<1>4. ~ Waits(n)'
  BY <1>3 DEF Waits, H
<1>5. CASE Renews(page.handlers, n, R, effects) /\ Reaches(c, n)
  BY <1>1, <1>2, <1>4, <1>5, RenewsDoes
<1>6. CASE Renews(page.handlers, n, Reached(page.handlers, n, c.do, R), effects)
  BY <1>1, <1>2, <1>4, <1>6, ReachedDoes
\* What n shows now has ended, or it sets the timer again.
<1>7. CASE Answers(effects, c, step, n)
  <2>1. PICK kind \in {"tick", "poll", "pollOnce"} : n \in Of(H(n).ok, kind)
    BY DEF Repeats, H
  <2>2. PICK v \in c.since..Version(n, server'), over \in Found(c) :
          /\ timers' = TimersOf(effects, c, ticking, over)
          /\ shown'[n] = [q |-> c.q, v |-> v, ended |-> over, late |-> c.late]
    BY <1>1, <1>7, ShownAfter
  <2>3. shown'[n].ended = over
    BY <2>2
  <2>4. c.life = "surface" /\ n \in Of(effects, kind)
    BY <1>7, <2>1 DEF Answers, Mine
  <2>5. CASE kind = "tick"
    BY <1>1, <2>2, <2>4, <2>5, TimersAfter
  <2>6. CASE kind \in {"poll", "pollOnce"}
    <3>1. n \in Watchers
      BY <2>1, <2>6, ReadersAre DEF Inv, WatchersOf, H
    <3>2. ~ over => \E t \in timers' : t.do = n /\ t.life = "surface"
      BY <1>1, <2>2, <2>4, <2>6, TimersAfter
    <3> QED
      BY <2>3, <3>1, <3>2
  <2> QED
    BY <2>5, <2>6
<1>8. CASE /\ shown'[n] = shown[n]
           /\ ~ (Renews(page.handlers, n, R, effects) /\ Reaches(c, n))
           /\ ~ Renews(page.handlers, n, Reached(page.handlers, n, c.do, R), effects)
  <2>1. CASE n \in Watchers /\ shown[n].ended
    BY <1>8, <2>1
  <2>2. CASE \E t \in timers : t.do = n /\ t.life = "surface"
    <3>1. CASE effects = Run({n}) /\ c.life = "surface"
      <4>1. n \in CalledBy(effects, c)
        <5>1. Of(Run({n}), "run") = {n}
          BY OfRun, Zenon
        <5> QED
          BY <3>1, <5>1 DEF CalledBy
      <4>2. n \in RunBy(effects, c)
        BY <1>3, <4>1 DEF RunBy
      <4>3. open' = UpAfter(effects, c)
        BY EffectsParts DEF Callback, Parts
      <4>4. H(n).on \in WithinOf(effects, c)
        BY <1>1, <3>1, <4>3 DEF WithinOf
      <4> QED
        BY <1>2, <4>2, <4>4
    <3>2. CASE ~ (effects = Run({n}) /\ c.life = "surface")
      <4>1. \E u \in ticking : u.do = n /\ u.life = "surface"
        BY <1>3, <2>2, <3>2 DEF Callback
      <4>2. n \notin Of(effects, "stop")
        <5> SUFFICES ASSUME n \in Of(effects, "stop") PROVE FALSE
          OBVIOUS
        <5>1. n \in Of(H(c.do).ok, "stop") /\ H(c.do).ok \subseteq effects /\ c.do \in Names
          BY DEF Callback
        <5>2. Renews(page.handlers, n, Reached(page.handlers, n, c.do, R), page.handlers[c.do].ok)
          BY <5>1 DEF Repeats, Names, H
        <5>3. PICK R1 : R1 = Reached(page.handlers, n, c.do, R)
          OBVIOUS
        <5>4. Renews(page.handlers, n, R1, effects)
          BY <5>1, <5>2, <5>3, RenewsMore DEF H
        <5> QED
          BY <1>8, <5>3, <5>4
      <4>3. PICK over : timers' = TimersOf(effects, c, ticking, over)
        <5>1. Effects(effects, c, pending, ticking)
          BY DEF Callback
        <5>2. \E carried \in Carried(c), over \in Found(c) :
                 /\ timers' = TimersOf(effects, c, ticking, over)
                 /\ \A m \in Readers :
                       m \notin Of(effects, "fill") =>
                          shown'[m] = IF H(m).on \notin open \cap open' THEN Nothing
                                      ELSE IF m = c.do /\ c.life = "surface" /\ Of(effects, "show") # {}
                                        THEN [q |-> c.q, v |-> carried, ended |-> over, late |-> c.late]
                                      ELSE shown[m]
          BY <5>1, EffectsFresh
        <5> QED
          BY <5>2, Zenon
      <4> QED
        BY <1>1, <4>1, <4>2, <4>3, TimersAfter
    <3> QED
      BY <3>1, <3>2
  <2>3. CASE Coming(n, R)
    BY <1>1, <1>8, <2>3, ComingKept
  <2>4. CASE \E x \in calls : Mine(x, n)
    BY <1>1, <1>7, <2>4, MineGoesOn
  <2> QED
    BY <1>8, <2>1, <2>2, <2>3, <2>4 DEF RepeatOK
<1> QED
  BY <1>5, <1>6, <1>7, <1>8, ShownAfter

\* Whatever effects a callback has, the requests stay ranked.
LEMMA EffectsRanked ==
    ASSUME Inv, UNCHANGED page, NEW effects, NEW c, NEW pending, NEW ticking,
           c.do \in Names, EffectsOK(effects, H(c.do).on),
           \A e \in pending : CallShape(e) /\ (H(e.do).latest => ~ e.late),
           \A n \in Names : Numbered(pending, n),
           Effects(effects, c, pending, ticking)
    PROVE  Ranked'
<1> DEFINE up == UpAfter(effects, c)
           within == WithinOf(effects, c)
           leaves == Leaves(effects, c)
           runs == RunBy(effects, c)
<1>1. runs \in SUBSET Names
  <2>1. \A x \in CalledBy(effects, c) : x \in Names
    BY CalledAre DEF Inv
  <2> QED
    BY <2>1 DEF RunBy
<1>2. PICK qs, contents :
         calls' = {Kept(d, leaves, up) : d \in pending \cup Sent(runs, within, qs, pending, contents)}
  BY EffectsFresh
<1> HIDE DEF up, leaves, runs, within
<1> QED
  BY <1>1, <1>2, RankedKept

\* A callback leaves what is shown as it should be.
LEMMA CallbackFresh ==
    ASSUME Inv, TypeInv, FreshInv, UNCHANGED <<page, faults>>,
           NEW effects, NEW c, NEW pending, NEW ticking, NEW step, Callback(effects, c, pending, ticking, step)
    PROVE  FreshInv'
<1>0. Ranked
  BY DEF FreshInv
<1>1. Ranked'
  <2>1. /\ \A e \in pending : CallShape(e) /\ (H(e.do).latest => ~ e.late)
        /\ \A n \in Names : Numbered(pending, n)
    BY <1>0, PendingFrom
  <2>2. c.do \in Names /\ EffectsOK(effects, H(c.do).on) /\ Effects(effects, c, pending, ticking)
    BY DEF Callback
  <2> QED
    BY <2>1, <2>2, EffectsRanked
<1>2. away' = (away \/ Leaves(effects, c))
  BY EffectsParts DEF Callback, Parts
<1>3. ASSUME ~ away', faults' = 0, NEW n \in Readers, ~ Filled(page.handlers, n) PROVE FreshOK(n)'
  <2>1. FreshOK(n)
    BY <1>2, <1>3 DEF FreshInv
  <2>2. UNCHANGED <<page, Nothing>>
    BY DEF Nothing
  <2>3. ASSUME ~ Shows(page.handlers, n) PROVE shown'[n] = Nothing
    <3>1. ~ Answers(effects, c, step, n)
      BY <2>3 DEF Answers
    <3> QED
      BY <1>3, <2>1, <2>3, <3>1, ShownAfter DEF FreshOK
  <2>4. MountedOK(n)'
    BY <1>0, <1>3, <2>1, <2>2, MountedKept DEF FreshOK
  <2>5. SameOK(n)'
    BY <1>0, <1>3, <2>1, <2>2, SameKept DEF FreshOK
  <2>6. H(n).latest \/ OnlyMounted(page, n) => ~ shown'[n].late
    BY <1>0, <1>3, <2>1, <2>2, NotLate DEF FreshOK
  <2>7. ASSUME Shows(page.handlers, n), NEW R, R \subseteq Renewing(page.handlers, n, R),
               Rereads(page.handlers, n, R)
        PROVE  RereadOK(n, R)'
    <3>1. RereadOK(n, R)
      BY <2>1, <2>7 DEF FreshOK
    <3> QED
      BY <1>0, <1>3, <2>2, <2>7, <3>1, RereadKept
  <2>8. ASSUME Shows(page.handlers, n), NEW R, R \subseteq Renewing(page.handlers, n, R),
               Repeats(page.handlers, n, R)
        PROVE  RepeatOK(n, R)'
    <3>1. RepeatOK(n, R)
      BY <2>1, <2>8 DEF FreshOK
    <3> QED
      BY <1>0, <1>3, <2>2, <2>8, <3>1, RepeatKept
  <2>9. UNCHANGED H(n)
    BY DEF H
  <2> QED
    BY <2>2, <2>3, <2>4, <2>5, <2>6, <2>7, <2>8, <2>9 DEF FreshOK
<1>4. Readers' = Readers
  BY DEF Readers
<1> QED
  BY <1>1, <1>3, <1>4 DEF FreshInv

\* What a click, or a timer, on n calls.
LEMMA CallsOnly ==
    ASSUME NEW n
    PROVE  /\ \A kind : Of(Run({n}), kind) = IF kind = "run" THEN {n} ELSE {}
           /\ CalledIn(Run({n})) = {n}
           /\ \A E : CalledIn(E \cup Tick(n)) = CalledIn(E)
           /\ CalledIn({}) = {}
<1>1. \A kind : Of(Run({n}), kind) = IF kind = "run" THEN {n} ELSE {}
  BY OfRun, Zenon
<1>2. CalledIn(Run({n})) = {n}
  BY <1>1 DEF CalledIn
<1>3. ASSUME NEW E PROVE CalledIn(E \cup Tick(n)) = CalledIn(E)
  <2>1. \A kind : Of(E \cup Tick(n), kind) = Of(E, kind) \cup IF kind = "tick" THEN {n} ELSE {}
    BY OfTick, Zenon
  <2> QED
    BY <2>1 DEF CalledIn
<1>4. CalledIn({}) = {}
  BY OfNothing DEF CalledIn
<1> QED
  BY <1>1, <1>2, <1>3, <1>4

\* A click sends the request of what reads or writes, and shows nothing.
LEMMA ClickFresh == ASSUME Inv, TypeInv, FreshInv, NEW o \in page.offers, Click(o) PROVE FreshInv'
<1> DEFINE effects == IF H(o.do).kind = "act" THEN H(o.do).ok ELSE Run({o.do})
           c == Now(o.do, "surface")
<1>1. IsOpened /\ o.do \in Names
  BY SoundPage DEF Inv
<1>2. c.do = o.do /\ c.life = "surface"
  BY DEF Now
<1>3. UNCHANGED <<page, server, ended, faults>> /\ Effects(effects, c, calls, timers)
  BY DEF Click
<1>4. EffectsOK(effects, H(o.do).on)
  BY <1>1, SoundPage, RunOK
<1>5. o.do \in Readers => effects = Run({o.do})
  BY <1>1, ReadersAre
<1>6. \A kind \in {"requery", "stop", "fill", "runPlain", "clear"} :
         Of(effects, kind) = {} \/ (Of(effects, kind) = Of(H(o.do).ok, kind) /\ H(o.do).ok \subseteq effects)
  <2>1. \A kind : Of(Run({o.do}), kind) = IF kind = "run" THEN {o.do} ELSE {}
    BY OfRun, Zenon
  <2> QED
    BY <2>1
<1>7. CalledIn(effects) \subseteq CalledIn(H(o.do).ok) \cup {x.do : x \in page.offers} \cup page.timed
  <2>1. CalledIn(Run({o.do})) = {o.do}
    BY CallsOnly
  <2> QED
    BY <2>1
<1>8. \A t \in timers : Shape(t)
  BY CallbacksOK
<1>9. PendingOf(c, "called") = calls
  BY AllPending
<1> HIDE DEF effects, c
<1>10. Callback(effects, c, calls, timers, "called")
  BY <1>1, <1>2, <1>3, <1>4, <1>5, <1>6, <1>7, <1>8, <1>9 DEF Callback
<1> QED
  BY <1>3, <1>10, CallbackFresh

LEMMA AnswerFresh == ASSUME Inv, TypeInv, FreshInv, NEW c \in calls, Answer(c) PROVE FreshInv'
<1> DEFINE effects == IF Dropped(c) THEN {} ELSE H(c.do).ok
           pending == Answered(calls, c)
<1>1. c.do \in Names
  BY RanksAre DEF FreshInv, Ranked
<1>2. UNCHANGED <<page, ended, faults>> /\ Effects(effects, c, pending, timers)
  BY DEF Answer
<1>3. EffectsOK(effects, H(c.do).on)
  BY <1>1, SoundPage, NothingOK DEF Inv
<1>4. c.life = "none" => away
  BY DEF TypeInv, LifeOK
<1>5. pending = PendingOf(c, "answered")
  BY RestPending
<1>6. effects = H(c.do).ok \/ (effects = {} /\ Dropped(c))
  OBVIOUS
<1>7. \A kind \in {"requery", "stop", "fill", "runPlain", "clear"} :
         Of(effects, kind) = {} \/ (Of(effects, kind) = Of(H(c.do).ok, kind) /\ H(c.do).ok \subseteq effects)
  BY <1>6, OfNothing
<1>8. \A r \in Collections :
         server'[r] # server[r] =>
            H(c.do).kind = "write" /\ r \in H(c.do).of /\ (~ H(c.do).latest => effects = H(c.do).ok)
  BY DEF Answer, Dropped, TypeInv, TypeOK
<1>9. \A t \in timers : Shape(t)
  BY CallbacksOK
<1>10. CalledIn(effects) \subseteq CalledIn(H(c.do).ok) \cup {x.do : x \in page.offers} \cup page.timed
  BY <1>6, CallsOnly
<1> HIDE DEF effects, pending
<1>11. Callback(effects, c, pending, timers, "answered")
  BY <1>1, <1>2, <1>3, <1>4, <1>5, <1>6, <1>7, <1>8, <1>9, <1>10 DEF Callback
<1> QED
  BY <1>2, <1>11, CallbackFresh

\* A timer that fires calls its handler, and the others of the surface stay.
LEMMA FireFresh ==
    ASSUME Inv, TypeInv, FreshInv, NEW t \in timers, t.do \in page.timed, Fire(t)
    PROVE  FreshInv'
<1> DEFINE effects == IF t.do \in Intervals THEN H(t.do).ok \cup Tick(t.do) ELSE Run({t.do})
           c == Now(t.do, t.life)
           ticking == Without(timers, t)
<1>1. IsOpened /\ t.do \in Names
  BY DEF Inv, TimersOK
<1>2. c.do = t.do /\ c.life = t.life
  BY DEF Now
<1>3. UNCHANGED <<page, server, ended, faults>> /\ Effects(effects, c, calls, ticking)
  BY DEF Fire
<1>4. EffectsOK(effects, H(t.do).on)
  BY <1>1, SoundPage, TickOK, RunOK
<1>5. t.do \in Readers => effects = Run({t.do})
  <2>1. t.do \in Readers => t.do \notin Intervals
    BY <1>1, ReadersAre, SoundPage
  <2> QED
    BY <2>1
<1>6. \A kind \in {"requery", "stop", "fill", "runPlain", "clear"} :
         Of(effects, kind) = {} \/ (Of(effects, kind) = Of(H(t.do).ok, kind) /\ H(t.do).ok \subseteq effects)
  <2>1. \A kind : Of(Run({t.do}), kind) = IF kind = "run" THEN {t.do} ELSE {}
    BY OfRun, Zenon
  <2>2. \A kind : Of(H(t.do).ok \cup Tick(t.do), kind)
                  = Of(H(t.do).ok, kind) \cup IF kind = "tick" THEN {t.do} ELSE {}
    BY OfTick, Zenon
  <2> QED
    BY <2>1, <2>2
<1>7. CalledIn(effects) \subseteq CalledIn(H(t.do).ok) \cup {x.do : x \in page.offers} \cup page.timed
  <2>1. CalledIn(Run({t.do})) = {t.do} /\ CalledIn(H(t.do).ok \cup Tick(t.do)) = CalledIn(H(t.do).ok)
    BY CallsOnly
  <2> QED
    BY <2>1
<1>8. c.life = "none" => away
  BY <1>2 DEF TypeInv, LifeOK
<1>9. \A u \in ticking : Shape(u)
  BY OthersOK
<1>10. ASSUME NEW u \in timers, u.life = "surface"
       PROVE  \/ u.do \in Intervals
              \/ \E x \in ticking : x.do = u.do /\ x.life = "surface"
              \/ effects = Run({u.do}) /\ c.life = "surface"
  <2>1. CASE u.do = t.do /\ t.life = "surface"
    BY <1>2, <2>1
  <2>2. CASE ~ (u.do = t.do /\ t.life = "surface")
    <3>1. u # t
      BY <1>10, <2>2
    <3>2. ~ Overtaken(u, t)
      <4> SUFFICES ASSUME H(t.do).latest, u.do = t.do PROVE FALSE
        BY DEF Overtaken
      <4>1. H(t.do).on = "page"
        BY <1>1, LatestAre
      <4>2. LifeOK(t) /\ LifeOK(u)
        BY DEF TypeInv
      <4> QED
        BY <1>10, <2>2, <4>1, <4>2 DEF LifeOK
    <3>3. Renumbered(u, t) \in ticking
      BY <3>1, <3>2 DEF Without, Remaining
    <3>4. Shape(u)
      BY CallbacksOK
    <3>5. Renumbered(u, t).do = u.do /\ Renumbered(u, t).life = u.life
      BY <3>4, Relabelled DEF Renumbered
    <3> QED
      BY <1>10, <3>3, <3>5
  <2> QED
    BY <2>1, <2>2
<1>11. PendingOf(c, "called") = calls
  BY AllPending
<1> HIDE DEF effects, c, ticking
<1>12. Callback(effects, c, calls, ticking, "called")
  BY <1>1, <1>2, <1>3, <1>4, <1>5, <1>6, <1>7, <1>8, <1>9, <1>10, <1>11 DEF Callback
<1> QED
  BY <1>3, <1>12, CallbackFresh

\* After a failure nothing is said of what is shown: only the numbers go on.
LEMMA FailFresh == ASSUME Inv, TypeInv, FreshInv, NEW c \in calls, Fail(c) PROVE FreshInv'
<1> DEFINE effects == IF Dropped(c) THEN {} ELSE H(c.do).err
           pending == Without(calls, c)
<1>1. c.do \in Names /\ Ranked
  BY RanksAre DEF FreshInv, Ranked
<1>2. UNCHANGED page /\ Effects(effects, c, pending, timers)
  BY DEF Fail
<1>3. EffectsOK(effects, H(c.do).on)
  BY <1>1, SoundPage, NothingOK DEF Inv
<1>4. /\ \A e \in pending : CallShape(e) /\ (H(e.do).latest => ~ e.late)
      /\ \A n \in Names : Numbered(pending, n)
  <2>1. pending = PendingOf(c, "failed")
    BY RestPending
  <2> HIDE DEF pending
  <2> QED
    BY <1>1, <2>1, PendingAre DEF Steps
<1> HIDE DEF effects, pending
<1>5. Ranked'
  BY <1>1, <1>2, <1>3, <1>4, EffectsRanked
<1>6. faults' # 0
  BY CountersOK DEF Fail
<1> QED
  BY <1>5, <1>6 DEF FreshInv

LEMMA GoAwayFresh == ASSUME Inv, TypeInv, FreshInv, GoAway PROVE FreshInv'
<1>1. away' /\ UNCHANGED page /\ calls' = {[c EXCEPT !.life = "none"] : c \in calls}
  BY DEF GoAway
<1>2. Ranked
  BY DEF FreshInv
<1>3. /\ \A e \in calls : CallShape(e) /\ (H(e.do).latest => ~ e.late)
      /\ \A n \in Names : Numbered(calls, n)
  BY <1>2, RanksAre DEF Ranked
<1> DEFINE none == {}
           left == TRUE
<1>4. /\ calls' = {Kept(d, left, none) : d \in calls \cup Sent(none, none, none, calls, server)}
      /\ none \in SUBSET Names
  <2>1. Sent(none, none, none, calls, server) = {}
    BY DEF Sent
  <2> QED
    BY <1>1, <2>1 DEF Kept
<1> HIDE DEF none, left
<1>5. UNCHANGED page
  BY <1>1
<1>6. Ranked'
  BY <1>3, <1>4, <1>5, RankedKept
<1> QED
  BY <1>1, <1>6 DEF FreshInv

\* At first every request asks for what the server has.
LEMMA InitFresh == Init => FreshInv
<1> SUFFICES ASSUME Init PROVE FreshInv
  OBVIOUS
<1> DEFINE first == page.mount["page"] \ Intervals
<1>1. IsOpened /\ first \in SUBSET Names
  BY InitInv, SoundPage DEF Inv
<1>2. calls = Sent(first, {"page"}, query, {}, server) /\ query = [n \in Searchers |-> 0]
  BY DEF Init
<1>3. ASSUME NEW d \in calls
      PROVE  /\ CallShape(d) /\ d.do \in first /\ d.life = Life(H(d.do).on, {"page"})
             /\ d.q = ParameterOf(d.do, query)
             /\ d.since = IF d.do \in Readers THEN Version(d.do, server) ELSE 0
             /\ d.k = 1 /\ ~ d.late
  <2> HIDE DEF first
  <2>1. PICK m \in first :
          d = [do |-> m, q |-> ParameterOf(m, query), life |-> Life(H(m).on, {"page"}),
               since |-> IF m \in Readers THEN Version(m, server) ELSE 0,
               over |-> m \in Watchers /\ ended, late |-> FALSE,
               k |-> 1 + Cardinality({x \in {} : x.do = m})]
    BY <1>2, <1>3, Zenon DEF Sent
  <2>2. Cardinality({x \in {} : x.do = m}) = 0
    BY FS_EmptySet
  <2>3. CallShape(d)
    BY <1>1, <2>1, Zenon DEF CallShape
  <2> QED
    BY <2>1, <2>2, <2>3
<1>4. \A d, e \in calls : d.do = e.do => d = e
  BY <1>2, SentOnce
<1>5. ASSUME NEW n \in Names PROVE Numbered(calls, n)
  <2>1. CASE n \in {d.do : d \in calls}
    <3>1. {c.k : c \in CallsOf(calls, n)} = 1..1 /\ \A c, d \in CallsOf(calls, n) : c.k = d.k => c = d
      BY <1>3, <1>4, <2>1 DEF CallsOf
    <3> QED
      BY <3>1 DEF Numbered
  <2>2. CASE n \notin {d.do : d \in calls}
    <3>1. {c.k : c \in CallsOf(calls, n)} = 1..0 /\ \A c, d \in CallsOf(calls, n) : c.k = d.k => c = d
      BY <2>2 DEF CallsOf
    <3> QED
      BY <3>1 DEF Numbered
  <2> QED
    BY <2>1, <2>2
<1>6. Ranked
  BY <1>3, <1>5 DEF Ranked
<1>7. ASSUME NEW n \in Readers PROVE FreshOK(n)
  <2>1. shown[n] = Nothing /\ ~ shown[n].late
    BY DEF Init, Nothing
  <2>2. Version(n, server) = 0
    <3>1. PICK r \in Collections : H(n).of = {r}
      BY <1>1, ReadersAre
    <3> QED
      BY <3>1 DEF Version, Init
  <2>3. \A c \in calls : c.do = n => c.since = 0 /\ (n \in Searchers => c.q = 0) /\ ~ c.late
    BY <1>2, <1>3, <2>2 DEF ParameterOf
  <2>4. \A c \in calls : Mine(c, n) => Current(n, c.q, c.since)
    BY <1>2, <2>2, <2>3 DEF Mine, Current
  <2>5. \A R : RereadOK(n, R) /\ RepeatOK(n, R)
    BY <2>1, <2>4 DEF RereadOK, RepeatOK
  <2>6. MountedOK(n)
    BY <1>4, <2>3 DEF MountedOK, Mine
  <2>7. SameOK(n)
    BY <1>2, <2>1, <2>2, <2>3 DEF SameOK
  <2> QED
    BY <2>1, <2>5, <2>6, <2>7 DEF FreshOK
<1> QED
  BY <1>6, <1>7 DEF FreshInv

LEMMA NextFresh == Inv /\ TypeInv /\ SubmitInv /\ FreshInv /\ [Next]_vars => FreshInv'
<1> SUFFICES ASSUME Inv, TypeInv, SubmitInv, FreshInv, [Next]_vars PROVE FreshInv'
  OBVIOUS
\* What is at its end stays there.
<1>1. CASE End \/ UNCHANGED vars
  <2>1. UNCHANGED <<page, away, open, query, busy, shown, server, calls, timers, faults>>
    BY <1>1 DEF End, vars
  <2>2. /\ UNCHANGED <<Names, Readers, Searchers, Watchers, Nothing>>
        /\ \A n : UNCHANGED H(n)
    BY <2>1 DEF Names, Readers, Searchers, Watchers, Nothing, H
  <2>3. Ranked'
    BY <2>1, <2>2 DEF FreshInv, Ranked, Numbered, CallsOf
  <2>4. \A n : Version(n, server)' = Version(n, server)
    BY <2>1 DEF Version, H
  <2>5. ASSUME NEW n, FreshOK(n) PROVE FreshOK(n)'
    <3>0. \A R : Coming(n, R)' <=> Coming(n, R)
      BY <2>1, <2>2 DEF Coming, Reaches
    <3>1. \A R : RereadOK(n, R)' <=> RereadOK(n, R)
      <4>1. Waits(n)' <=> Waits(n)
        BY <2>1, <2>2 DEF Waits
      <4>2. \A q, v : Current(n, q, v)' <=> Current(n, q, v)
        BY <2>1, <2>2, <2>4 DEF Current
      <4> QED
        BY <2>1, <2>2, <3>0, <4>1, <4>2 DEF RereadOK, Mine
    <3>2. \A R : RepeatOK(n, R)' <=> RepeatOK(n, R)
      BY <2>1, <2>2, <3>0 DEF RepeatOK, Mine
    <3>3. MountedOK(n)' <=> MountedOK(n)
      BY <2>1 DEF MountedOK, Mine
    <3>4. SameOK(n)' <=> SameOK(n)
      BY <2>1, <2>2, <2>4 DEF SameOK
    <3> QED
      BY <2>1, <2>2, <2>5, <3>1, <3>2, <3>3, <3>4 DEF FreshOK
  <2> QED
    BY <2>1, <2>2, <2>3, <2>5 DEF FreshInv
<1>2. ASSUME NEW o \in page.offers, Click(o) PROVE FreshInv'
  BY <1>2, ClickFresh
<1>3. CASE GoAway
  BY <1>3, GoAwayFresh
<1>4. ASSUME NEW c \in calls, Answer(c) PROVE FreshInv'
  BY <1>4, AnswerFresh
<1>5. ASSUME NEW c \in calls, Fail(c) PROVE FreshInv'
  BY <1>5, FailFresh
<1>6. ASSUME NEW t \in timers, Fire(t) PROVE FreshInv'
  <2>1. t.do \in page.timed
    BY DEF SubmitInv
  <2> QED
    BY <1>6, <2>1, FireFresh
<1> QED
  BY <1>1, <1>2, <1>3, <1>4, <1>5, <1>6 DEF Next

\* On any pages where who changes what is on the screen, or the parameters it was asked
\* with, has it read again, directly or by way of other handlers, or where it is read again
\* and again, as the assumption that TLC checks for the pages of the web interface says:
\* once no request is under way and none has failed, what is on the screen is what the
\* server has, for the parameters that are set.  However often the user clicks, whatever is
\* opened and closed meanwhile, at whatever moment between request and answer the server
\* reads, and in whatever order the answers come.  Except the known handlers that nobody
\* calls again, and, when the answer on the screen came after that to a later request, the
\* known ones whose requests are not numbered: no other shows such an answer for good.
THEOREM FreshCorrect == Spec => []FreshWhenQuiet
<1>1. Init => Inv /\ TypeInv /\ SubmitInv /\ FreshInv
  BY InitInv, InitTyped, InitOneOut, InitFresh
<1>2. Inv /\ TypeInv /\ SubmitInv /\ FreshInv /\ [Next]_vars => Inv' /\ TypeInv' /\ SubmitInv' /\ FreshInv'
  BY NextInv, NextTyped, NextOneOut, NextFresh
<1>3. Inv /\ FreshInv => FreshWhenQuiet
  <2> SUFFICES ASSUME Inv, FreshInv, calls = {}, ~ away, faults = 0, NEW n \in Readers, Displayed(n),
                      <<page.name, n>> \notin KnownStale,
                      ~ (shown[n].late /\ <<page.name, n>> \in KnownRaces)
               PROVE  shown[n].v = Version(n, server) /\ (n \in Searchers => shown[n].q = query[n])
    BY DEF FreshWhenQuiet, Quiet
  <2>1. /\ ~ Filled(page.handlers, n)
        /\ Shows(page.handlers, n) =>
              \E R : /\ R \subseteq Renewing(page.handlers, n, R)
                     /\ \/ /\ Rereads(page.handlers, n, R)
                           /\ \/ H(n).latest
                              \/ OnlyMounted(page, n)
                              \/ Unchanging(page.handlers, n)
                              \/ <<page.name, n>> \in KnownRaces
                        \/ Repeats(page.handlers, n, R)
    BY ReadersAre DEF Inv
  <2>2. FreshOK(n) /\ shown[n] # Nothing /\ ~ Waits(n)
    BY <2>1 DEF FreshInv, Displayed
  <2>3. CASE Unchanging(page.handlers, n)
    BY <2>2, <2>3 DEF FreshOK, SameOK
  <2>4. CASE ~ Unchanging(page.handlers, n)
    <3>1. PICK R : /\ R \subseteq Renewing(page.handlers, n, R)
                   /\ \/ /\ Rereads(page.handlers, n, R)
                         /\ H(n).latest \/ OnlyMounted(page, n) \/ <<page.name, n>> \in KnownRaces
                      \/ Repeats(page.handlers, n, R)
      BY <2>1, <2>2, <2>4 DEF FreshOK
    <3>2. CASE Repeats(page.handlers, n, R)
      <4>1. RepeatOK(n, R)
        BY <2>2, <3>1, <3>2 DEF FreshOK
      <4> QED
        BY <2>2, <4>1 DEF RepeatOK, Coming, Displayed
    <3>3. CASE Rereads(page.handlers, n, R) /\ (H(n).latest \/ OnlyMounted(page, n) \/ <<page.name, n>> \in KnownRaces)
      <4>1. RereadOK(n, R)
        BY <2>2, <3>1, <3>3 DEF FreshOK
      <4>2. ~ shown[n].late
        BY <2>2, <3>3 DEF FreshOK
      <4>3. Current(n, shown[n].q, shown[n].v)
        BY <2>2, <4>1, <4>2 DEF RereadOK, Coming
      <4> QED
        BY <4>3 DEF Current
    <3> QED
      BY <3>1, <3>2, <3>3
  <2> QED
    BY <2>3, <2>4
<1> QED
  BY <1>1, <1>2, <1>3, PTL DEF Spec

=============================================================================
