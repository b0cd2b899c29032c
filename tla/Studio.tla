-------------------------------- MODULE Studio --------------------------------
(***************************************************************************)
(* The studio in which the steps of a pipeline are edited: the list of     *)
(* steps and what they wait on, the edits made in the graph and in the     *)
(* forms, and the saving and loading of the pipeline underneath them.      *)
(*                                                                         *)
(* A step is its name and the names in its dependsOn.  The steps whose     *)
(* outputs feed a step's inputs are given by Inputs.                       *)
(***************************************************************************)
EXTENDS Naturals, Sequences, FiniteSets

CONSTANTS
    Names,
    Inputs,      \* name of a step -> the steps whose outputs it reads
    None,        \* no anchor, nothing being done
    Stored,      \* the pipelines the server may have when the studio is opened
    MaxEdits,    \* bound: what the user does
    MaxFault     \* bound: answers that are lost

Modes == {"StepByStep", "DAG"}
Step == [name : Names, deps : SUBSET Names]

ASSUME NoneAssumption == None \notin Names
ASSUME InputsAssumption == Inputs \in [Names -> SUBSET Names]
ASSUME StoredAssumption == Stored \subseteq [steps : Seq(Step), mode : Modes]
ASSUME BoundAssumption == MaxEdits \in Nat /\ MaxFault \in Nat

VARIABLES
    steps, mode,   \* what the studio shows
    loaded,        \* the steps of the pipeline as it was last loaded
    changed,       \* there are unsaved changes
    doing,         \* a step that is being added, a line that is being drawn, or neither
    sending,       \* the request that saves
    loads,         \* the requests that load, or the server's answers to them
    saved,         \* what the server has
    edits, faults

vars == <<steps, mode, loaded, changed, doing, sending, loads, saved, edits, faults>>
server == <<sending, loads, saved, faults>>

-----------------------------------------------------------------------------
(* Lists of steps *)

NamesOf(list) == {list[i].name : i \in DOMAIN list}

\* Where a step is found, and where a Map filled from the list has it.
First(list, n) == CHOOSE i \in DOMAIN list : list[i].name = n /\ \A j \in 1..(i-1) : list[j].name # n
Last(list, n) ==
    CHOOSE i \in DOMAIN list : list[i].name = n /\ \A j \in (i+1)..Len(list) : list[j].name # n

\* The list without the steps of these names.
Without(list, names) ==
    LET kept[k \in 0..Len(list)] ==
            IF k = 0 THEN <<>>
            ELSE IF list[k].name \in names THEN kept[k-1]
            ELSE Append(kept[k-1], list[k])
    IN  kept[Len(list)]

\* The steps of the list a step waits on.
waitsOn(list) ==
    [n \in NamesOf(list) |->
       ((list[Last(list, n)].deps \cup Inputs[n]) \cap NamesOf(list)) \ {n}]

\* The pairs <<from, to>> of which to waits on from.
Links(waits) == UNION {waits[n] \X {n} : n \in DOMAIN waits}

\* Step a waits on b, or on a step that does, and so on; or is b.
Reaches(links, a, b) ==
    LET seen[k \in 0..Cardinality(links)] ==
            IF k = 0 THEN {a}
            ELSE LET before == seen[k-1]
                 IN  before \cup {l[1] : l \in {x \in links : x[2] \in before}}
    IN  b \in seen[Cardinality(links)]

\* A variant of orderByDependencies: the list is gone through once.
orderByDependenciesOnce(list) ==
    LET waits == waitsOn(list)
        place[k \in 0..Len(list)] ==
            IF k = 0 THEN <<>>
            ELSE IF waits[list[k].name] \subseteq NamesOf(place[k-1]) THEN Append(place[k-1], list[k])
            ELSE place[k-1]
        ordered == place[Len(list)]
    IN  ordered \o Without(list, NamesOf(ordered))

\* Again and again the first step all of whose waits are placed; those in a cycle last.
orderByDependencies(list) ==
    LET waits == waitsOn(list)
        place[k \in 0..Len(list)] ==
            IF k = 0 THEN <<>>
            ELSE LET placed == place[k-1]
                     free == {i \in DOMAIN list :
                                /\ list[i].name \notin NamesOf(placed)
                                /\ waits[list[i].name] \subseteq NamesOf(placed)}
                 IN  IF free = {} THEN placed
                     ELSE Append(placed, list[CHOOSE i \in free : \A j \in free : i <= j])
        ordered == place[Len(list)]
    IN  ordered \o Without(list, NamesOf(ordered))

\* The pairs <<step, later step it waits on>>.
forwardWaits(list) ==
    LET waits == waitsOn(list)
    IN  UNION {{<<list[i].name, list[j].name>> :
                  j \in {k \in DOMAIN list : k > i /\ list[k].name \in waits[list[i].name]}} :
               i \in DOMAIN list}

\* A variant of canMove: what the two wait on is not looked at.
canMoveAnywhere(list, i, j) == i \in DOMAIN list /\ j \in DOMAIN list

\* The step at i may swap places with its neighbour at j.
canMove(list, i, j) ==
    /\ i \in DOMAIN list /\ j \in DOMAIN list
    /\ LET a == IF i < j THEN i ELSE j
           b == IF i < j THEN j ELSE i
       IN  list[a].name \notin waitsOn(list)[list[b].name]

\* A variant of canDependOn: only the step itself is asked, not what it waits on.
canDependOnUnless(list, from, to) ==
    /\ from # to /\ {from, to} \subseteq NamesOf(list)
    /\ from \notin waitsOn(list)[to]

canDependOn(list, from, to) ==
    /\ from # to /\ {from, to} \subseteq NamesOf(list)
    /\ from \notin waitsOn(list)[to]
    /\ ~ Reaches(Links(waitsOn(list)), from, to)

\* Steps that run in order wait on the one before, too.
AllLinks(list, m) ==
    LET before == {<<list[i].name, list[i+1].name>> : i \in 1..(Len(list) - 1)}
    IN  Links(waitsOn(list)) \cup IF m = "DAG" THEN {} ELSE {l \in before : l[1] # l[2]}

\* A variant of stepEdges: every wait is drawn.
stepEdgesAll(list, m) == AllLinks(list, m)

\* The lines <<from, to>> that are drawn: one that a longer path implies is left out,
\* unless it goes backward.
stepEdges(list, m) ==
    LET links == AllLinks(list, m)
        backward == {l \in links : m # "DAG" /\ Last(list, l[1]) > Last(list, l[2])}
        forward == links \ backward
    IN  backward \cup {l \in forward : ~ Reaches(forward \ {l}, l[2], l[1])}

\* The list with a step after the anchor.  Unless it is a branch, the steps that named
\* the anchor name the new step instead.
insertAfter(list, anchor, step, branch) ==
    IF anchor \notin NamesOf(list) THEN Append(list, step)
    ELSE LET at == First(list, anchor)
             rest == [i \in DOMAIN list |->
                        IF ~ branch /\ anchor \in list[i].deps
                        THEN [list[i] EXCEPT !.deps = (@ \ {anchor}) \cup {step.name}]
                        ELSE list[i]]
         IN  SubSeq(rest, 1, at) \o <<step>> \o SubSeq(rest, at + 1, Len(list))

\* What a new step waits on unless the form says otherwise.
Offered(list, anchor, m) == IF m = "DAG" /\ anchor \in NamesOf(list) THEN {anchor} ELSE {}

addDependency(list, from, to) ==
    [i \in DOMAIN list |->
       IF list[i].name = to THEN [list[i] EXCEPT !.deps = @ \cup {from}] ELSE list[i]]

\* A variant of removeDependency: the entry is blanked, not taken out.
removeDependencyBlank(list, from, to) ==
    [i \in DOMAIN list |->
       IF list[i].name = to THEN [list[i] EXCEPT !.deps = (@ \ {from}) \cup {None}] ELSE list[i]]

removeDependency(list, from, to) ==
    [i \in DOMAIN list |->
       IF list[i].name = to THEN [list[i] EXCEPT !.deps = @ \ {from}] ELSE list[i]]

\* A variant of withoutDependency: the siblings are left as they are.
withoutDependencyKept(list, n) == list

withoutDependency(list, n) ==
    [i \in DOMAIN list |-> [list[i] EXCEPT !.deps = @ \ {n}]]

swap(list, i, j) == [list EXCEPT ![i] = list[j], ![j] = list[i]]

-----------------------------------------------------------------------------
(* The user *)

Idle == [phase |-> "none"]

Init ==
    /\ saved \in Stored
    /\ steps = saved.steps
    /\ mode = saved.mode
    /\ loaded = saved.steps
    /\ changed = FALSE
    /\ doing = None
    /\ sending = Idle
    /\ loads = <<>>
    /\ edits = 0
    /\ faults = 0

\* The studio hands its steps to the page, which compares them with those it loaded.
onChange(list) ==
    /\ steps' = list
    /\ changed' = (list # loaded)

Edit ==
    /\ edits < MaxEdits
    /\ edits' = edits + 1

Free == doing = None

Shown == [steps |-> steps, mode |-> mode]

\* A form, over everything else, asks for a step: its name must be new when it is entered.
onAdd(n, anchor, branch) ==
    /\ Free /\ Edit
    /\ n \notin NamesOf(steps)
    /\ anchor \in NamesOf(steps) \cup {None}
    /\ branch => mode = "DAG" /\ anchor # None
    /\ doing' = [what |-> "add", name |-> n, anchor |-> anchor, branch |-> branch, seen |-> Shown]
    /\ UNCHANGED <<steps, mode, loaded, changed, server>>

Adding == doing # None /\ doing.what = "add"

onClose ==
    /\ Adding
    /\ doing' = None
    /\ UNCHANGED <<steps, mode, loaded, changed, server, edits>>

addStep(deps) ==
    /\ Adding
    /\ onChange(insertAfter(steps, doing.anchor, [name |-> doing.name, deps |-> deps], doing.branch))
    /\ doing' = None
    /\ UNCHANGED <<mode, loaded, server, edits>>

onUpdateStep(n, deps) ==
    /\ Free /\ Edit
    /\ n \in NamesOf(steps)
    /\ onChange([i \in DOMAIN steps |-> IF steps[i].name = n THEN [steps[i] EXCEPT !.deps = deps] ELSE steps[i]])
    /\ UNCHANGED <<mode, loaded, doing, server>>

onDeleteStep(n) ==
    /\ Free /\ Edit
    /\ n \in NamesOf(steps)
    /\ onChange(withoutDependency(Without(steps, {n}), n))
    /\ UNCHANGED <<mode, loaded, doing, server>>

\* A list with a hole cannot be drawn: an error takes the place of the page.
Broken == [what |-> "broken"]

\* Only where the steps run in order.  The step is found again by its name, the first of
\* two, which may have no neighbour on that side.
onMove(i, j) ==
    /\ Free /\ Edit
    /\ mode = "StepByStep"
    /\ canMove(steps, i, j)
    /\ LET at == First(steps, steps[i].name)
           other == at + j - i
       IN  IF other \in DOMAIN steps
           THEN onChange(swap(steps, at, other)) /\ UNCHANGED doing
           ELSE doing' = Broken /\ UNCHANGED <<steps, changed>>
    /\ UNCHANGED <<mode, loaded, server>>

\* A line is drawn from a step, only where steps run in parallel.  What is asked when it
\* is dropped is asked of the steps there were when it was begun.
startDrag(from) ==
    /\ Free /\ Edit
    /\ mode = "DAG"
    /\ from \in NamesOf(steps)
    /\ doing' = [what |-> "drag", from |-> from, seen |-> Shown]
    /\ UNCHANGED <<steps, mode, loaded, changed, server>>

drop(to) ==
    /\ doing # None /\ doing.what = "drag"
    /\ IF canDependOn(doing.seen.steps, doing.from, to)
       THEN onChange(addDependency(steps, doing.from, to))
       ELSE UNCHANGED <<steps, changed>>
    /\ doing' = None
    /\ UNCHANGED <<mode, loaded, server, edits>>

onUnlink(from, to) ==
    /\ Free /\ Edit
    /\ mode = "DAG"
    /\ <<from, to>> \in stepEdges(steps, mode)
    /\ from \in steps[First(steps, to)].deps
    /\ onChange(removeDependency(steps, from, to))
    /\ UNCHANGED <<mode, loaded, doing, server>>

\* Switching to run in order orders the steps.
studioUpdate(from, to, list) ==
    IF from # "StepByStep" /\ to = "StepByStep" THEN orderByDependencies(list) ELSE list

onApply(m) ==
    /\ Free /\ Edit
    /\ mode' = m
    /\ LET list == studioUpdate(mode, m, steps)
       IN  IF list # steps THEN onChange(list) ELSE steps' = steps /\ changed' = TRUE
    /\ UNCHANGED <<loaded, doing, server>>

-----------------------------------------------------------------------------
(* Saving and loading *)

onSave ==
    /\ Free /\ Edit
    /\ changed
    /\ sending = Idle
    /\ sending' = [phase |-> "sent", steps |-> steps, mode |-> mode]
    /\ UNCHANGED <<steps, mode, loaded, changed, doing, loads, saved, faults>>

Done == sending.phase = "done"

updatePipeline ==
    /\ sending.phase = "sent"
    /\ \/ /\ saved' = [steps |-> sending.steps, mode |-> sending.mode]
          /\ sending' = [phase |-> "done"]
       \/ /\ sending' = Idle
          /\ UNCHANGED saved
    /\ UNCHANGED <<steps, mode, loaded, changed, doing, loads, edits, faults>>

\* A variant of Saved: the page does not load what it saved.
SavedWithoutLoad ==
    /\ Done
    /\ sending' = Idle
    /\ changed' = FALSE
    /\ UNCHANGED <<steps, mode, loaded, doing, loads, saved, edits, faults>>

\* The answer comes: the pipeline is loaded again.
Saved ==
    /\ Done
    /\ sending' = Idle
    /\ changed' = FALSE
    /\ loads' = Append(loads, [phase |-> "asked"])
    /\ UNCHANGED <<steps, mode, loaded, doing, saved, edits, faults>>

\* The server stored the pipeline, and its answer is lost.
SaveLost ==
    /\ Done
    /\ faults < MaxFault
    /\ faults' = faults + 1
    /\ sending' = Idle
    /\ UNCHANGED <<steps, mode, loaded, changed, doing, loads, saved, edits>>

\* The server reads what it has, for one request after the other.
loadPipeline ==
    /\ \E i \in DOMAIN loads :
          /\ loads[i].phase = "asked"
          /\ \A j \in 1..(i-1) : loads[j].phase # "asked"
          /\ loads' = [loads EXCEPT ![i] = [phase |-> "answered", steps |-> saved.steps, mode |-> saved.mode]]
    /\ UNCHANGED <<steps, mode, loaded, changed, doing, sending, saved, edits, faults>>

\* Its answer replaces what the studio shows.
Loaded ==
    /\ loads # <<>> /\ Head(loads).phase = "answered"
    /\ loads' = Tail(loads)
    /\ mode' = Head(loads).mode
    /\ loaded' = Head(loads).steps
    /\ steps' = studioUpdate(mode, Head(loads).mode, Head(loads).steps)
    /\ changed' = (changed \/ steps' # loaded')
    /\ UNCHANGED <<doing, sending, saved, edits, faults>>

\* Without an answer the callback throws, and what is shown stays.
LoadFails ==
    /\ loads # <<>>
    /\ faults < MaxFault
    /\ faults' = faults + 1
    /\ loads' = Tail(loads)
    /\ UNCHANGED <<steps, mode, loaded, changed, doing, sending, saved, edits>>

-----------------------------------------------------------------------------

\* What is done in the graph, with the step a form offers.
ByGraph ==
    \/ Adding /\ addStep(Offered(doing.seen.steps, doing.anchor, mode))
    \/ \E n \in Names : onDeleteStep(n) \/ drop(n)
    \/ \E i, j \in DOMAIN steps : (j = i + 1 \/ i = j + 1) /\ onMove(i, j)
    \/ \E from, to \in Names : onUnlink(from, to)
    \/ \E m \in Modes : onApply(m)

Next ==
    \/ \E n \in Names, anchor \in Names \cup {None}, branch \in BOOLEAN : onAdd(n, anchor, branch)
    \/ onClose
    \/ Adding /\ \E deps \in SUBSET NamesOf(doing.seen.steps) : addStep(deps)
    \/ \E n \in Names : \E deps \in SUBSET (NamesOf(steps) \ {n}) : onUpdateStep(n, deps)
    \/ \E n \in Names : onDeleteStep(n) \/ startDrag(n) \/ drop(n)
    \/ \E i, j \in DOMAIN steps : (j = i + 1 \/ i = j + 1) /\ onMove(i, j)
    \/ \E from, to \in Names : onUnlink(from, to)
    \/ \E m \in Modes : onApply(m)
    \/ onSave \/ updatePipeline \/ Saved \/ SaveLost
    \/ loadPipeline \/ Loaded \/ LoadFails

Spec == Init /\ [][Next]_vars

-----------------------------------------------------------------------------
(* Properties *)

Pipeline == [steps : Seq(Step), mode : Modes]
Doing ==
    [what : {"add"}, name : Names, anchor : Names \cup {None}, branch : BOOLEAN, seen : Pipeline]
        \cup [what : {"drag"}, from : Names, seen : Pipeline]
        \cup {Broken}
Sending == [phase : {"none", "done"}] \cup [phase : {"sent"}, steps : Seq(Step), mode : Modes]
Load == [phase : {"asked"}] \cup [phase : {"answered"}, steps : Seq(Step), mode : Modes]

\* The state has its type.
TypeOK ==
    /\ Shown \in Pipeline
    /\ loaded \in Seq(Step)
    /\ changed \in BOOLEAN
    /\ doing \in {None} \cup Doing
    /\ sending \in Sending
    /\ loads \in Seq(Load)
    /\ saved \in Pipeline
    /\ edits \in Nat /\ faults \in Nat

Unique(list) == Cardinality(NamesOf(list)) = Len(list)
LoopFree(list) ==
    LET waits == waitsOn(list)
    IN  \A S \in SUBSET NamesOf(list) : S # {} => \E n \in S : waits[n] \cap S = {}
NamesOthers(list) ==
    \A i \in DOMAIN list : list[i].deps \subseteq NamesOf(list) \ {list[i].name}

\* Every step of a run gets its turn.
Finishes(list, m) ==
    /\ Unique(list) /\ NamesOthers(list) /\ LoopFree(list)
    /\ m = "StepByStep" => forwardWaits(list) = {}

\* No answer has come under a form or a line, and the new step takes part in no
\* exchange of outputs.
Undisturbed ==
    /\ doing # None => doing.seen = Shown
    /\ Adding => \A n \in NamesOf(steps) :
                    n \notin Inputs[doing.name] /\ doing.name \notin Inputs[n]

\* Whatever is done in the graph (steps added where they are offered, deleted, moved,
\* joined and parted, run in parallel or in order), a workflow whose runs finish stays
\* one: no loop, no wait on a later step, on itself or on one that is gone, no name twice.
StaysFinishing ==
    [][ByGraph /\ Undisturbed /\ Finishes(steps, mode) => Finishes(steps', mode')]_vars

\* The orders of a list without forward waits, as sequences of places.
Orders(list) ==
    LET waits == waitsOn(list)
    IN  {p \in [DOMAIN list -> DOMAIN list] :
           \A i, j \in DOMAIN list : i < j => /\ p[i] # p[j]
                                              /\ list[p[j]].name \notin waits[list[p[i]].name]}

Before(p, q) == \E i \in DOMAIN p : p[i] < q[i] /\ \A j \in 1..(i-1) : p[j] = q[j]

\* orderByDependencies finds, where there is one, the order that has no step wait on a
\* later one and keeps to the list's order wherever it can: of all such orders the first.
OrderIsBest ==
    Unique(steps) /\ LoopFree(steps)
        => LET orders == Orders(steps)
               first == CHOOSE p \in orders : \A q \in orders : p = q \/ Before(p, q)
           IN  orderByDependencies(steps) = [i \in DOMAIN steps |-> steps[first[i]]]

\* The lines that are drawn lead from a step to another exactly where the second waits on
\* the first, directly or through others, or comes after it in order; and none could be
\* left out.
LinesSayAll ==
    Finishes(steps, mode)
        => LET edges == stepEdges(steps, mode)
               Earlier(p, q) == mode # "DAG" /\ First(steps, p) < First(steps, q)
               all == Links(waitsOn(steps))
                        \cup {l \in NamesOf(steps) \X NamesOf(steps) : Earlier(l[1], l[2])}
           IN  /\ edges \subseteq all
               /\ \A l \in all : Reaches(edges, l[2], l[1])
               /\ \A e \in edges : ~ Reaches(edges \ {e}, e[2], e[1])

\* Nothing is under way between the studio and the server.
Quiet == sending = Idle /\ loads = <<>>

\* The studio that shows no unsaved changes shows the steps the server has, whatever the
\* user did while they were saved and loaded, unless an answer was lost.
UnsavedIsMarked == Quiet /\ faults = 0 /\ ~ changed => steps = saved.steps

=============================================================================
