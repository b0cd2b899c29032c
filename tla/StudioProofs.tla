----------------------------- MODULE StudioProofs -----------------------------
(***************************************************************************)
(* What the studio shows as saved is what the server has, for lists of any *)
(* length, any number of edits, saves and loads.                           *)
(*                                                                         *)
(* UnsavedIsMarked speaks of the moments when nothing is under way.  What  *)
(* leads to them is told by UnsavedInv: the steps that count as saved are  *)
(* those loaded last; the load asked for last brings what the server has,  *)
(* unless the server has stored something since, whose answer is due and   *)
(* will ask for another.                                                   *)
(***************************************************************************)
EXTENDS Studio, TLAPS

LastLoad == loads[Len(loads)]

UnsavedInv ==
    /\ \E S : loads \in Seq(S)
    /\ changed \in BOOLEAN
    /\ faults \in Nat
    /\ faults = 0 => /\ loads = <<>> /\ ~ Done => loaded = saved.steps
                     /\ loads = <<>> /\ ~ changed => steps = loaded
                     /\ loads # <<>> /\ ~ Done
                           => LastLoad.phase = "asked" \/ LastLoad.steps = saved.steps

\* Initially the studio shows what it loaded, which is what the server has.
LEMMA UnsavedInit == Init => UnsavedInv
<1> SUFFICES ASSUME Init PROVE UnsavedInv
    OBVIOUS
<1>1. loads \in Seq({})
    BY DEF Init
<1> QED
    BY <1>1 DEF Init, UnsavedInv, Done, Idle

\* The steps the studio hands over are compared with those that were loaded.
LEMMA ChangeKeeps ==
    ASSUME UnsavedInv, NEW list, onChange(list), UNCHANGED <<loaded, server>>
    PROVE  UnsavedInv'
BY DEF UnsavedInv, onChange, server, Done, LastLoad

\* Every step keeps the invariant.
LEMMA UnsavedNext == UnsavedInv /\ [Next]_vars => UnsavedInv'
<1> SUFFICES ASSUME UnsavedInv, [Next]_vars PROVE UnsavedInv'
    OBVIOUS
<1>1. ASSUME UNCHANGED <<steps, loaded, changed, server>> PROVE UnsavedInv'
    BY <1>1 DEF UnsavedInv, server, Done, LastLoad
<1>2. CASE UNCHANGED vars
    BY <1>1, <1>2 DEF vars, server
<1>3. ASSUME NEW n \in Names, NEW anchor \in Names \cup {None}, NEW branch \in BOOLEAN,
             onAdd(n, anchor, branch)
      PROVE  UnsavedInv'
    BY <1>1, <1>3 DEF onAdd
<1>4. CASE onClose
    BY <1>1, <1>4 DEF onClose
<1>5. ASSUME NEW deps, addStep(deps) PROVE UnsavedInv'
    BY <1>5, ChangeKeeps DEF addStep
<1>6. ASSUME NEW n \in Names, NEW deps, onUpdateStep(n, deps) PROVE UnsavedInv'
    BY <1>6, ChangeKeeps DEF onUpdateStep
<1>7. ASSUME NEW n \in Names, onDeleteStep(n) PROVE UnsavedInv'
    BY <1>7, ChangeKeeps DEF onDeleteStep
<1>8. ASSUME NEW n \in Names, startDrag(n) PROVE UnsavedInv'
    BY <1>1, <1>8 DEF startDrag
<1>9. ASSUME NEW n \in Names, drop(n) PROVE UnsavedInv'
    <2>1. CASE canDependOn(doing.seen.steps, doing.from, n)
        BY <1>9, <2>1, ChangeKeeps DEF drop
    <2>2. CASE ~ canDependOn(doing.seen.steps, doing.from, n)
        BY <1>1, <1>9, <2>2 DEF drop
    <2> QED
        BY <2>1, <2>2
<1>10. ASSUME NEW i, NEW j, onMove(i, j) PROVE UnsavedInv'
    <2> DEFINE at == First(steps, steps[i].name)
               other == at + j - i
    <2>1. CASE other \in DOMAIN steps
        <3>1. onChange(swap(steps, at, other)) /\ UNCHANGED <<loaded, server>>
            BY <1>10, <2>1 DEF onMove
        <3> QED
            BY <3>1, ChangeKeeps
    <2>2. CASE other \notin DOMAIN steps
        <3>1. UNCHANGED <<steps, loaded, changed, server>>
            BY <1>10, <2>2 DEF onMove
        <3> QED
            BY <1>1, <3>1
    <2> QED
        BY <2>1, <2>2
<1>11. ASSUME NEW from \in Names, NEW to \in Names, onUnlink(from, to) PROVE UnsavedInv'
    BY <1>11, ChangeKeeps DEF onUnlink
<1>12. ASSUME NEW m \in Modes, onApply(m) PROVE UnsavedInv'
    <2>1. CASE studioUpdate(mode, m, steps) # steps
        BY <1>12, <2>1, ChangeKeeps DEF onApply
    <2>2. CASE studioUpdate(mode, m, steps) = steps
        <3>1. changed' = TRUE /\ UNCHANGED <<loaded, server>>
            BY <1>12, <2>2 DEF onApply
        <3> QED
            BY <3>1 DEF UnsavedInv, server, Done, LastLoad
    <2> QED
        BY <2>1, <2>2
<1>13. CASE onSave
    BY <1>13 DEF onSave, UnsavedInv, Done, LastLoad, Idle
<1>14. CASE updatePipeline
    BY <1>14 DEF updatePipeline, UnsavedInv, Done, LastLoad, Idle
<1>15. CASE Saved
    <2>1. PICK S : loads \in Seq(S)
        BY DEF UnsavedInv
    <2>2. loads \in Seq(S \cup {[phase |-> "asked"]})
        BY <2>1
    <2>3. /\ loads' \in Seq(S \cup {[phase |-> "asked"]})
          /\ loads' # <<>>
          /\ loads'[Len(loads')] = [phase |-> "asked"]
        BY <1>15, <2>2 DEF Saved
    <2>4. \E T : loads' \in Seq(T)
        BY <2>3
    <2>5. changed' = FALSE /\ faults' = faults
        BY <1>15 DEF Saved
    <2>6. LastLoad'.phase = "asked"
        BY <2>3 DEF LastLoad
    <2> QED
        BY <2>3, <2>4, <2>5, <2>6 DEF UnsavedInv
<1>16. CASE SaveLost
    BY <1>16 DEF SaveLost, UnsavedInv
<1>17. CASE loadPipeline
    <2> DEFINE answer == [phase |-> "answered", steps |-> saved.steps, mode |-> saved.mode]
    <2>1. PICK S : loads \in Seq(S)
        BY DEF UnsavedInv
    <2>2. PICK i \in DOMAIN loads : loads' = [loads EXCEPT ![i] = answer]
        BY <1>17 DEF loadPipeline
    <2>3. loads \in Seq(S \cup {answer})
        BY <2>1
    <2>4. /\ loads' \in Seq(S \cup {answer})
          /\ loads' # <<>> /\ loads # <<>>
          /\ Len(loads') = Len(loads)
          /\ loads'[Len(loads)] \in {answer, loads[Len(loads)]}
        <3>1. /\ loads' \in [1..Len(loads) -> S \cup {answer}]
              /\ \A k \in 1..Len(loads) : loads'[k] \in {answer, loads[k]}
              /\ Len(loads) \in Nat /\ i \in 1..Len(loads)
            BY <2>2, <2>3
        <3>2. loads' \in Seq(S \cup {answer})
            BY <3>1
        <3>3. Len(loads') = Len(loads)
            BY <2>2, <2>3, <3>1, <3>2
        <3> QED
            BY <3>1, <3>2, <3>3
    <2>5. answer.steps = saved.steps
        OBVIOUS
    <2> QED
        BY <1>17, <2>4, <2>5 DEF loadPipeline, UnsavedInv, LastLoad, Done
<1>18. CASE Loaded
    <2>1. PICK S : loads \in Seq(S)
        BY DEF UnsavedInv
    <2>2. /\ loads' = Tail(loads) /\ loads # <<>>
          /\ loaded' = Head(loads).steps
          /\ Head(loads).phase = "answered"
          /\ UNCHANGED <<sending, saved, faults>>
        BY <1>18 DEF Loaded
    <2>3. changed' = (changed \/ steps' # loaded')
        BY <1>18 DEF Loaded
    <2>4. loads' \in Seq(S)
        BY <2>1, <2>2
    <2>5. ASSUME loads' = <<>> PROVE Head(loads) = loads[Len(loads)]
        <3>1. Len(loads) \in Nat /\ Len(loads) > 0 /\ Len(Tail(loads)) = Len(loads) - 1
            BY <2>1, <2>2
        <3>2. Len(Tail(loads)) = 0
            <4>1. Tail(loads) = <<>>
                BY <2>2, <2>5, Zenon
            <4>2. Len(<<>>) = 0
                OBVIOUS
            <4> QED
                BY <4>1, <4>2, Zenon
        <3>3. Len(loads) = 1
            BY <3>1, <3>2
        <3> QED
            BY <2>1, <2>2, <3>3
    <2>6. ASSUME loads' # <<>> PROVE loads'[Len(loads')] = loads[Len(loads)]
        BY <2>1, <2>2, <2>6
    <2>7. changed' \in BOOLEAN /\ (~ changed' => steps' = loaded')
        BY <2>3 DEF UnsavedInv
    <2> QED
        BY <2>2, <2>4, <2>5, <2>6, <2>7 DEF UnsavedInv, LastLoad, Done
<1>19. CASE LoadFails
    <2>1. PICK S : loads \in Seq(S)
        BY DEF UnsavedInv
    <2>2. loads' \in Seq(S)
        BY <1>19, <2>1 DEF LoadFails
    <2> QED
        BY <1>19, <2>2 DEF LoadFails, UnsavedInv
<1> QED
    BY <1>2, <1>3, <1>4, <1>5, <1>6, <1>7, <1>8, <1>9, <1>10, <1>11, <1>12, <1>13, <1>14,
       <1>15, <1>16, <1>17, <1>18, <1>19
       DEF Next

\* When nothing is under way and the studio shows no unsaved changes, its steps are those
\* the server has, however saves, loads and edits overlapped.
THEOREM UnsavedMarked == Spec => []UnsavedIsMarked
<1>1. UnsavedInv => UnsavedIsMarked
    BY DEF UnsavedInv, UnsavedIsMarked, Quiet, Done, Idle
<1> QED
    BY UnsavedInit, UnsavedNext, <1>1, PTL DEF Spec

=============================================================================
