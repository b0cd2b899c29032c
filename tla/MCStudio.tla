------------------------------- MODULE MCStudio -------------------------------
(* A pipeline of at most three steps, for TLC. *)
EXTENDS Studio

CONSTANTS s1, s2, s3

\* The third step reads an output of the first.
ThirdReadsFirst == [n \in {s1, s2, s3} |-> IF n = s3 THEN {s1} ELSE {}]

Lists ==
    LET Of(order) == {list \in [DOMAIN order -> [name : {s1, s2, s3}, deps : SUBSET {s1, s2, s3}]] :
                        \A i \in DOMAIN order :
                           /\ list[i].name = order[i]
                           /\ list[i].deps \subseteq {order[j] : j \in (DOMAIN order) \ {i}}}
    IN  UNION {Of(o) : o \in {<<s1>>, <<s1, s2>>}}

\* One or two steps without a loop, to be run in order or not; or a step that is there twice.
ShortList ==
    [steps : {list \in Lists : LoopFree(list)}, mode : {"StepByStep", "DAG"}]
        \cup {[steps |-> <<[name |-> s1, deps |-> {}], [name |-> s1, deps |-> {}]>>, mode |-> "StepByStep"]}

=============================================================================
