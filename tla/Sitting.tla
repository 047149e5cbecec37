------------------------------ MODULE Sitting ------------------------------
(***************************************************************************)
(* What the server promises about a sitting, with no request, sweep or     *)
(* consumer in sight: answers are taken while it is open, what it holds    *)
(* when it is submitted is exactly what is marked, and it is marked once.  *)
(* AttemptServer implements it.                                            *)
(***************************************************************************)
CONSTANTS
    Attempt,   \* a student's attempts at a mock
    Event      \* answers, as the device's event ids name them

VARIABLES
    phase,    \* none, open, submitted or lapsed
    answers,  \* the answers that count
    result    \* the scores of an attempt, as the answers each was computed from

vars == <<phase, answers, result>>

Init == /\ phase = [a \in Attempt |-> "none"]
        /\ answers = [a \in Attempt |-> {}]
        /\ result = [a \in Attempt |-> {}]

Begin(a) == /\ phase[a] = "none"
            /\ phase' = [phase EXCEPT ![a] = "open"]
            /\ UNCHANGED <<answers, result>>

Answer(a, e) == /\ phase[a] = "open"
                /\ answers' = [answers EXCEPT ![a] = @ \cup {e}]
                /\ UNCHANGED <<phase, result>>

Submit(a) == /\ phase[a] = "open"
             /\ phase' = [phase EXCEPT ![a] = "submitted"]
             /\ UNCHANGED <<answers, result>>

Lapse(a) == /\ phase[a] = "open"
            /\ phase' = [phase EXCEPT ![a] = "lapsed"]
            /\ UNCHANGED <<answers, result>>

Mark(a) == /\ phase[a] = "submitted"
           /\ result[a] = {}
           /\ result' = [result EXCEPT ![a] = {answers[a]}]
           /\ UNCHANGED <<phase, answers>>

Next == \E a \in Attempt : \/ Begin(a) \/ Submit(a) \/ Lapse(a) \/ Mark(a)
                           \/ \E e \in Event : Answer(a, e)

Spec == Init /\ [][Next]_vars
=============================================================================
