----------------------------- MODULE Scorebook -----------------------------
(***************************************************************************)
(* What scoring promises of the marks of a paper, with no handler, record  *)
(* or message in sight: an attempt has no score or one; marking gives it   *)
(* its first, and nothing but an approved correction gives it another; a   *)
(* correction is approved once, over the scores of the attempts that were  *)
(* previewed, which then stay those it was approved over, and is made once *)
(* after that, of every attempt that the making names, in one step.        *)
(*                                                                         *)
(* It does not promise that what is made is what was previewed, or is made *)
(* of the same attempts: a preview and a making are each of inputs of      *)
(* their own.  Rescoring implements it.                                    *)
(***************************************************************************)
CONSTANTS
    Attempt,      \* the papers handed in
    Operation,    \* the corrections
    Score,        \* what marking may come to
    FirstScore,   \* what marking makes of an attempt
    Correction    \* the inputs a correction may be previewed or made from: what
                  \* they make of each attempt they are of

VARIABLES
    marks,   \* the score of each attempt, or a set with nothing in it
    stage,   \* of each correction: open, approved or made
    basis    \* the scores it was approved over, or a set with nothing in it

vars == <<marks, stage, basis>>

-----------------------------------------------------------------------------
Init == /\ marks = [a \in Attempt |-> {}]
        /\ stage = [o \in Operation |-> "open"]
        /\ basis = [o \in Operation |-> {}]

Mark(a) == /\ marks[a] = {}
           /\ marks' = [marks EXCEPT ![a] = {FirstScore[a]}]
           /\ UNCHANGED <<stage, basis>>

Approve(o, c) == /\ stage[o] = "open"
                 /\ stage' = [stage EXCEPT ![o] = "approved"]
                 /\ \E over \in [DOMAIN c -> Score] : basis' = [basis EXCEPT ![o] = {over}]
                 /\ UNCHANGED marks

Make(o, c) == /\ stage[o] = "approved"
              /\ \A a \in DOMAIN c : marks[a] # {}
              /\ marks' = [a \in Attempt |-> IF a \in DOMAIN c THEN {c[a]} ELSE marks[a]]
              /\ stage' = [stage EXCEPT ![o] = "made"]
              /\ UNCHANGED basis

Next == \/ \E a \in Attempt : Mark(a)
        \/ \E o \in Operation, c \in Correction : Approve(o, c) \/ Make(o, c)

Spec == Init /\ [][Next]_vars
=============================================================================
