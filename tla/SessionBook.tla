---------------------------- MODULE SessionBook ----------------------------
(***************************************************************************)
(* What the sessions of a user promise, with no transaction in sight: a    *)
(* sign-in keeps the limit by ending the oldest, a token is exchanged for  *)
(* one that takes its place, and what is over never comes back.            *)
(* IdentitySessions implements it.                                         *)
(***************************************************************************)
EXTENDS Integers, FiniteSets

CONSTANTS
    Sessions,   \* numbered in the order of their sign-ins and exchanges
    Limit       \* how many of them a user may hold at once

VARIABLES
    live,       \* the sessions the user holds
    over,       \* the sessions that were, or were over as soon as they began
    heirs       \* <<o, s>>: s took the place of o

vars == <<live, over, heirs>>

New == Sessions \ (live \cup over)

-----------------------------------------------------------------------------
Init == live = {} /\ over = {} /\ heirs = {}

\* The oldest are pushed out, the new one among them if its turn comes too late.
SignIn(s, pushed) ==
    LET held == live \cup {s} IN
    /\ s \in New /\ pushed \subseteq held
    /\ \A o \in pushed, k \in held \ pushed : o < k
    /\ live' = held \ pushed
    /\ Cardinality(held \ pushed) <= Limit
    /\ over' = over \cup pushed
    /\ UNCHANGED heirs

Exchange(o, s) ==
    /\ o \in live /\ s \in New
    /\ live' = (live \ {o}) \cup {s}
    /\ over' = over \cup {o}
    /\ heirs' = heirs \cup {<<o, s>>}

End(some) ==
    /\ some \subseteq live
    /\ live' = live \ some
    /\ over' = over \cup some
    /\ UNCHANGED heirs

Next ==
    \/ \E s \in Sessions : \E pushed \in SUBSET (live \cup {s}) : SignIn(s, pushed)
    \/ \E o, s \in Sessions : Exchange(o, s)
    \/ \E some \in SUBSET live : End(some)

Spec == Init /\ [][Next]_vars
=============================================================================
