------------------------------ MODULE BoundedWork ------------------------------
(* At most so many derives of a password at once, a queue of limited length   *)
(* behind them, and a limited wait in it.                                     *)
(*                                                                            *)
(* One step is one turn of the event loop up to the next await.  A promise    *)
(* that is resolved is taken up in a later turn: between a slot being handed  *)
(* over and its new holder starting, others call, and timers run out.         *)
EXTENDS Integers, Sequences, SequencesExt, FiniteSets

CONSTANTS
    Callers,
    Concurrency,
    QueueLimit

ASSUME BoundAssumption ==
    /\ Concurrency \in Nat \ {0} /\ QueueLimit \in Nat
    /\ IsFiniteSet(Callers)

VARIABLES
    running,    \* #running
    queue,      \* #queue, by the caller of each waiter
    timers,     \* waiters whose timer is set
    doing       \* where each caller is

workVars == <<running, queue, timers, doing>>

WorkInit ==
    /\ running = 0 /\ queue = <<>> /\ timers = {}
    /\ doing = [c \in Callers |-> "away"]

\* run, with a slot free: the work starts in the same turn.
RunStarts(c) ==
    /\ doing[c] = "away" /\ running < Concurrency
    /\ running' = running + 1
    /\ doing' = [doing EXCEPT ![c] = "working"]
    /\ UNCHANGED <<queue, timers>>

\* run, without: a place in the queue and a timer, or a refusal.
RunWaits(c) ==
    /\ doing[c] = "away" /\ running >= Concurrency
    /\ Len(queue) < QueueLimit
    /\ queue' = Append(queue, c)
    /\ timers' = timers \cup {c}
    /\ doing' = [doing EXCEPT ![c] = "waiting"]
    /\ UNCHANGED running

\* Mutant: the waiter is taken out of the queue, and not told.
MutantTimesOutSilently(c) ==
    /\ c \in timers
    /\ timers' = timers \ {c}
    /\ queue' = RemoveFirst(queue, c)
    /\ UNCHANGED <<doing, running>>

\* The timer's callback: out of the queue, and refused.
TimesOut(c) ==
    /\ c \in timers
    /\ timers' = timers \ {c}
    /\ queue' = RemoveFirst(queue, c)
    /\ doing' = [doing EXCEPT ![c] = "away"]
    /\ UNCHANGED running

\* The waiter takes up the promise release resolved.
TakesUp(c) ==
    /\ doing[c] = "served"
    /\ doing' = [doing EXCEPT ![c] = "working"]
    /\ UNCHANGED <<running, queue, timers>>

\* Mutant: the slot is given back and handed over.
MutantWorkEnds(c) ==
    /\ doing[c] = "working"
    /\ running' = running - 1
    /\ IF queue = <<>>
       THEN /\ doing' = [doing EXCEPT ![c] = "away"]
            /\ UNCHANGED <<queue, timers>>
       ELSE /\ queue' = Tail(queue)
            /\ timers' = timers \ {Head(queue)}
            /\ doing' = [doing EXCEPT ![c] = "away", ![Head(queue)] = "served"]

\* The work succeeds or fails; either way the slot goes to the head of the
\* queue, whose timer is cancelled, or is given back.
WorkEnds(c) ==
    /\ doing[c] = "working"
    /\ IF queue = <<>>
       THEN /\ running' = running - 1
            /\ doing' = [doing EXCEPT ![c] = "away"]
            /\ UNCHANGED <<queue, timers>>
       ELSE /\ queue' = Tail(queue)
            /\ timers' = timers \ {Head(queue)}
            /\ doing' = [doing EXCEPT ![c] = "away", ![Head(queue)] = "served"]
            /\ UNCHANGED running

WorkNext ==
    \E c \in Callers :
        RunStarts(c) \/ RunWaits(c) \/ TimesOut(c) \/ TakesUp(c) \/ WorkEnds(c)

\* Timers run out and promises are taken up; the work itself may never end.
WorkFairness == \A c \in Callers : WF_workVars(TimesOut(c)) /\ WF_workVars(TakesUp(c))

WorkSpec == WorkInit /\ [][WorkNext]_workVars /\ WorkFairness

-----------------------------------------------------------------------------
(* Properties *)

Holders == {c \in Callers : doing[c] \in {"working", "served"}}

\* No slot is lost and none is used twice: every slot counted has one holder,
\* who works or is about to; whoever waits is in the queue once, with a timer;
\* and nobody waits while a slot is free.
SlotsAreHeld ==
    /\ running = Cardinality(Holders) /\ running <= Concurrency
    /\ timers = {c \in Callers : doing[c] = "waiting"}
    /\ \A c \in Callers : doing[c] = "waiting" <=> \E i \in DOMAIN queue : queue[i] = c
    /\ \A i, j \in DOMAIN queue : queue[i] = queue[j] => i = j
    /\ Len(queue) <= QueueLimit
    /\ queue # <<>> => running = Concurrency

\* Whoever asks is answered: a caller that waits is served or refused, even when
\* the work that holds the slots never ends.
NobodyWaitsForEver == \A c \in Callers : doing[c] = "waiting" ~> doing[c] \in {"away", "working"}
=============================================================================
