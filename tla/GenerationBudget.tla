--------------------------- MODULE GenerationBudget ---------------------------
(* What generation may spend: the ceiling of a period, the reservations of    *)
(* the runs admitted under it, and the meter every provider call goes through.*)
(*                                                                            *)
(* Runs, reservations, ceilings and ledger rows are only ever appended, so the*)
(* sums the code selects are kept here as running totals.  Admission is one   *)
(* transaction taken apart at the read of the committed sum; a metered call is*)
(* taken apart at the provider, which answers when it likes.                  *)
EXTENDS Integers, FiniteSets

CONSTANTS
    Runs,          \* the period's generation runs
    Meters,        \* provider calls in flight at once: batteries and proposals
    Ceilings,      \* ceilings an operator may declare
    Reservations,  \* tokens a run may ask for
    MaxUsage,      \* the most tokens one call consumes
    NoRun

ASSUME BudgetAssumption ==
    /\ Ceilings \subseteq Nat \ {0} /\ Reservations \subseteq Nat \ {0}
    /\ MaxUsage \in Nat \ {0}
    /\ IsFiniteSet(Meters) /\ NoRun \notin Runs

VARIABLES
    ceiling,    \* the declared ceiling; 0 before the declaration
    committed,  \* the sum of the admitted runs' reservations
    budget,     \* what each run reserved; 0 before it is admitted
    admitting,  \* the enqueue that holds the advisory lock and what it has read
    spent,      \* the sum of the ledger, by run
    call        \* the run each call is charged to while the provider has it

budgetVars == <<ceiling, committed, budget, admitting, spent, call>>

NobodyAdmits == [run |-> NoRun, asks |-> 0, read |-> 0]

BudgetInit ==
    /\ ceiling = 0 /\ committed = 0
    /\ budget = [r \in Runs |-> 0]
    /\ admitting = NobodyAdmits
    /\ spent = [r \in Runs |-> 0]
    /\ call = [m \in Meters |-> NoRun]

\* A second declaration for the period is the unique key's conflict.
DeclareBudget ==
    /\ ceiling = 0
    /\ ceiling' \in Ceilings
    /\ UNCHANGED <<committed, budget, admitting, spent, call>>

\* Mutant: the scope is not locked, so a second enqueue reads beside the first
\* and takes the first one's place.
MutantAdmitBegins(r, asks) ==
    /\ budget[r] = 0 /\ admitting.run # r
    /\ ceiling # 0
    /\ admitting' = [run |-> r, asks |-> asks, read |-> committed]
    /\ IF admitting.run # NoRun /\ admitting.read + admitting.asks <= ceiling
       THEN /\ budget' = [budget EXCEPT ![admitting.run] = admitting.asks]
            /\ committed' = committed + admitting.asks
       ELSE UNCHANGED <<budget, committed>>
    /\ UNCHANGED <<ceiling, spent, call>>

\* StartGenerationRun: the advisory lock, then the sum already committed.
AdmitBegins(r, asks) ==
    /\ budget[r] = 0
    /\ admitting = NobodyAdmits
    /\ ceiling # 0
    /\ admitting' = [run |-> r, asks |-> asks, read |-> committed]
    /\ UNCHANGED <<ceiling, committed, budget, spent, call>>

\* admitRun: exactly equal fits, one token over does not.
AdmitEnds ==
    /\ admitting # NobodyAdmits
    /\ IF admitting.read + admitting.asks <= ceiling
       THEN /\ budget' = [budget EXCEPT ![admitting.run] = admitting.asks]
            /\ committed' = committed + admitting.asks
       ELSE UNCHANGED <<budget, committed>>
    /\ admitting' = NobodyAdmits
    /\ UNCHANGED <<ceiling, spent, call>>

\* The connection or the process is lost: the transaction is rolled back and
\* the lock with it.
AdmitIsLost ==
    /\ admitting # NobodyAdmits
    /\ admitting' = NobodyAdmits
    /\ UNCHANGED <<ceiling, committed, budget, spent, call>>

\* Mutant: the meter lets a run go on that has consumed exactly what it reserved.
MutantCallBegins(m, r) ==
    /\ call[m] = NoRun /\ budget[r] # 0
    /\ spent[r] <= budget[r]
    /\ call' = [call EXCEPT ![m] = r]
    /\ UNCHANGED <<ceiling, committed, budget, admitting, spent>>

\* #metered up to the dispatch: the run is there and has not consumed it all.
CallBegins(m, r) ==
    /\ call[m] = NoRun /\ budget[r] # 0
    /\ spent[r] < budget[r]
    /\ call' = [call EXCEPT ![m] = r]
    /\ UNCHANGED <<ceiling, committed, budget, admitting, spent>>

\* The answer's tokens are appended to the ledger.
CallRecords(m) ==
    /\ call[m] # NoRun
    /\ \E used \in 1..MaxUsage : spent' = [spent EXCEPT ![call[m]] = @ + used]
    /\ call' = [call EXCEPT ![m] = NoRun]
    /\ UNCHANGED <<ceiling, committed, budget, admitting>>

\* The provider fails, or its answer's spend cannot be recorded and the answer
\* is dropped: the ledger does not move.
CallFails(m) ==
    /\ call[m] # NoRun
    /\ call' = [call EXCEPT ![m] = NoRun]
    /\ UNCHANGED <<ceiling, committed, budget, admitting, spent>>

BudgetNext ==
    \/ DeclareBudget \/ AdmitEnds \/ AdmitIsLost
    \/ \E r \in Runs, asks \in Reservations : AdmitBegins(r, asks)
    \/ \E m \in Meters :
          \/ CallRecords(m) \/ CallFails(m)
          \/ \E r \in Runs : CallBegins(m, r)

BudgetSpec == BudgetInit /\ [][BudgetNext]_budgetVars

-----------------------------------------------------------------------------
(* Properties *)

InFlight(r) == {m \in Meters : call[m] = r}

BudgetTypeOK ==
    /\ ceiling \in Nat /\ committed \in Nat
    /\ budget \in [Runs -> Nat] /\ spent \in [Runs -> Nat]
    /\ admitting \in [run : Runs \cup {NoRun}, asks : Nat, read : Nat]
    /\ call \in [Meters -> Runs \cup {NoRun}]

\* Runs enqueued side by side never reserve more between them than the period's
\* ceiling, and a run spends nothing before it has reserved.
ReservedWithinCeiling ==
    /\ committed <= ceiling
    /\ \A r \in Runs : budget[r] = 0 => spent[r] = 0

\* How far a run can pass its reservation: every call that was in flight when it
\* was used up may still cross, and no more; a run that has used it up makes no
\* further call.
OvershootIsCallsInFlight ==
    \A r \in Runs :
        budget[r] # 0 =>
            spent[r] + MaxUsage * Cardinality(InFlight(r))
                <= budget[r] - 1 + MaxUsage * Cardinality(Meters)

=============================================================================
