----------------------------- MODULE MCSideBySide -----------------------------
(* Six components that share no state and call nothing of one another, in one *)
(* run: a behaviour chooses at its start which of them moves.                 *)
EXTENDS ContentPublication, GenerationBudget, GenerationCandidates,
        IdentitySessions, AuditChain, BoundedWork

VARIABLE moves

sideVars == <<pubVars, budgetVars, candidateVars, sessionVars, auditVars, workVars, moves>>

Init ==
    /\ PubInit /\ BudgetInit /\ CandidatesInit /\ SessionsInit /\ ChainInit /\ WorkInit
    /\ moves \in {"publication", "budget", "candidates", "sessions", "audit", "work"}
    /\ moves # "publication" => pubItem.key = CHOOSE k \in Keys : TRUE

\* The solutions and the stimulus meet only in the item: a behaviour of the
\* publication moves one of the two.
OneCompanionMoves ==
    \/ /\ stimulus.state = "draft" /\ stimulus.saves = 1 /\ signed["stimulus"] = "never"
       /\ ~pubItem.pins
       /\ \A q \in PubRequests : held[q].on # "stimulus" /\ held[q].op # "attach"
    \/ pubItem.saves <= 3 /\ \A s \in Solutions : solution[s].saves = 0

\* Requests are alike: the first that is free takes the next.
FirstFree ==
    \A p, q \in PubRequests : p < q /\ held[p] = Idle /\ held[q] = Idle => held'[q] = Idle

PublicationMoves == moves = "publication" /\ PubNext /\ OneCompanionMoves' /\ FirstFree
                    /\ UNCHANGED <<budgetVars, candidateVars, sessionVars, auditVars, workVars, moves>>
BudgetMoves == moves = "budget" /\ BudgetNext
               /\ UNCHANGED <<pubVars, candidateVars, sessionVars, auditVars, workVars, moves>>
CandidatesMove == moves = "candidates" /\ CandidatesNext
                  /\ UNCHANGED <<pubVars, budgetVars, sessionVars, auditVars, workVars, moves>>
SessionsMove == moves = "sessions" /\ SessionsNext
                /\ UNCHANGED <<pubVars, budgetVars, candidateVars, auditVars, workVars, moves>>
ChainMoves == moves = "audit" /\ ChainNext
              /\ UNCHANGED <<pubVars, budgetVars, candidateVars, sessionVars, workVars, moves>>
WorkMoves == moves = "work" /\ WorkNext
             /\ UNCHANGED <<pubVars, budgetVars, candidateVars, sessionVars, auditVars, moves>>

Next == PublicationMoves \/ BudgetMoves \/ CandidatesMove \/ SessionsMove \/ ChainMoves \/ WorkMoves

Spec == Init /\ [][Next]_sideVars /\ WorkFairness
=============================================================================
