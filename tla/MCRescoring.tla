---------------------------- MODULE MCRescoring ----------------------------
(***************************************************************************)
(* The instances of Rescoring that TLC checks: one attempt at a paper of   *)
(* two slots, two operations, and two inputs that each dry run and each    *)
(* execution may be called with.  Both turn one outcome round, and the     *)
(* second drops the other slot.                                            *)
(***************************************************************************)
EXTENDS Rescoring, TLC

CONSTANTS a1, x, y

MCFirstScore == [a \in Attempt |-> x :> "correct" @@ y :> "incorrect"]
MCCorrection == {a1 :> (x :> "incorrect" @@ y :> "incorrect"),
                 a1 :> (x :> "incorrect" @@ y :> "dropped")}
Interchangeable == Permutations(Relay) \cup Permutations(Operation)
=============================================================================
