-------------------------- MODULE MCAttemptSession --------------------------
(***************************************************************************)
(* The instances of AttemptSession that TLC checks.                        *)
(***************************************************************************)
EXTENDS AttemptSession, TLC
=============================================================================
