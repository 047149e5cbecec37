-------------------------- MODULE MCAttemptServer --------------------------
(***************************************************************************)
(* The instances of AttemptServer that TLC checks.  The window is [0, 2)   *)
(* and a paper lasts 2, so an attempt started at 1 runs past the close.    *)
(***************************************************************************)
EXTENDS AttemptServer, TLC
=============================================================================
