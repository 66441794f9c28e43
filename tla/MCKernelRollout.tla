-------------------------- MODULE MCKernelRollout --------------------------
(* Constants for model checking KernelRollout.                              *)
EXTENDS KernelRollout, TLC

CONSTANTS a, b, e, s

MCAgents == {a, b, e}

(* The server comes first in the list, as in staging_fleet. *)
MCRank == s :> 0 @@ a :> 1 @@ b :> 2 @@ e :> 3

(* Generation 2 rebuilds the release around generation 1's kernel. *)
MCKernel == [r \in Releases |-> IF r = 0 THEN 0 ELSE 1]
=============================================================================
