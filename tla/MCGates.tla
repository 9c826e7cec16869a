------------------------------ MODULE MCGates ------------------------------
(* An instance of Gates for TLC.                                           *)
EXTENDS Gates, TLC

CONSTANTS p1, p2, d1, r1, r2, r3

\* Two parents and one sub-agent: a registry each, one shared by the parents, one
\* shared by a parent and the sub-agent.
OneSubAgent ==
    {(p1 :> w[1] @@ p2 :> w[2] @@ d1 :> w[3]) :
       w \in {<<r1, r2, r3>>, <<r1, r1, r3>>, <<r1, r2, r1>>}}
=============================================================================
