------------------------------ MODULE Picking ------------------------------
(***************************************************************************)
(* What is left of a sequence when only some of its positions are kept:    *)
(* the text deltas of an answer, the turns of a session that were          *)
(* answered.  Said without recursion, so that it can be reasoned about.    *)
(***************************************************************************)
EXTENDS Integers, Sequences

\* r is what s holds at the positions at, in their order.
Picks(r, s, at) ==
    \E f \in [DOMAIN r -> at] :
      /\ \A i, j \in DOMAIN r : i < j => f[i] < f[j]
      /\ \A n \in at : \E i \in DOMAIN r : f[i] = n
      /\ \A i \in DOMAIN r : r[i] = s[f[i]]
=============================================================================
