------------------------------ MODULE MCStream ------------------------------
(* An instance of Stream for TLC.                                          *)
EXTENDS Stream, TLC

CONSTANTS a, b, c, x, y

\* Calls a and c are to one definition.
Definitions == a :> x @@ b :> y @@ c :> x

\* Two deltas in an answer of a forwarding child, so that there is an order and one
\* of them can be missed; its rival under the tag only says EventDone.
Lengths == Top :> 1 @@ a :> 2 @@ b :> 0 @@ c :> 0
Misses  == Top :> 0 @@ a :> 1 @@ b :> 0 @@ c :> 0

ApartOrAlike == {{a, b}, {a, c}}
=============================================================================
