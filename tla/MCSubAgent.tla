----------------------------- MODULE MCSubAgent -----------------------------
(* Instances of SubAgent for TLC.                                           *)
EXTENDS SubAgent

NoGuesses   == {}
SomeGuesses == {1, 2}
=============================================================================
